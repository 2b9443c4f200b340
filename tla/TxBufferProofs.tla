--------------------------- MODULE TxBufferProofs ---------------------------
(***************************************************************************)
(* Proofs about TxBuffer: what the application gives is what the segments  *)
(* are made of, through both realignments at the end of the buffer.        *)
(*                                                                         *)
(* Bytes are counted from 1 in the order they are given, and byte p is the *)
(* value p.  The invariant says of each stream which bytes are on it: it   *)
(* is a chain, each of whose values leads from one point of the byte       *)
(* sequence to the next, and it reaches from where the function that reads *)
(* it is to where the function that writes it is.  On the side that is     *)
(* written these points are                                                *)
(*                                                                         *)
(*   np       pushes that tasi_pkg_pusher has taken,                       *)
(*   n, c     the push and the byte in it up to which it has taken data,   *)
(*   op, cp   the byte up to which it has put words, and commands,         *)
(*   ms, me   the start and the end of the access the data mover works on, *)
(*   mp       the byte up to which it has written the memory;              *)
(*                                                                         *)
(* and on the side that is read                                            *)
(*                                                                         *)
(*   b, bp    bursts that the break-down has taken, and the byte up to     *)
(*            which it has asked the memory,                               *)
(*   rp       the byte up to which the memory has answered,                *)
(*   f, ip    flags and bytes that tcpPkgStitcher has taken,               *)
(*   i, k     the burst and the word in it that it puts next.              *)
(*                                                                         *)
(* The two sides meet in the memory, which holds every byte that has been  *)
(* written and has not left (MemoryHolds), because less than the buffer is *)
(* under way at any time (SpaceKept).                                      *)
(***************************************************************************)
EXTENDS TxBuffer, SequenceTheorems, TLAPS

-----------------------------------------------------------------------------
(***************************************************************************)
(* Streams as chains: each value of s leads from one point to the next, as *)
(* R says, the first from x and the last to y.                             *)
(***************************************************************************)
Chain(s, V, R, x, y) ==
    /\ s \in Seq(V)
    /\ \E at : /\ at[1] = x /\ at[Len(s) + 1] = y
               /\ \A i \in 1 .. Len(s) : <<s[i], at[i], at[i + 1]>> \in R

Least(a, b) == IF a <= b THEN a ELSE b

Data     == [1 .. WORD -> Int]
AWord    == [data : Data, keep : 0 .. WORD, last : BOOLEAN]
ACommand == [addr : Nat, len : Nat]
APush    == [addr : Nat, len : Nat \ {0}, drop : BOOLEAN]

-----------------------------------------------------------------------------
(***************************************************************************)
(* What is written.  Byte c + 1 of push n is the first of a word; of what  *)
(* is kept, words and commands are between two bytes.                      *)
(***************************************************************************)
FirstPart(n) == Least(given[n].len, SPACE - Place(given[n].from))
Wraps(n)     == Place(given[n].from) + given[n].len > SPACE

GivenInv ==
    /\ given \in Seq([from : Nat, len : Nat \ {0}, drop : BOOLEAN])
    /\ \A n \in DOMAIN given :
          /\ given[n].from = Kept(n - 1)
          /\ ~given[n].drop => given[n].len < SPACE
    /\ \A m, n \in 0 .. Len(given) : m <= n => Kept(m) <= Kept(n)

PushOf(n) == [addr |-> Place(given[n].from), len |-> given[n].len, drop |-> given[n].drop]

DataStep(word, x, y) ==
    LET n == x[1]
        c == x[2]
    IN  /\ n \in DOMAIN given /\ c < given[n].len
        /\ word.keep = Least(WORD, given[n].len - c)
        /\ word.last <=> given[n].len - c <= WORD
        /\ ~given[n].drop => \A j \in 1 .. word.keep : word.data[j] = given[n].from + c + j
        /\ y = IF word.last THEN <<n + 1, 0>> ELSE <<n, c + WORD>>

\* Where an access ends: where a push ends, and at the end of the buffer.
WriteEnd(p) == Place(p) = 0 \/ \E n \in DOMAIN given : ~given[n].drop /\ p = Kept(n)

\* What is between a and z belongs to one access.
Unbroken(a, z) == a < z /\ z <= Total /\ \A p \in a + 1 .. z - 1 : ~WriteEnd(p)

CommandStep(cmd, a, z) ==
    /\ Unbroken(a, z) /\ WriteEnd(z)
    /\ cmd = Access(Place(a), z - a) /\ Place(a) + (z - a) <= SPACE

WriteStep(word, a, z) ==
    /\ Unbroken(a, z) /\ (word.last <=> WriteEnd(z))
    /\ word.keep = z - a /\ \A j \in 1 .. z - a : word.data[j] = a + j

StatusStep(bytes, a, z) == z = a + bytes

DataSteps    == {t \in AWord \X (Nat \X Nat) \X (Nat \X Nat) : DataStep(t[1], t[2], t[3])}
CommandSteps == {t \in ACommand \X Nat \X Nat : CommandStep(t[1], t[2], t[3])}
WriteSteps   == {t \in AWord \X Nat \X Nat : WriteStep(t[1], t[2], t[3])}
StatusSteps(top) == {t \in Nat \X Nat \X (0 .. top) : StatusStep(t[1], t[2], t[3])}

\* The bytes behind the first t of the word the writer holds are those behind p.
Holds(t, h, p) == \A j \in 1 .. h : w.word.data[t + j] = p + j

\* tasi_pkg_pusher has taken np pushes and the data up to byte c of push n; it
\* has written op bytes, and commands for cp bytes.
AtCommand(np, n, c, op, cp) ==
    /\ w.state = "command" /\ ~w.broken
    /\ n = np + 1 /\ c = 0 /\ op = Kept(np) /\ cp = Kept(np)

AtDropped(np, n, c, op, cp) ==
    /\ w.state = "first" /\ w.drop /\ ~w.broken
    /\ np \in DOMAIN given /\ given[np].drop
    /\ n = np /\ c < given[np].len /\ op = Kept(np) /\ cp = Kept(np)

AtFirst(np, n, c, op, cp) ==
    /\ w.state = "first" /\ ~w.drop /\ (w.broken <=> Wraps(np))
    /\ np \in DOMAIN given /\ ~given[np].drop
    /\ w.addr = Place(given[np].from)
    /\ w.left = FirstPart(np) - c
    /\ Wraps(np) => /\ w.bbt = given[np].len - FirstPart(np)
                    /\ w.addr % WORD = 0 <=> \E k \in Nat : w.left = k * WORD
    /\ n = np /\ c < FirstPart(np)
    /\ op = given[np].from + c /\ cp = given[np].from + FirstPart(np)

AtSecond(np, n, c, op, cp) ==
    /\ w.state = "second" /\ w.broken
    /\ np \in DOMAIN given /\ ~given[np].drop /\ Wraps(np)
    /\ w.addr = Place(given[np].from)
    /\ w.bbt = given[np].len - FirstPart(np)
    /\ op = given[np].from + FirstPart(np) /\ cp = op
    /\ IF w.addr % WORD = 0
       THEN n = np /\ c = FirstPart(np)
       ELSE /\ w.taken \in 1 .. WORD - 1 /\ w.residue \in 1 .. WORD - w.taken
            /\ Holds(w.taken, w.residue, op)
            /\ \/ n = np /\ c = FirstPart(np) + w.residue /\ c < given[np].len
                  /\ w.residue = WORD - w.taken
               \/ n = np + 1 /\ c = 0 /\ w.residue = w.bbt

\* It is behind the end of the buffer.
Behind(np, op, cp) ==
    /\ ~w.broken
    /\ np \in DOMAIN given /\ ~given[np].drop /\ Wraps(np)
    /\ op >= given[np].from + FirstPart(np) /\ cp = Kept(np)

AtAligned(np, n, c, op, cp) ==
    /\ w.state = "aligned" /\ Behind(np, op, cp)
    /\ n = np /\ c < given[np].len /\ op = given[np].from + c

AtRealign(np, n, c, op, cp) ==
    /\ w.state = "realign" /\ Behind(np, op, cp)
    /\ n = np /\ c < given[np].len
    /\ w.taken \in 1 .. WORD - 1 /\ w.residue = WORD - w.taken
    /\ Holds(w.taken, w.residue, op)
    /\ op = given[np].from + c - w.residue /\ w.left = cp - op

AtResidue(np, n, c, op, cp) ==
    /\ w.state = "residue" /\ Behind(np, op, cp)
    /\ n = np + 1 /\ c = 0
    /\ w.taken \in 1 .. WORD - 1 /\ w.left = cp - op /\ w.left \in 1 .. WORD - w.taken
    /\ Holds(w.taken, w.left, op)

WriterTyped ==
    w \in [state : {"command", "first", "second", "aligned", "realign", "residue"},
           addr : Int, bbt : Int, left : Int, residue : Int, taken : Int,
           broken : BOOLEAN, word : AWord, drop : BOOLEAN]

AtWriter(np, n, c, op, cp) ==
    /\ WriterTyped
    /\ \/ AtCommand(np, n, c, op, cp) \/ AtDropped(np, n, c, op, cp)
       \/ AtFirst(np, n, c, op, cp) \/ AtSecond(np, n, c, op, cp)
       \/ AtAligned(np, n, c, op, cp) \/ AtRealign(np, n, c, op, cp)
       \/ AtResidue(np, n, c, op, cp)

\* The data mover works on the access from ms to me and has written it up to mp.
AtMover(ms, mp, me) ==
    \/ mover = Idle /\ mp = ms /\ me = ms
    \/ /\ CommandStep(Access(mover.addr, mover.len), ms, me)
       /\ ms <= mp /\ mp < me
       /\ mover = [addr |-> Place(ms), len |-> me - ms, done |-> mp - ms]

\* The pushes behind the first np are on their way.
PushesLeft(np) ==
    /\ np \in 0 .. Len(given) /\ q["push"] \in Seq(APush) /\ Len(q["push"]) = Len(given) - np
    /\ \A j \in DOMAIN q["push"] : q["push"][j] = PushOf(np + j)

DataLeft(n, c)       == Chain(q["data"], AWord, DataSteps, <<n, c>>, <<Len(given) + 1, 0>>)
CommandsLeft(me, cp) == Chain(q["writeCmd"], ACommand, CommandSteps, me, cp)
WordsLeft(mp, op)    == Chain(q["writeData"], AWord, WriteSteps, mp, op)
AnswersLeft(ms)      == written <= ms /\ Chain(q["status"], Nat, StatusSteps(ms), written, ms)

WriteSide(np, n, c, op, cp, ms, mp, me) ==
    /\ {n, c, op, cp, ms, mp, me, written} \subseteq Nat
    /\ PushesLeft(np) /\ DataLeft(n, c) /\ AtWriter(np, n, c, op, cp)
    /\ CommandsLeft(me, cp) /\ WordsLeft(mp, op) /\ AtMover(ms, mp, me) /\ AnswersLeft(ms)

-----------------------------------------------------------------------------
(***************************************************************************)
(* What is read.                                                           *)
(***************************************************************************)
Crosses(i) == Address(i) + Length(i) > SPACE
Turn(i)    == Before(i) + SPACE - Address(i)

AskedInv ==
    /\ asked \in Seq(Nat) /\ Asked <= written
    /\ \A i \in DOMAIN asked : Before(i) < asked[i]
    /\ \A i, j \in 1 .. Len(asked) + 1 : i <= j => Before(i) <= Before(j)

ReadEnd(p) == Place(p) = 0 \/ \E i \in DOMAIN asked : p = asked[i]

ReadStep(cmd, a, z) ==
    /\ a < z /\ z <= Asked /\ ReadEnd(z) /\ \A p \in a + 1 .. z - 1 : ~ReadEnd(p)
    /\ cmd = Access(Place(a), z - a) /\ Place(a) + (z - a) <= SPACE

LoadStep(word, a, z) ==
    /\ a < z /\ z <= Asked /\ \A p \in a + 1 .. z - 1 : ~ReadEnd(p)
    /\ (word.last <=> ReadEnd(z)) /\ (word.last \/ word.keep = WORD)
    /\ word.keep = z - a /\ \A j \in 1 .. z - a : word.data[j] = a + j

\* Word k of burst i, which has the bytes behind p.
SegmentWord(word, i, p) ==
    /\ p < asked[i]
    /\ word.keep = Least(WORD, asked[i] - p) /\ (word.last <=> asked[i] - p <= WORD)
    /\ \A j \in 1 .. word.keep : word.data[j] = p + j

Point(i, k) == Before(i) + ((k - 1) * WORD)

OutStep(word, x, y) ==
    /\ x[1] \in DOMAIN asked
    /\ Filled(x[1]) \/ SegmentWord(word, x[1], Point(x[1], x[2]))
    /\ y = IF word.last THEN <<x[1] + 1, 1>> ELSE <<x[1], x[2] + 1>>

ReadSteps      == {t \in ACommand \X Nat \X Nat : ReadStep(t[1], t[2], t[3])}
LoadSteps(top) == {t \in AWord \X Nat \X (0 .. top) : LoadStep(t[1], t[2], t[3])}
OutSteps(top)  == {t \in AWord \X (Nat \X Nat) \X ((0 .. top) \X Nat) : OutStep(t[1], t[2], t[3])}

\* The break-down has taken b accesses, and asked the memory for what is up to bp.
AtBreakdown(b, bp) ==
    \/ breakdown = NoAccess /\ bp = Before(b + 1)
    \/ /\ b \in DOMAIN asked /\ Crosses(b) /\ Length(b) < SPACE
       /\ breakdown = Access(0, asked[b] - Turn(b)) /\ bp = Turn(b)

\* tcpPkgStitcher has taken f flags and the bytes up to ip; the next word it
\* puts is word k of burst i.
AtStart(f, ip, i, k) ==
    /\ r.state = "data" /\ r.flag = Unread /\ f = i - 1 /\ k = 1 /\ ip = Before(i)

AtData(f, ip, i, k) ==
    /\ r.state = "data" /\ r.flag = (IF Crosses(i) /\ ip < Turn(i) THEN 1 ELSE 0)
    /\ f = i /\ i \in DOMAIN asked /\ ip = Point(i, k) /\ ip < asked[i]

\* The last s bytes that were taken start at place t of the word it holds.
Keeps(t, s, p) == \A j \in 1 .. s : r.word.data[t + j] = p + j

Moved(f, i) ==
    /\ f = i /\ i \in DOMAIN asked /\ Crosses(i) /\ Address(i) % WORD # 0
    /\ r.shift \in 1 .. WORD - 1

AtMerge(f, ip, i, k) ==
    /\ r.state \in {"join", "merged"} /\ Moved(f, i)
    /\ Turn(i) <= ip /\ ip < asked[i] /\ Point(i, k) = ip - r.shift
    /\ Keeps(IF r.state = "join" THEN 0 ELSE WORD - r.shift, r.shift, ip - r.shift)

AtRest(f, ip, i, k) ==
    /\ r.state = "residue" /\ Moved(f, i)
    /\ ip = asked[i] /\ r.word.keep >= WORD - r.shift
    /\ Point(i, k) = ip - (r.word.keep + r.shift - WORD)
    /\ Keeps(WORD - r.shift, r.word.keep + r.shift - WORD, Point(i, k))

StitcherTyped ==
    r \in [state : {"data", "join", "merged", "residue"}, flag : {0, 1, Unread},
           word : AWord, shift : 0 .. WORD]

AtStitcher(f, ip, i, k) ==
    /\ StitcherTyped
    /\ i \in 1 .. Len(asked) + 1 /\ k \in Nat /\ Before(i) <= ip
    /\ \/ AtStart(f, ip, i, k) \/ AtData(f, ip, i, k)
       \/ AtMerge(f, ip, i, k) \/ AtRest(f, ip, i, k)

AtLeaving ==
    /\ got \in Seq(Seq(AWord)) /\ \A i \in DOMAIN got : Filled(i) \/ Intact(i)
    /\ burst \in Seq(AWord)
    /\ \A k \in DOMAIN burst :
          /\ Len(got) + 1 \in DOMAIN asked /\ ~burst[k].last
          /\ Filled(Len(got) + 1) \/ SegmentWord(burst[k], Len(got) + 1, Point(Len(got) + 1, k))

\* The break-down has taken the first b accesses, the stitcher f of their flags.
ReadsLeft(b) ==
    /\ b \in 0 .. Len(asked) /\ q["readCmd"] \in Seq(ACommand) /\ Len(q["readCmd"]) = Len(asked) - b
    /\ \A j \in DOMAIN q["readCmd"] : q["readCmd"][j] = Access(Address(b + j), Length(b + j))

FlagsLeft(f, b) ==
    /\ f \in 0 .. b /\ q["accessFlag"] \in Seq({0, 1}) /\ Len(q["accessFlag"]) = b - f
    /\ \A j \in DOMAIN q["accessFlag"] : q["accessFlag"][j] = IF Crosses(f + j) THEN 1 ELSE 0

AccessesLeft(rp, bp) == Chain(q["memCmd"], ACommand, ReadSteps, rp, bp)
LoadsLeft(ip, rp)    == ip <= rp /\ Chain(q["memData"], AWord, LoadSteps(rp), ip, rp)
OutLeft(i, k)        ==
    /\ Len(got) + 1 <= i
    /\ Chain(q["out"], AWord, OutSteps(i), <<Len(got) + 1, Len(burst) + 1>>, <<i, k>>)

ReadSide(b, bp, rp, f, ip, i, k) ==
    /\ {bp, rp, ip} \subseteq Nat
    /\ ReadsLeft(b) /\ AtBreakdown(b, bp) /\ FlagsLeft(f, b) /\ AccessesLeft(rp, bp)
    /\ LoadsLeft(ip, rp) /\ AtStitcher(f, ip, i, k) /\ OutLeft(i, k) /\ AtLeaving

-----------------------------------------------------------------------------
(***************************************************************************)
(* The memory between them.                                                *)
(***************************************************************************)
Left == Before(Len(got) + 1)

MemoryHolds(mp) ==
    /\ mp <= Total /\ mem \in [0 .. SPACE - 1 -> Int]
    /\ \A p \in Left + 1 .. mp : mem[Place(p - 1)] = p

SpaceKept == Total - Left < SPACE

Typed ==
    /\ start \in Nat /\ todo \in Seq([len : Nat \ {0}, drop : BOOLEAN])
    /\ DOMAIN q = BufferStreams

WriteInv ==
    \E np, n, c, op, cp, ms, mp, me :
        WriteSide(np, n, c, op, cp, ms, mp, me) /\ MemoryHolds(mp)

ReadInv == \E b, bp, rp, f, ip, i, k : ReadSide(b, bp, rp, f, ip, i, k)

IInv == Typed /\ GivenInv /\ AskedInv /\ SpaceKept /\ WriteInv /\ ReadInv

-----------------------------------------------------------------------------
(***************************************************************************)
(* Chains: none, one more at the end, one less at the front, two of them.  *)
(***************************************************************************)
\* A chain with nothing on it leads nowhere.
LEMMA ChainEmpty ==
    ASSUME NEW V, NEW R, NEW x
    PROVE  Chain(<<>>, V, R, x, x)
<1> DEFINE at == [i \in {1} |-> x]
<1>1. <<>> \in Seq(V) /\ Len(<<>>) = 0  BY EmptySeq
<1>2. at[1] = x  OBVIOUS
<1>3. 1 .. Len(<<>>) = {}  BY <1>1
<1>4. \A i \in 1 .. Len(<<>>) : <<(<<>>)[i], at[i], at[i + 1]>> \in R  BY <1>3
<1> HIDE DEF at
<1>5. at[1] = x /\ at[Len(<<>>) + 1] = x  BY <1>1, <1>2
<1> QED  BY <1>1, <1>4, <1>5 DEF Chain

\* Without its first value, a chain starts where that value led.
LEMMA ChainTail ==
    ASSUME NEW s, NEW V, NEW R, NEW x, NEW y, Chain(s, V, R, x, y), s # <<>>
    PROVE  /\ s \in Seq(V) /\ Head(s) \in V
           /\ \E z : <<Head(s), x, z>> \in R /\ Chain(Tail(s), V, R, z, y)
<1>1. PICK at : /\ at[1] = x /\ at[Len(s) + 1] = y
                /\ \A i \in 1 .. Len(s) : <<s[i], at[i], at[i + 1]>> \in R
  BY DEF Chain
<1>2. s \in Seq(V)  BY DEF Chain
<1>3. Tail(s) \in Seq(V) /\ Len(Tail(s)) = Len(s) - 1 /\ Head(s) \in V
      /\ \A i \in 1 .. Len(Tail(s)) : Tail(s)[i] = s[i + 1]
  BY <1>2, HeadTailProperties
<1>4. Len(s) \in Nat \ {0} /\ Head(s) = s[1]  BY <1>2, EmptySeq
<1> DEFINE rest == [i \in 1 .. Len(s) |-> at[i + 1]]
<1>5. <<Head(s), x, at[2]>> \in R  BY <1>1, <1>4
<1>6. rest[1] = at[2] /\ rest[Len(Tail(s)) + 1] = y  BY <1>1, <1>3, <1>4
<1>7. ASSUME NEW i \in 1 .. Len(Tail(s))
      PROVE  <<Tail(s)[i], rest[i], rest[i + 1]>> \in R
  <2>1. i + 1 \in 1 .. Len(s) /\ i \in 1 .. Len(s)  BY <1>3, <1>4
  <2>2. <<s[i + 1], at[i + 1], at[(i + 1) + 1]>> \in R  BY <1>1, <2>1
  <2>3. rest[i] = at[i + 1] /\ rest[i + 1] = at[(i + 1) + 1]  BY <2>1
  <2>4. Tail(s)[i] = s[i + 1]  BY <1>3
  <2> HIDE DEF rest
  <2> QED  BY <2>2, <2>3, <2>4
<1> HIDE DEF rest
<1>8. Chain(Tail(s), V, R, at[2], y)  BY <1>3, <1>6, <1>7 DEF Chain
<1> QED  BY <1>2, <1>3, <1>5, <1>8

\* Two chains in a row are one.
LEMMA ChainConcat ==
    ASSUME NEW s, NEW t, NEW V, NEW R, NEW x, NEW y, NEW z,
           Chain(s, V, R, x, y), Chain(t, V, R, y, z)
    PROVE  Chain(s \o t, V, R, x, z)
<1>1. PICK a : /\ a[1] = x /\ a[Len(s) + 1] = y
               /\ \A i \in 1 .. Len(s) : <<s[i], a[i], a[i + 1]>> \in R
  BY DEF Chain
<1>2. PICK e : /\ e[1] = y /\ e[Len(t) + 1] = z
               /\ \A i \in 1 .. Len(t) : <<t[i], e[i], e[i + 1]>> \in R
  BY DEF Chain
<1>3. s \in Seq(V) /\ t \in Seq(V)  BY DEF Chain
<1>4. /\ s \o t \in Seq(V) /\ Len(s \o t) = Len(s) + Len(t)
      /\ \A i \in 1 .. Len(s) + Len(t) :
            (s \o t)[i] = IF i <= Len(s) THEN s[i] ELSE t[i - Len(s)]
  BY <1>3, ConcatProperties
<1>5. Len(s) \in Nat /\ Len(t) \in Nat  BY <1>3, LenProperties
<1> DEFINE m == Len(s)
           l == Len(t)
           at == [i \in 1 .. m + l + 1 |-> IF i <= m THEN a[i] ELSE e[i - m]]
<1>6. at[1] = x
  <2>1. CASE m = 0  BY <2>1, <1>1, <1>2, <1>5
  <2>2. CASE m > 0  BY <2>2, <1>1, <1>5
  <2> QED  BY <2>1, <2>2, <1>5
<1>7. at[m + l + 1] = z  BY <1>2, <1>5
<1>8. ASSUME NEW i \in 1 .. m + l
      PROVE  <<(s \o t)[i], at[i], at[i + 1]>> \in R
  <2>1. CASE i <= m
    <3>1. at[i] = a[i] /\ at[i + 1] = a[i + 1]
      <4>1. at[i] = a[i]  BY <2>1, <1>5
      <4>2. CASE i < m  BY <4>1, <4>2, <1>5
      <4>3. CASE i = m  BY <4>1, <4>3, <1>1, <1>2, <1>5
      <4> QED  BY <2>1, <4>2, <4>3, <1>5
    <3>2. (s \o t)[i] = s[i]  BY <1>4, <2>1, <1>5
    <3>3. <<s[i], a[i], a[i + 1]>> \in R  BY <1>1, <2>1, <1>5
    <3> HIDE DEF at, l
    <3> QED  BY <3>1, <3>2, <3>3
  <2>2. CASE i > m
    <3>1. at[i] = e[i - m] /\ at[i + 1] = e[(i - m) + 1]  BY <2>2, <1>5
    <3>2. (s \o t)[i] = t[i - m]  BY <1>4, <2>2, <1>5
    <3>3. i - m \in 1 .. l  BY <2>2, <1>5
    <3>4. <<t[i - m], e[i - m], e[(i - m) + 1]>> \in R  BY <1>2, <3>3
    <3> HIDE DEF at, l
    <3> QED  BY <3>1, <3>2, <3>4
  <2>3. i <= m \/ i > m  BY <1>5
  <2> HIDE DEF at
  <2> QED  BY <2>1, <2>2, <2>3
<1> HIDE DEF at
<1>9. /\ at[1] = x /\ at[Len(s \o t) + 1] = z
      /\ \A i \in 1 .. Len(s \o t) : <<(s \o t)[i], at[i], at[i + 1]>> \in R
  BY <1>4, <1>6, <1>7, <1>8
<1> QED  BY <1>4, <1>9 DEF Chain

\* One value alone.
LEMMA ChainOne ==
    ASSUME NEW V, NEW v \in V, NEW R, NEW x, NEW y, <<v, x, y>> \in R
    PROVE  Chain(<<v>>, V, R, x, y)
<1> DEFINE at == [i \in {1, 2} |-> IF i = 1 THEN x ELSE y]
<1>1. <<v>> \in Seq(V) /\ Len(<<v>>) = 1 /\ (<<v>>)[1] = v  OBVIOUS
<1>2. at[1] = x /\ at[2] = y  OBVIOUS
<1> HIDE DEF at
<1>3. \A i \in 1 .. 1 : <<(<<v>>)[i], at[i], at[i + 1]>> \in R  BY <1>1, <1>2
<1> QED  BY <1>1, <1>2, <1>3 DEF Chain

\* A chain of R is one of every relation that has R in it.
LEMMA ChainMonotone ==
    ASSUME NEW s, NEW V, NEW R, NEW S, NEW x, NEW y, Chain(s, V, R, x, y), R \subseteq S
    PROVE  Chain(s, V, S, x, y)
<1>1. PICK at : /\ at[1] = x /\ at[Len(s) + 1] = y
                /\ \A i \in 1 .. Len(s) : <<s[i], at[i], at[i + 1]>> \in R
  BY DEF Chain
<1>2. \A i \in 1 .. Len(s) : <<s[i], at[i], at[i + 1]>> \in S  BY <1>1
<1> QED  BY <1>1, <1>2 DEF Chain

-----------------------------------------------------------------------------
(***************************************************************************)
(* Numbers: what is left of a division, and places in the buffer.          *)
(***************************************************************************)
\* A number is a multiple of s and what is left of it.
LEMMA Division ==
    ASSUME NEW a \in Nat, NEW s \in Nat \ {0}
    PROVE  a % s \in 0 .. s - 1 /\ \E k \in Nat : a = k * s + (a % s)
<1>1. a % s \in 0 .. s - 1  OBVIOUS
<1>2. a = (a \div s) * s + (a % s) /\ a \div s \in Nat  OBVIOUS
<1> QED  BY <1>1, <1>2

\* Numbers that are written in two ways.
LEMMA Unique ==
    ASSUME NEW s \in Nat \ {0}, NEW k \in Int, NEW l \in Int,
           NEW x \in 0 .. s - 1, NEW y \in 0 .. s - 1, k * s + x = l * s + y
    PROVE  k = l /\ x = y
<1>1. (k - l) * s = y - x  OBVIOUS
<1>2. CASE k > l
  <2>1. (k - l) * s >= s
    <3>1. \A d \in Nat : d >= 1 => d * s >= s  OBVIOUS
    <3> QED  BY <3>1, <1>2
  <2> QED  BY <2>1, <1>1
<1>3. CASE k < l
  <2>1. (l - k) * s >= s
    <3>1. \A d \in Nat : d >= 1 => d * s >= s  OBVIOUS
    <3> QED  BY <3>1, <1>3
  <2>2. (l - k) * s = x - y  OBVIOUS
  <2> QED  BY <2>1, <2>2
<1> QED  BY <1>2, <1>3

\* A remainder is known by what it is the remainder of.
LEMMA Modulus ==
    ASSUME NEW a \in Nat, NEW s \in Nat \ {0}, NEW k \in Int, NEW m \in 0 .. s - 1, a = k * s + m
    PROVE  a % s = m
<1>1. a % s \in 0 .. s - 1 /\ \E l \in Nat : a = l * s + (a % s)  BY Division
<1>2. PICK l \in Nat : a = l * s + (a % s)  BY <1>1
<1> DEFINE r1 == a % s
<1>3. r1 \in 0 .. s - 1 /\ k * s + m = l * s + r1  BY <1>1, <1>2
<1> HIDE DEF r1
<1>4. m = r1  BY <1>3, Unique
<1> QED  BY <1>4 DEF r1

\* Nothing is left of a multiple.
LEMMA Multiple ==
    ASSUME NEW a \in Nat, NEW s \in Nat \ {0}
    PROVE  a % s = 0 <=> \E k \in Nat : a = k * s
<1>1. a % s \in 0 .. s - 1 /\ \E l \in Nat : a = l * s + (a % s)  BY Division
<1>2. ASSUME NEW k \in Nat, a = k * s PROVE a % s = 0
  <2>1. a = k * s + 0 /\ 0 \in 0 .. s - 1  BY <1>2
  <2> QED  BY <2>1, Modulus
<1>3. ASSUME a % s = 0 PROVE \E k \in Nat : a = k * s
  <2>1. PICK l \in Nat : a = l * s + (a % s)  BY <1>1
  <2>2. a = l * s  BY <2>1, <1>3
  <2> QED  BY <2>2
<1> QED  BY <1>2, <1>3

-----------------------------------------------------------------------------
\* What is assumed of the two sizes.
LEMMA WordNat == WORD \in Nat \ {0}  BY WordsAssumption

\* The buffer holds whole words.
LEMMA SpaceNat == SPACE \in Nat \ {0} /\ SPACE % WORD = 0  BY SpaceAssumption

\* A place is one of the buffer's.
LEMMA PlaceType ==
    ASSUME start \in Nat, NEW p \in Nat
    PROVE  Place(p) \in 0 .. SPACE - 1
<1>1. start + p \in Nat  OBVIOUS
<1> QED  BY <1>1, SpaceNat, Division DEF Place

\* Behind a byte, places follow each other up to the end of the buffer.
LEMMA PlaceNext ==
    ASSUME start \in Nat, NEW p \in Nat, NEW k \in Nat, Place(p) + k < SPACE
    PROVE  Place(p + k) = Place(p) + k
<1> DEFINE a == start + p
           m == a % SPACE
<1>1. a \in Nat /\ SPACE \in Nat \ {0}  BY SpaceNat
<1>2. m \in 0 .. SPACE - 1 /\ \E l \in Nat : a = l * SPACE + m  BY <1>1, Division
<1>3. PICK l \in Nat : a = l * SPACE + m  BY <1>2
<1>4. Place(p) = m /\ Place(p + k) = (a + k) % SPACE
  <2>1. start + (p + k) = a + k  OBVIOUS
  <2> QED  BY <2>1 DEF Place
<1> HIDE DEF m, a
<1>5. a + k \in Nat /\ a + k = l * SPACE + (m + k)  BY <1>1, <1>2, <1>3
<1>6. m + k \in 0 .. SPACE - 1  BY <1>1, <1>2, <1>4
<1> DEFINE d == m + k
<1>7. d \in 0 .. SPACE - 1 /\ a + k = l * SPACE + d /\ l \in Int  BY <1>5, <1>6
<1> HIDE DEF d
<1>8. (a + k) % SPACE = d  BY <1>1, <1>5, <1>7, Modulus
<1> QED  BY <1>4, <1>8 DEF d

\* At the end the buffer starts again.
LEMMA PlaceAgain ==
    ASSUME start \in Nat, NEW p \in Nat, NEW k \in Nat,
           Place(p) + k >= SPACE, Place(p) + k < 2 * SPACE
    PROVE  Place(p + k) = Place(p) + k - SPACE
<1> DEFINE a == start + p
           m == a % SPACE
<1>1. a \in Nat /\ SPACE \in Nat \ {0}  BY SpaceNat
<1>2. m \in 0 .. SPACE - 1 /\ \E l \in Nat : a = l * SPACE + m  BY <1>1, Division
<1>3. PICK l \in Nat : a = l * SPACE + m  BY <1>2
<1>4. Place(p) = m /\ Place(p + k) = (a + k) % SPACE
  <2>1. start + (p + k) = a + k  OBVIOUS
  <2> QED  BY <2>1 DEF Place
<1> HIDE DEF m, a
<1>5. a + k \in Nat /\ a + k = l * SPACE + (m + k)  BY <1>1, <1>2, <1>3
<1>6. l * SPACE + (m + k) = (l + 1) * SPACE + (m + k - SPACE)  BY <1>1, <1>2
<1>7. m + k - SPACE \in 0 .. SPACE - 1  BY <1>1, <1>2, <1>4
<1> DEFINE d == m + k - SPACE
<1>8. d \in 0 .. SPACE - 1 /\ a + k = (l + 1) * SPACE + d /\ l + 1 \in Int
  BY <1>5, <1>6, <1>7
<1> HIDE DEF d
<1>9. (a + k) % SPACE = d  BY <1>1, <1>5, <1>8, Modulus
<1> QED  BY <1>4, <1>9 DEF d

\* Less than the whole buffer has no place twice.
LEMMA PlaceOnce ==
    ASSUME start \in Nat, NEW p \in Nat, NEW k \in Nat, k < SPACE, Place(p + k) = Place(p)
    PROVE  k = 0
<1>1. Place(p) \in 0 .. SPACE - 1 /\ SPACE \in Nat  BY PlaceType, SpaceNat
<1>2. CASE Place(p) + k < SPACE  BY <1>1, <1>2, PlaceNext
<1>3. CASE Place(p) + k >= SPACE
  <2>1. Place(p) + k < 2 * SPACE  BY <1>1
  <2>2. Place(p + k) = Place(p) + k - SPACE  BY <1>3, <2>1, PlaceAgain
  <2> QED  BY <1>1, <2>2
<1> QED  BY <1>1, <1>2, <1>3

-----------------------------------------------------------------------------
(***************************************************************************)
(* Words, and the bursts they make.                                        *)
(***************************************************************************)
\* The first n bytes of a word.
LEMMA FirstOf ==
    ASSUME NEW data \in Data, NEW n \in 0 .. WORD
    PROVE  /\ First(data, n) \in Seq(Int) /\ Len(First(data, n)) = n
           /\ \A j \in 1 .. n : First(data, n)[j] = data[j]
<1>1. \A i \in 1 .. n : data[i] \in Int  BY WordNat DEF Data
<1>2. n \in Int /\ 1 \in Int  BY WordNat
<1>3. /\ SubSeq(data, 1, n) \in Seq(Int)
      /\ Len(SubSeq(data, 1, n)) = IF 1 <= n THEN n - 1 + 1 ELSE 0
      /\ \A i \in 1 .. n - 1 + 1 : SubSeq(data, 1, n)[i] = data[1 + i - 1]
  BY <1>1, <1>2, SubSeqProperties
<1>4. \A i \in 1 .. n : SubSeq(data, 1, n)[i] = data[i]  BY <1>2, <1>3
<1> QED  BY <1>2, <1>3, <1>4, WordNat DEF First

\* The bytes of a word behind the first t.
LEMMA RestOf ==
    ASSUME NEW data \in Data, NEW t \in 0 .. WORD
    PROVE  /\ Rest(data, t) \in Seq(Int) /\ Len(Rest(data, t)) = WORD - t
           /\ \A j \in 1 .. WORD - t : Rest(data, t)[j] = data[t + j]
<1>1. \A i \in t + 1 .. WORD : data[i] \in Int  BY WordNat DEF Data
<1>2. t + 1 \in Int /\ WORD \in Int  BY WordNat
<1>3. /\ SubSeq(data, t + 1, WORD) \in Seq(Int)
      /\ Len(SubSeq(data, t + 1, WORD)) = IF t + 1 <= WORD THEN WORD - (t + 1) + 1 ELSE 0
      /\ \A i \in 1 .. WORD - (t + 1) + 1 : SubSeq(data, t + 1, WORD)[i] = data[(t + 1) + i - 1]
  BY <1>1, <1>2, SubSeqProperties
<1>4. \A i \in 1 .. WORD - t : SubSeq(data, t + 1, WORD)[i] = data[t + i]
  <2> SUFFICES ASSUME NEW i \in 1 .. WORD - t PROVE SubSeq(data, t + 1, WORD)[i] = data[t + i]
    OBVIOUS
  <2>1. i \in 1 .. WORD - (t + 1) + 1 /\ (t + 1) + i - 1 = t + i  BY <1>2
  <2> QED  BY <2>1, <1>3
<1>5. Len(SubSeq(data, t + 1, WORD)) = WORD - t  BY <1>2, <1>3
<1> QED  BY <1>3, <1>4, <1>5 DEF Rest

\* Bytes at the low end of a word, the rest of it undefined.
LEMMA PadOf ==
    ASSUME NEW bytes \in Seq(Int)
    PROVE  /\ Pad(bytes) \in Data
           /\ \A j \in 1 .. WORD : Pad(bytes)[j] = IF j <= Len(bytes) THEN bytes[j] ELSE Junk
<1>1. Len(bytes) \in Nat /\ \A j \in 1 .. Len(bytes) : bytes[j] \in Int
  BY LenProperties
<1>2. ASSUME NEW j \in 1 .. WORD PROVE (IF j <= Len(bytes) THEN bytes[j] ELSE Junk) \in Int
  BY <1>1, <1>2, WordNat DEF Junk
<1> QED  BY <1>2 DEF Pad, Data

\* Bytes at the low end of a word, the bytes of another behind them.
LEMMA JoinOf ==
    ASSUME NEW low \in Seq(Int), Len(low) <= WORD, NEW data \in Data
    PROVE  /\ Join(low, data) \in Data
           /\ \A j \in 1 .. WORD : Join(low, data)[j] = IF j <= Len(low) THEN low[j]
                                                        ELSE data[j - Len(low)]
<1> DEFINE l == Len(low)
           s == First(data, WORD - l)
<1>1. l \in Nat /\ WORD \in Nat  BY LenProperties, WordNat
<1>2. s \in Seq(Int) /\ Len(s) = WORD - l /\ \A j \in 1 .. WORD - l : s[j] = data[j]
  <2>1. WORD - l \in 0 .. WORD  BY <1>1
  <2> QED  BY <2>1, FirstOf
<1> HIDE DEF s
<1>3. /\ low \o s \in Seq(Int) /\ Len(low \o s) = l + (WORD - l)
      /\ \A i \in 1 .. l + (WORD - l) : (low \o s)[i] = IF i <= l THEN low[i] ELSE s[i - l]
  <2>1. /\ low \o s \in Seq(Int) /\ Len(low \o s) = l + Len(s)
        /\ \A i \in 1 .. l + Len(s) : (low \o s)[i] = IF i <= l THEN low[i] ELSE s[i - l]
    BY <1>2, ConcatProperties
  <2>2. Len(s) = WORD - l  BY <1>2
  <2> HIDE DEF l
  <2> QED  BY <2>1, <2>2
<1>4. l + (WORD - l) = WORD  BY <1>1
<1>5. low \o s \in [1 .. WORD -> Int]  BY <1>3, <1>4, LenProperties
<1>6. ASSUME NEW j \in 1 .. WORD
      PROVE  (low \o s)[j] = IF j <= l THEN low[j] ELSE data[j - l]
  <2>1. (low \o s)[j] = IF j <= l THEN low[j] ELSE s[j - l]  BY <1>3, <1>4
  <2>2. j > l => j - l \in 1 .. WORD - l  BY <1>1
  <2> QED  BY <2>1, <2>2, <1>2, <1>1
<1>7. Join(low, data) = low \o s  BY DEF Join, s
<1> QED  BY <1>5, <1>6, <1>7 DEF Data

\* A word, and its parts.
LEMMA AxiWordOf ==
    ASSUME NEW data \in Data, NEW keep \in 0 .. WORD, NEW last \in BOOLEAN
    PROVE  /\ AxiWord(data, keep, last) \in AWord
           /\ AxiWord(data, keep, last).data = data
           /\ AxiWord(data, keep, last).keep = keep
           /\ AxiWord(data, keep, last).last = last
BY DEF AxiWord, AWord, Data

\* The parts of any word.
LEMMA WordParts ==
    ASSUME NEW word \in AWord
    PROVE  word.data \in Data /\ word.keep \in 0 .. WORD /\ word.last \in BOOLEAN
BY DEF AWord, Data

\* How many words a burst has.
LEMMA Count ==
    ASSUME NEW len \in Nat \ {0}
    PROVE  LET count == (len + WORD - 1) \div WORD
           IN  /\ count \in Nat \ {0}
               /\ (count - 1) * WORD < len /\ len <= count * WORD
<1> DEFINE count == (len + WORD - 1) \div WORD
           a == len + WORD - 1
<1>1. a \in Nat /\ WORD \in Nat \ {0}  BY WordNat
<1>2. count \in Nat /\ a % WORD \in 0 .. WORD - 1 /\ a = count * WORD + (a % WORD)
  BY <1>1
<1> DEFINE m == a % WORD
<1>3. m \in 0 .. WORD - 1 /\ len + WORD - 1 = count * WORD + m  BY <1>2
<1> HIDE DEF m, count
<1>4. (count - 1) * WORD = count * WORD - WORD  BY <1>1, <1>2
<1>5. (count - 1) * WORD < len /\ len <= count * WORD  BY <1>1, <1>2, <1>3, <1>4
<1>6. count # 0
  <2> SUFFICES ASSUME count = 0 PROVE FALSE  OBVIOUS
  <2>1. count * WORD = 0  BY <1>1
  <2> QED  BY <2>1, <1>5
<1> QED  BY <1>2, <1>5, <1>6 DEF count

\* Word i of a burst of len bytes is the last one.
LEMMA LastOfBurst ==
    ASSUME NEW len \in Nat \ {0}, NEW count \in Nat \ {0},
           (count - 1) * WORD < len, len <= count * WORD, NEW i \in 1 .. count
    PROVE  /\ (i - 1) * WORD \in Nat /\ (i - 1) * WORD < len
           /\ i * WORD = (i - 1) * WORD + WORD
           /\ i = count <=> len - ((i - 1) * WORD) <= WORD
<1>1. WORD \in Nat \ {0}  BY WordNat
<1>2. i * WORD = (i - 1) * WORD + WORD /\ (i - 1) * WORD \in Nat  BY <1>1
<1>3. (i - 1) * WORD <= (count - 1) * WORD
  <2>1. \A x, y \in Nat : x <= y => x * WORD <= y * WORD  BY <1>1
  <2>2. i - 1 \in Nat /\ count - 1 \in Nat /\ i - 1 <= count - 1  OBVIOUS
  <2> QED  BY <2>1, <2>2
<1>4. (i - 1) * WORD < len  BY <1>1, <1>2, <1>3
<1>5. CASE i = count  BY <1>1, <1>2, <1>4, <1>5
<1>6. CASE i < count
  <2>1. \A x, y \in Nat : x <= y => x * WORD <= y * WORD  BY <1>1
  <2>2. i * WORD <= (count - 1) * WORD  BY <2>1, <1>6
  <2> QED  BY <2>2, <1>1, <1>2, <1>4, <1>6
<1> QED  BY <1>5, <1>6

\* Word i of a burst of count words: the bytes behind the first c.
OfBurst(word, i, count, from, len) ==
    \E c \in Nat :
        /\ c = (i - 1) * WORD /\ c < len /\ i * WORD = c + WORD
        /\ i = count <=> len - c <= WORD
        /\ word.keep = Least(WORD, len - c)
        /\ word.last <=> len - c <= WORD
        /\ \A j \in 1 .. WORD : word.data[j] = IF j <= word.keep THEN from + c + j - 1 ELSE Junk

\* The words of a burst: all are full but the last, and the bytes count up.
LEMMA BurstOf ==
    ASSUME NEW from \in Nat, NEW len \in Nat \ {0}
    PROVE  \E count \in Nat \ {0} :
              /\ Burst(from, len) \in Seq(AWord) /\ Len(Burst(from, len)) = count
              /\ \A i \in 1 .. count : OfBurst(Burst(from, len)[i], i, count, from, len)
<1> DEFINE count == (len + WORD - 1) \div WORD
           Size(i) == IF i = count THEN len - ((i - 1) * WORD) ELSE WORD
           Part(i) == [j \in 1 .. Size(i) |-> from + ((i - 1) * WORD) + j - 1]
           Word(i) == AxiWord(Pad(Part(i)), Len(Part(i)), i = count)
<1>1. /\ count \in Nat \ {0} /\ (count - 1) * WORD < len /\ len <= count * WORD
  BY Count
<1>2. Burst(from, len) = [i \in 1 .. count |-> Word(i)]  BY DEF Burst
<1> HIDE DEF count
<1>3. ASSUME NEW i \in 1 .. count
      PROVE  /\ Word(i) \in AWord
             /\ Word(i).keep = Least(WORD, len - ((i - 1) * WORD))
             /\ Word(i).last <=> len - ((i - 1) * WORD) <= WORD
             /\ Word(i).last <=> i = count
             /\ \A j \in 1 .. WORD :
                   Word(i).data[j] = IF j <= Word(i).keep THEN from + ((i - 1) * WORD) + j - 1
                                     ELSE Junk
  <2> DEFINE p == (i - 1) * WORD
  <2>1. /\ p \in Nat /\ p < len
        /\ i = count <=> len - p <= WORD
    BY <1>1, LastOfBurst
  <2>2. WORD \in Nat \ {0}  BY WordNat
  <2> HIDE DEF p
  <2>3. Size(i) = Least(WORD, len - p) /\ Size(i) \in 0 .. WORD
    <3>1. Size(i) = IF i = count THEN len - p ELSE WORD  BY DEF p
    <3> QED  BY <3>1, <2>1, <2>2 DEF Least
  <2> DEFINE n == Size(i)
             part == Part(i)
  <2>4. part = [j \in 1 .. n |-> from + p + j - 1]  BY DEF p
  <2>5. n \in Nat /\ n \in 0 .. WORD  BY <2>2, <2>3
  <2> HIDE DEF n, part
  <2>6. part \in [1 .. n -> Int]  BY <2>1, <2>4, <2>5
  <2>7. part \in Seq(Int) /\ Len(part) = n
    <3>1. part \in Seq(Int)  BY <2>5, <2>6, SeqDef
    <3>2. DOMAIN part = 1 .. n /\ DOMAIN part = 1 .. Len(part) /\ Len(part) \in Nat
      BY <2>6, <3>1, LenProperties
    <3> QED  BY <3>1, <3>2, <2>5
  <2>8. /\ Pad(part) \in Data
        /\ \A j \in 1 .. WORD : Pad(part)[j] = IF j <= n THEN part[j] ELSE Junk
    BY <2>7, PadOf
  <2>9. \A j \in 1 .. WORD : Pad(part)[j] = IF j <= n THEN from + p + j - 1 ELSE Junk
    BY <2>8, <2>4, <2>5
  <2> DEFINE last == i = count
  <2>10. last \in BOOLEAN  OBVIOUS
  <2>11. Word(i) = AxiWord(Pad(part), n, last)  BY <2>7 DEF part
  <2> HIDE DEF last
  <2>12. /\ Word(i) \in AWord /\ Word(i).data = Pad(part) /\ Word(i).keep = n
         /\ Word(i).last = last
    <3> HIDE DEF Word
    <3> QED  BY <2>5, <2>8, <2>11, <2>10, AxiWordOf
  <2> HIDE DEF Word
  <2>13. n = Least(WORD, len - p)  BY <2>3 DEF n
  <2>14. /\ Word(i).keep = Least(WORD, len - p)
         /\ Word(i).last <=> len - p <= WORD
         /\ Word(i).last <=> i = count
         /\ \A j \in 1 .. WORD :
               Word(i).data[j] = IF j <= Word(i).keep THEN from + p + j - 1 ELSE Junk
    BY <2>1, <2>9, <2>12, <2>13 DEF last
  <2> QED  BY <2>12, <2>14 DEF p
<1> HIDE DEF Word
<1>4. Burst(from, len) \in [1 .. count -> AWord]  BY <1>2, <1>3
<1>5. Burst(from, len) \in Seq(AWord) /\ Len(Burst(from, len)) = count
  <2>1. Burst(from, len) \in Seq(AWord)  BY <1>1, <1>4, SeqDef
  <2>2. DOMAIN Burst(from, len) = 1 .. count /\ DOMAIN Burst(from, len) = 1 .. Len(Burst(from, len))
        /\ Len(Burst(from, len)) \in Nat
    BY <1>4, <2>1, LenProperties
  <2> QED  BY <2>1, <2>2, <1>1
<1>6. \A i \in 1 .. count : Burst(from, len)[i] = Word(i)  BY <1>2
<1>7. ASSUME NEW i \in 1 .. count
      PROVE  OfBurst(Burst(from, len)[i], i, count, from, len)
  <2>1. /\ (i - 1) * WORD \in Nat /\ (i - 1) * WORD < len
        /\ i * WORD = (i - 1) * WORD + WORD
        /\ i = count <=> len - ((i - 1) * WORD) <= WORD
    BY <1>1, LastOfBurst
  <2>2. PICK c \in Nat : c = (i - 1) * WORD  BY <2>1
  <2>3. PICK word : word = Burst(from, len)[i]  OBVIOUS
  <2>4. /\ word.keep = Least(WORD, len - c)
        /\ word.last <=> len - c <= WORD
        /\ \A j \in 1 .. WORD : word.data[j] = IF j <= word.keep THEN from + c + j - 1 ELSE Junk
    BY <1>3, <1>6, <2>2, <2>3
  <2>5. c < len /\ i * WORD = c + WORD /\ (i = count <=> len - c <= WORD)  BY <2>1, <2>2
  <2>6. OfBurst(word, i, count, from, len)  BY <2>2, <2>4, <2>5 DEF OfBurst
  <2> QED  BY <2>3, <2>6
<1> QED  BY <1>1, <1>5, <1>7

-----------------------------------------------------------------------------
(***************************************************************************)
(* Pushes: where one ends, and what an access of one may cover.            *)
(***************************************************************************)
\* One push: it starts where the kept bytes before it end.
LEMMA GivenFacts ==
    ASSUME GivenInv, NEW n \in DOMAIN given
    PROVE  /\ n \in Nat \ {0} /\ n \in 1 .. Len(given) /\ n - 1 \in 0 .. Len(given)
           /\ given[n].from \in Nat /\ given[n].len \in Nat \ {0} /\ given[n].drop \in BOOLEAN
           /\ Kept(n - 1) = given[n].from
           /\ Kept(n) = IF given[n].drop THEN given[n].from ELSE given[n].from + given[n].len
           /\ Kept(n) <= Total
           /\ ~given[n].drop => given[n].len < SPACE
<1>1. DOMAIN given = 1 .. Len(given) /\ Len(given) \in Nat
      /\ given[n] \in [from : Nat, len : Nat \ {0}, drop : BOOLEAN]
  <2>1. given \in Seq([from : Nat, len : Nat \ {0}, drop : BOOLEAN])  BY DEF GivenInv
  <2>2. DOMAIN given = 1 .. Len(given) /\ Len(given) \in Nat  BY <2>1, LenProperties
  <2>3. n \in 1 .. Len(given)  BY <2>2
  <2> QED  BY <2>1, <2>2, <2>3, ElementOfSeq
<1>2. n \in Nat \ {0} /\ n \in 1 .. Len(given) /\ n - 1 \in 0 .. Len(given)  BY <1>1
<1>3. Kept(n - 1) = given[n].from /\ (~given[n].drop => given[n].len < SPACE)
  BY DEF GivenInv
<1>4. Kept(n) = IF given[n].drop THEN given[n].from ELSE given[n].from + given[n].len
  BY <1>1, <1>2 DEF Kept
<1>5. n \in 0 .. Len(given) /\ Len(given) \in 0 .. Len(given) /\ n <= Len(given)
  BY <1>1, <1>2
<1>6. Kept(n) <= Total  BY <1>5 DEF GivenInv, Total
<1> QED  BY <1>1, <1>2, <1>3, <1>4, <1>6

\* The ends of the pushes are in order.
LEMMA KeptFacts ==
    ASSUME GivenInv
    PROVE  /\ Len(given) \in Nat /\ DOMAIN given = 1 .. Len(given)
           /\ \A n \in 0 .. Len(given) : Kept(n) \in Nat /\ Kept(n) <= Total
           /\ Total \in Nat /\ Kept(0) = 0
<1>1. DOMAIN given = 1 .. Len(given) /\ Len(given) \in Nat
  BY LenProperties DEF GivenInv
<1>2. Kept(0) = 0  BY DEF Kept
<1>3. ASSUME NEW n \in 0 .. Len(given) PROVE Kept(n) \in Nat /\ Kept(n) <= Total
  <2>1. CASE n = 0
    <3>1. Kept(0) <= Kept(Len(given))  BY <1>1 DEF GivenInv
    <3> QED  BY <1>2, <2>1, <3>1 DEF Total
  <2>2. CASE n # 0
    <3>1. n \in DOMAIN given  BY <1>1, <2>2
    <3> QED  BY <3>1, GivenFacts
  <2> QED  BY <2>1, <2>2
<1>4. Total \in Nat  BY <1>1, <1>3 DEF Total
<1> QED  BY <1>1, <1>2, <1>3, <1>4

\* Between the ends of a push nothing else ends.
LEMMA NoPushEnds ==
    ASSUME GivenInv, NEW n \in DOMAIN given, ~given[n].drop,
           NEW p \in Nat, given[n].from < p, p < given[n].from + given[n].len,
           NEW m \in DOMAIN given
    PROVE  p # Kept(m)
<1>1. /\ n \in 1 .. Len(given) /\ m \in 1 .. Len(given) /\ n - 1 \in 0 .. Len(given)
      /\ Kept(n - 1) = given[n].from /\ Kept(n) = given[n].from + given[n].len
  BY GivenFacts
<1>2. \A x, y \in 0 .. Len(given) : x <= y => Kept(x) <= Kept(y)  BY DEF GivenInv
<1>3. \A x \in 0 .. Len(given) : Kept(x) \in Nat  BY KeptFacts
<1>4. CASE m <= n - 1
  <2>1. m \in 0 .. Len(given)  BY <1>1
  <2>2. Kept(m) <= Kept(n - 1)  BY <1>1, <1>2, <1>4, <2>1
  <2> QED  BY <2>1, <2>2, <1>1, <1>3
<1>5. CASE m >= n
  <2>1. m \in 0 .. Len(given) /\ n \in 0 .. Len(given)  BY <1>1
  <2>2. Kept(n) <= Kept(m)  BY <1>2, <1>5, <2>1
  <2>3. Kept(m) \in Nat /\ given[n].from + given[n].len <= Kept(m)
    BY <2>1, <2>2, <1>1, <1>3
  <2> QED  BY <2>3, GivenFacts
<1> QED  BY <1>1, <1>4, <1>5

\* What is between two bytes of a push, and does not run over the end of the buffer.
LEMMA WithinPush ==
    ASSUME GivenInv, start \in Nat, NEW n \in DOMAIN given, ~given[n].drop,
           NEW a \in Nat, NEW z \in Nat, given[n].from <= a, a < z,
           z <= given[n].from + given[n].len, Place(a) + (z - a) <= SPACE
    PROVE  /\ Unbroken(a, z)
           /\ WriteEnd(z) <=> z = given[n].from + given[n].len \/ Place(a) + (z - a) = SPACE
<1>1. /\ given[n].from \in Nat /\ given[n].len \in Nat \ {0}
      /\ Kept(n) = given[n].from + given[n].len /\ Kept(n) <= Total
  BY GivenFacts
<1>2. Place(a) \in 0 .. SPACE - 1 /\ SPACE \in Nat \ {0}  BY PlaceType, SpaceNat
<1>3. Total \in Nat  BY KeptFacts
<1>4. ASSUME NEW p \in a + 1 .. z - 1 PROVE ~WriteEnd(p)
  <2>1. p - a \in Nat /\ p - a > 0 /\ Place(a) + (p - a) < SPACE /\ p = a + (p - a) /\ p \in Nat
    BY <1>2
  <2>2. Place(p) = Place(a) + (p - a)
    <3> DEFINE d == p - a
    <3>1. d \in Nat /\ Place(a) + d < SPACE /\ p = a + d  BY <2>1
    <3> HIDE DEF d
    <3>2. Place(a + d) = Place(a) + d  BY <3>1, PlaceNext
    <3> QED  BY <3>1, <3>2 DEF d
  <2>3. Place(p) # 0  BY <2>1, <2>2, <1>2
  <2>4. \A m \in DOMAIN given : p # Kept(m)
    <3>1. given[n].from < p /\ p < given[n].from + given[n].len  BY <1>1, <2>1
    <3> QED  BY <2>1, <3>1, NoPushEnds
  <2> QED  BY <2>3, <2>4 DEF WriteEnd
<1>5. z <= Total  BY <1>1, <1>3
<1>6. Unbroken(a, z)  BY <1>4, <1>5 DEF Unbroken
<1> DEFINE d == z - a
<1>7. d \in Nat /\ z = a + d /\ d > 0 /\ Place(a) + d <= SPACE  BY <1>2
<1>8. Place(z) = 0 <=> Place(a) + d = SPACE
  <2> HIDE DEF d
  <2>1. CASE Place(a) + d < SPACE
    <3>1. Place(a + d) = Place(a) + d  BY <1>7, <2>1, PlaceNext
    <3> QED  BY <3>1, <2>1, <1>2, <1>7
  <2>2. CASE Place(a) + d = SPACE
    <3>1. Place(a) + d >= SPACE /\ Place(a) + d < 2 * SPACE  BY <2>2, <1>2
    <3>2. Place(a + d) = Place(a) + d - SPACE  BY <1>7, <3>1, PlaceAgain
    <3> QED  BY <3>2, <2>2, <1>2, <1>7
  <2> QED  BY <2>1, <2>2, <1>7, <1>2
<1>9. CASE z = given[n].from + given[n].len
  <2>1. WriteEnd(z)  BY <1>1, <1>9 DEF WriteEnd
  <2> QED  BY <1>6, <1>9, <2>1
<1>10. CASE z < given[n].from + given[n].len
  <2>1. \A m \in DOMAIN given : z # Kept(m)
    <3>1. given[n].from < z  BY <1>1
    <3> QED  BY <3>1, <1>10, NoPushEnds
  <2>2. WriteEnd(z) <=> Place(z) = 0  BY <2>1 DEF WriteEnd
  <2> QED  BY <1>6, <1>8, <1>10, <1>1, <2>2
<1> QED  BY <1>1, <1>9, <1>10

\* The first part of a push is all of it, or reaches the end of the buffer.
LEMMA FirstPartFacts ==
    ASSUME GivenInv, start \in Nat, NEW n \in DOMAIN given, ~given[n].drop
    PROVE  /\ FirstPart(n) \in 1 .. given[n].len /\ Place(given[n].from) \in 0 .. SPACE - 1
           /\ Place(given[n].from) + FirstPart(n) <= SPACE
           /\ Wraps(n) => /\ FirstPart(n) = SPACE - Place(given[n].from)
                          /\ FirstPart(n) < given[n].len
                          /\ Place(given[n].from + FirstPart(n)) = 0
           /\ ~Wraps(n) => FirstPart(n) = given[n].len
<1>1. /\ given[n].from \in Nat /\ given[n].len \in Nat \ {0}
      /\ Place(given[n].from) \in 0 .. SPACE - 1 /\ SPACE \in Nat \ {0}
  BY GivenFacts, PlaceType, SpaceNat
<1> DEFINE a == given[n].from
           l == given[n].len
           h == FirstPart(n)
<1>2. h = IF l <= SPACE - Place(a) THEN l ELSE SPACE - Place(a)  BY DEF FirstPart, Least
<1>3. Wraps(n) <=> Place(a) + l > SPACE  BY DEF Wraps
<1> HIDE DEF h, l, a
<1>4. a \in Nat /\ l \in Nat \ {0} /\ Place(a) \in 0 .. SPACE - 1 /\ SPACE \in Nat \ {0}
  BY <1>1 DEF a, l
<1>5. /\ h \in 1 .. l /\ Place(a) + h <= SPACE
      /\ Wraps(n) => h = SPACE - Place(a) /\ h < l
      /\ ~Wraps(n) => h = l
  BY <1>2, <1>3, <1>4
<1>6. Wraps(n) => Place(a + h) = 0
  <2> SUFFICES ASSUME Wraps(n) PROVE Place(a + h) = 0  OBVIOUS
  <2>1. h \in Nat /\ Place(a) + h >= SPACE /\ Place(a) + h < 2 * SPACE /\ Place(a) + h - SPACE = 0
    BY <1>5, <1>4
  <2> QED  BY <1>4, <2>1, PlaceAgain
<1> QED  BY <1>4, <1>5, <1>6 DEF a, l, h

\* The first part of a push ends with the push, or with the buffer.
LEMMA WithinFirst ==
    ASSUME GivenInv, start \in Nat, NEW n \in DOMAIN given, ~given[n].drop,
           NEW a \in Nat, NEW z \in Nat, given[n].from <= a, a < z,
           z <= given[n].from + FirstPart(n)
    PROVE  /\ Unbroken(a, z) /\ (WriteEnd(z) <=> z = given[n].from + FirstPart(n))
           /\ Place(a) + (z - a) <= SPACE
<1> DEFINE x == given[n].from
           l == given[n].len
           h == FirstPart(n)
           o == Place(x)
           d == a - x
<1>1. /\ x \in Nat /\ l \in Nat \ {0} /\ o \in 0 .. SPACE - 1 /\ SPACE \in Nat \ {0}
      /\ h \in 1 .. l /\ o + h <= SPACE
      /\ Wraps(n) => h = SPACE - o /\ h < l
      /\ ~Wraps(n) => h = l
  BY GivenFacts, FirstPartFacts, SpaceNat
<1>2. Wraps(n) <=> o + l > SPACE  BY DEF Wraps
<1>3. d \in Nat /\ a = x + d /\ o + d < SPACE  BY <1>1
<1>4. Place(a) = o + d
  <2> HIDE DEF d, x
  <2> QED  BY <1>1, <1>3, PlaceNext
<1>5. Place(a) + (z - a) <= SPACE /\ z <= x + l  BY <1>1, <1>3, <1>4
<1>6. Unbroken(a, z) /\ (WriteEnd(z) <=> z = x + l \/ Place(a) + (z - a) = SPACE)
  BY <1>5, WithinPush
<1>7. z = x + h <=> (z = x + l \/ Place(a) + (z - a) = SPACE)
  <2> HIDE DEF x, l, h, o
  <2>1. z <= x + h  BY DEF x, h
  <2> QED  BY <1>1, <1>2, <1>3, <1>4, <2>1
<1> QED  BY <1>5, <1>6, <1>7

\* The second part of a push ends with the push.
LEMMA WithinSecond ==
    ASSUME GivenInv, start \in Nat, NEW n \in DOMAIN given, ~given[n].drop, Wraps(n),
           NEW a \in Nat, NEW z \in Nat, given[n].from + FirstPart(n) <= a, a < z,
           z <= given[n].from + given[n].len
    PROVE  /\ Unbroken(a, z) /\ (WriteEnd(z) <=> z = given[n].from + given[n].len)
           /\ Place(a) = a - (given[n].from + FirstPart(n))
           /\ Place(a) + (z - a) <= SPACE
<1> DEFINE x == given[n].from
           l == given[n].len
           h == FirstPart(n)
           t == x + h
           d == a - t
<1>1. /\ x \in Nat /\ l \in Nat \ {0} /\ SPACE \in Nat \ {0} /\ l < SPACE
      /\ h \in 1 .. l /\ Place(t) = 0
  BY GivenFacts, FirstPartFacts, SpaceNat
<1>2. d \in Nat /\ a = t + d /\ d < SPACE /\ t \in Nat  BY <1>1
<1>3. Place(a) = d
  <2> HIDE DEF d, t
  <2>1. Place(t) + d < SPACE  BY <1>1, <1>2
  <2> QED  BY <1>1, <1>2, <2>1, PlaceNext
<1>4. Place(a) + (z - a) < SPACE  BY <1>1, <1>2, <1>3
<1>5. x <= a /\ Place(a) + (z - a) <= SPACE
  <2> HIDE DEF x, h
  <2> QED  BY <1>1, <1>2, <1>3, <1>4
<1>6. Unbroken(a, z) /\ (WriteEnd(z) <=> z = x + l \/ Place(a) + (z - a) = SPACE)
  BY <1>5, WithinPush
<1>7. Place(a) + (z - a) # SPACE
  <2> HIDE DEF d
  <2> QED  BY <1>1, <1>2, <1>3, <1>4
<1>8. Place(a) = a - (given[n].from + FirstPart(n))  BY <1>3
<1> QED  BY <1>5, <1>6, <1>7, <1>8

-----------------------------------------------------------------------------
(***************************************************************************)
(* Bursts that have been asked for, and the accesses that are made of one. *)
(***************************************************************************)
\* One burst: it starts where the one before it ends.
LEMMA AskedFacts ==
    ASSUME AskedInv
    PROVE  /\ Len(asked) \in Nat /\ DOMAIN asked = 1 .. Len(asked)
           /\ \A j \in 1 .. Len(asked) + 1 : Before(j) \in Nat /\ Before(j) <= Asked
           /\ \A j \in DOMAIN asked : /\ asked[j] \in Nat /\ asked[j] = Before(j + 1)
                                      /\ Length(j) \in Nat \ {0}
                                      /\ Length(j) = asked[j] - Before(j) /\ asked[j] <= Asked
                                      /\ j \in 1 .. Len(asked) + 1 /\ j + 1 \in 1 .. Len(asked) + 1
           /\ Asked \in Nat /\ Before(1) = 0
<1>1. DOMAIN asked = 1 .. Len(asked) /\ Len(asked) \in Nat /\ asked \in [1 .. Len(asked) -> Nat]
  BY LenProperties DEF AskedInv
<1>2. Before(1) = 0  BY DEF Before
<1>3. ASSUME NEW j \in 1 .. Len(asked) + 1 PROVE Before(j) \in Nat
  <2>1. CASE j = 1  BY <2>1, <1>2
  <2>2. CASE j # 1
    <3>1. j - 1 \in 1 .. Len(asked)  BY <2>2, <1>1
    <3> QED  BY <3>1, <2>2, <1>1 DEF Before
  <2> QED  BY <2>1, <2>2
<1>4. Len(asked) + 1 \in 1 .. Len(asked) + 1  BY <1>1
<1>5. ASSUME NEW j \in 1 .. Len(asked) + 1 PROVE Before(j) <= Asked
  <2>1. j <= Len(asked) + 1  BY <1>1
  <2> QED  BY <2>1, <1>4 DEF AskedInv, Asked
<1>6. Asked \in Nat  BY <1>3, <1>4 DEF Asked
<1>7. ASSUME NEW j \in DOMAIN asked
      PROVE  /\ asked[j] \in Nat /\ asked[j] = Before(j + 1)
             /\ Length(j) \in Nat \ {0} /\ Length(j) = asked[j] - Before(j) /\ asked[j] <= Asked
             /\ j \in 1 .. Len(asked) + 1 /\ j + 1 \in 1 .. Len(asked) + 1
  <2>1. asked[j] \in Nat /\ j \in 1 .. Len(asked) + 1 /\ j + 1 \in 1 .. Len(asked) + 1
    BY <1>1
  <2>2. asked[j] = Before(j + 1)
    <3>1. j + 1 # 1 /\ (j + 1) - 1 = j  BY <1>1
    <3> QED  BY <3>1 DEF Before
  <2>3. Before(j) < asked[j] /\ Before(j) \in Nat  BY <1>3, <2>1 DEF AskedInv
  <2>4. asked[j] <= Asked  BY <2>1, <2>2, <1>5
  <2> QED  BY <2>1, <2>2, <2>3, <2>4 DEF Length
<1> QED  BY <1>1, <1>2, <1>3, <1>5, <1>6, <1>7

\* The bytes of a burst are less than the buffer holds, while it is under way.
LEMMA LengthFits ==
    ASSUME AskedInv, GivenInv, SpaceKept, written <= Total, NEW j \in DOMAIN asked,
           written \in Nat, Len(got) \in Nat, j > Len(got)
    PROVE  Length(j) < SPACE
<1>1. asked[j] \in Nat /\ asked[j] <= Asked /\ Asked \in Nat /\ Length(j) = asked[j] - Before(j)
      /\ j \in 1 .. Len(asked) + 1 /\ Before(j) \in Nat
  BY AskedFacts
<1>2. Len(got) + 1 \in 1 .. Len(asked) + 1 /\ Len(got) + 1 <= j  BY <1>1
<1>3. Before(Len(got) + 1) <= Before(j) /\ Before(Len(got) + 1) \in Nat
  BY <1>1, <1>2, AskedFacts DEF AskedInv
<1>4. Asked <= written /\ Total \in Nat  BY KeptFacts DEF AskedInv
<1>5. Total - Before(Len(got) + 1) < SPACE  BY DEF SpaceKept, Left
<1> QED  BY <1>1, <1>3, <1>4, <1>5, SpaceNat

\* Between the ends of a burst nothing else ends.
LEMMA NoBurstEnds ==
    ASSUME AskedInv, NEW i \in DOMAIN asked, NEW p \in Nat, Before(i) < p, p < asked[i],
           NEW j \in DOMAIN asked
    PROVE  p # asked[j]
<1>1. \A x, y \in 1 .. Len(asked) + 1 : x <= y => Before(x) <= Before(y)
  BY DEF AskedInv
<1>2. /\ \A x \in 1 .. Len(asked) + 1 : Before(x) \in Nat
      /\ asked[j] = Before(j + 1) /\ asked[i] = Before(i + 1)
      /\ {i, j, i + 1, j + 1} \subseteq 1 .. Len(asked) + 1
  BY AskedFacts
<1>3. CASE j < i
  <2>1. Before(j + 1) <= Before(i)  BY <1>1, <1>2, <1>3
  <2> QED  BY <2>1, <1>2
<1>4. CASE j >= i
  <2>1. Before(i + 1) <= Before(j + 1)  BY <1>1, <1>2, <1>4
  <2> QED  BY <2>1, <1>2
<1> QED  BY <1>2, <1>3, <1>4

\* Where the accesses for a burst end.
LEMMA BurstEnds ==
    ASSUME AskedInv, start \in Nat, NEW i \in DOMAIN asked, Length(i) < SPACE,
           NEW p \in Nat, Before(i) < p, p <= asked[i]
    PROVE  ReadEnd(p) <=> p = asked[i] \/ (Crosses(i) /\ p = Turn(i))
<1> DEFINE x == Before(i)
           l == Length(i)
           o == Place(x)
           d == p - x
<1>1. /\ x \in Nat /\ l \in Nat \ {0} /\ l = asked[i] - x /\ asked[i] \in Nat /\ l < SPACE
      /\ o \in 0 .. SPACE - 1 /\ SPACE \in Nat \ {0}
  BY AskedFacts, PlaceType, SpaceNat
<1>2. /\ Crosses(i) <=> o + l > SPACE
      /\ Turn(i) = x + SPACE - o
  BY DEF Crosses, Turn, Address
<1>3. d \in Nat /\ p = x + d /\ d > 0 /\ d <= l  BY <1>1
<1>4. Place(p) = 0 <=> o + d = SPACE
  <2> HIDE DEF d, x, l
  <2>1. CASE o + d < SPACE
    <3>1. Place(x + d) = Place(x) + d  BY <1>1, <1>3, <2>1, PlaceNext
    <3> QED  BY <3>1, <2>1, <1>1, <1>3
  <2>2. CASE o + d >= SPACE
    <3>1. Place(x) + d >= SPACE /\ Place(x) + d < 2 * SPACE  BY <2>2, <1>1, <1>3
    <3>2. Place(x + d) = Place(x) + d - SPACE  BY <1>1, <1>3, <3>1, PlaceAgain
    <3> QED  BY <3>2, <2>2, <1>1, <1>3
  <2> QED  BY <2>1, <2>2, <1>1, <1>3
<1>5. CASE p = asked[i]  BY <1>5 DEF ReadEnd
<1>6. CASE p < asked[i]
  <2>1. \A j \in DOMAIN asked : p # asked[j]  BY <1>6, NoBurstEnds
  <2>2. ReadEnd(p) <=> o + d = SPACE  BY <1>4, <2>1 DEF ReadEnd
  <2>3. o + d = SPACE <=> (o + l > SPACE /\ p = x + SPACE - o)
    <3>1. d < l  BY <1>1, <1>3, <1>6
    <3> HIDE DEF d, l, x, o
    <3> QED  BY <3>1, <1>1, <1>3
  <2> QED  BY <2>2, <2>3, <1>2, <1>6
<1> QED  BY <1>1, <1>5, <1>6

\* A burst that runs over the end of the buffer turns within it.
LEMMA TurnFacts ==
    ASSUME AskedInv, start \in Nat, NEW i \in DOMAIN asked, Crosses(i)
    PROVE  /\ Turn(i) \in Nat /\ Before(i) < Turn(i) /\ Turn(i) < asked[i]
           /\ Turn(i) - Before(i) = SPACE - Address(i) /\ Place(Turn(i)) = 0
           /\ Address(i) \in 0 .. SPACE - 1
<1> DEFINE x == Before(i)
           l == Length(i)
           o == Place(x)
           t == SPACE - o
<1>1. /\ x \in Nat /\ l \in Nat \ {0} /\ l = asked[i] - x /\ asked[i] \in Nat
      /\ o \in 0 .. SPACE - 1 /\ SPACE \in Nat \ {0}
  BY AskedFacts, PlaceType, SpaceNat
<1>2. o + l > SPACE /\ Turn(i) = x + SPACE - o /\ Address(i) = o
  BY DEF Crosses, Turn, Address
<1>3. t \in Nat /\ Turn(i) = x + t /\ t > 0 /\ t < l
  <2> HIDE DEF l, o, x
  <2> QED  BY <1>1, <1>2
<1>4. Place(x + t) = 0
  <2>1. Place(x) + t >= SPACE /\ Place(x) + t < 2 * SPACE /\ Place(x) + t - SPACE = 0
    BY <1>1
  <2> HIDE DEF t, x
  <2>2. Place(x + t) = Place(x) + t - SPACE  BY <1>1, <1>3, <2>1, PlaceAgain
  <2> QED  BY <2>1, <2>2
<1>5. Turn(i) - Before(i) = t
  <2> HIDE DEF t
  <2> QED  BY <1>3, <1>1
<1>6. Turn(i) \in Nat /\ x < Turn(i) /\ Turn(i) < asked[i]
  <2> HIDE DEF t, l, x
  <2> QED  BY <1>1, <1>3
<1> QED  BY <1>1, <1>2, <1>3, <1>4, <1>5, <1>6

\* The first access for a burst, and the second.
LEMMA FirstAccess ==
    ASSUME AskedInv, start \in Nat, NEW i \in DOMAIN asked, Length(i) < SPACE,
           NEW len \in Nat, len = IF Crosses(i) THEN SPACE - Address(i) ELSE Length(i)
    PROVE  /\ ReadStep(Access(Address(i), len), Before(i), Before(i) + len)
           /\ Before(i) + len = IF Crosses(i) THEN Turn(i) ELSE asked[i]
<1> DEFINE x == Before(i)
           z == x + len
<1>1. /\ x \in Nat /\ Length(i) \in Nat \ {0} /\ Length(i) = asked[i] - x /\ asked[i] \in Nat
      /\ asked[i] <= Asked /\ Asked \in Nat /\ Address(i) = Place(x)
      /\ Address(i) \in 0 .. SPACE - 1 /\ SPACE \in Nat \ {0}
  BY AskedFacts, PlaceType, SpaceNat DEF Address
<1>2. z = IF Crosses(i) THEN Turn(i) ELSE asked[i]
  <2>1. CASE Crosses(i)
    <3>1. Turn(i) - x = len /\ Turn(i) \in Nat  BY <2>1, TurnFacts
    <3> QED  BY <3>1, <2>1, <1>1
  <2>2. CASE ~Crosses(i)  BY <2>2, <1>1
  <2> QED  BY <2>1, <2>2
<1>3. x < z /\ z \in Nat /\ z <= asked[i]
  <2>1. CASE Crosses(i)
    <3>1. z = Turn(i)  BY <2>1, <1>2
    <3> HIDE DEF z
    <3> QED  BY <2>1, <3>1, <1>1, TurnFacts
  <2>2. CASE ~Crosses(i)
    <3>1. z = asked[i]  BY <2>2, <1>2
    <3> HIDE DEF z, x
    <3> QED  BY <3>1, <1>1
  <2> QED  BY <2>1, <2>2
<1>4. \A p \in x + 1 .. z : ReadEnd(p) <=> p = z
  <2> SUFFICES ASSUME NEW p \in x + 1 .. z PROVE ReadEnd(p) <=> p = z  OBVIOUS
  <2>1. p \in Nat /\ x < p /\ p <= asked[i] /\ p <= z  BY <1>1, <1>3
  <2>2. ReadEnd(p) <=> p = asked[i] \/ (Crosses(i) /\ p = Turn(i))  BY <2>1, BurstEnds
  <2>3. CASE Crosses(i)
    <3>1. z < asked[i] /\ z = Turn(i)  BY <2>3, <1>2, TurnFacts
    <3> HIDE DEF z
    <3>2. p # asked[i]  BY <2>1, <3>1, <1>3, <1>1
    <3> QED  BY <2>2, <2>3, <3>1, <3>2
  <2>4. CASE ~Crosses(i)  BY <2>2, <2>4, <1>2
  <2> QED  BY <2>3, <2>4
<1>5. Place(x) + (z - x) <= SPACE /\ z - x = len
  <2>1. z - x = len  BY <1>1
  <2>2. Place(x) + len <= SPACE
    <3>1. CASE Crosses(i)  BY <3>1, <1>1
    <3>2. CASE ~Crosses(i)  BY <3>2, <1>1 DEF Crosses
    <3> QED  BY <3>1, <3>2
  <2> QED  BY <2>1, <2>2
<1>6. z <= Asked /\ z \in x + 1 .. z /\ \A p \in x + 1 .. z - 1 : p \in x + 1 .. z /\ p # z
  <2> HIDE DEF z
  <2> QED  BY <1>1, <1>3
<1> HIDE DEF z
<1>7. Access(Address(i), len) = Access(Place(x), z - x)  BY <1>1, <1>5
<1>8. ReadStep(Access(Address(i), len), x, z)
  BY <1>3, <1>4, <1>5, <1>6, <1>7 DEF ReadStep
<1> QED  BY <1>2, <1>8 DEF z

\* The second access for a burst starts at place 0 and ends with the burst.
LEMMA SecondAccess ==
    ASSUME AskedInv, start \in Nat, NEW i \in DOMAIN asked, Length(i) < SPACE, Crosses(i)
    PROVE  ReadStep(Access(0, asked[i] - Turn(i)), Turn(i), asked[i])
<1> DEFINE t == Turn(i)
           z == asked[i]
<1>1. /\ t \in Nat /\ z \in Nat /\ Before(i) < t /\ t < z /\ z <= Asked /\ Asked \in Nat
      /\ Before(i) \in Nat /\ Length(i) = z - Before(i) /\ SPACE \in Nat /\ Place(t) = 0
  BY AskedFacts, TurnFacts, SpaceNat
<1>2. ASSUME NEW p \in t + 1 .. z PROVE ReadEnd(p) <=> p = z
  <2>1. p \in Nat /\ Before(i) < p /\ p <= asked[i] /\ p # Turn(i)  BY <1>1
  <2> QED  BY <2>1, BurstEnds
<1> HIDE DEF t, z
<1>3. z \in t + 1 .. z /\ \A p \in t + 1 .. z - 1 : p \in t + 1 .. z /\ p # z  BY <1>1
<1>4. ReadEnd(z) /\ \A p \in t + 1 .. z - 1 : ~ReadEnd(p)  BY <1>2, <1>3
<1>5. Place(t) + (z - t) <= SPACE  BY <1>1
<1>6. Access(0, z - t) = Access(Place(t), z - t)  BY <1>1
<1>7. ReadStep(Access(0, z - t), t, z)  BY <1>1, <1>4, <1>5, <1>6 DEF ReadStep
<1> QED  BY <1>7 DEF t, z

-----------------------------------------------------------------------------
(***************************************************************************)
(* When more is given, what was so of the bytes before stays so.           *)
(***************************************************************************)
\* What has been given stays.
GivenStays ==
    /\ start \in Nat /\ start' = start /\ GivenInv /\ GivenInv' /\ Len(given) <= Len(given')
    /\ \A n \in DOMAIN given : given'[n] = given[n]

\* Places do not move.
LEMMA PlaceStays ==
    ASSUME start' = start, NEW p
    PROVE  Place(p)' = Place(p)
BY DEF Place

\* The ends of the pushes before stay, and new ones are further on.
LEMMA KeptStays ==
    ASSUME GivenStays
    PROVE  /\ \A n \in 0 .. Len(given) : Kept(n)' = Kept(n) /\ n \in 0 .. Len(given')
           /\ \A n \in DOMAIN given : n \in DOMAIN given'
           /\ Total \in Nat /\ Total' \in Nat /\ Total <= Total'
           /\ \A n \in DOMAIN given' \ DOMAIN given : ~given'[n].drop => Kept(n)' > Total
           /\ DOMAIN given' = 1 .. Len(given') /\ Len(given') \in Nat
<1>1. DOMAIN given = 1 .. Len(given) /\ Len(given) \in Nat /\ Total \in Nat
  BY KeptFacts DEF GivenStays
<1>2. DOMAIN given' = 1 .. Len(given') /\ Len(given') \in Nat
  BY LenProperties DEF GivenStays, GivenInv
<1>3. \A n \in DOMAIN given : n \in DOMAIN given'  BY <1>1, <1>2 DEF GivenStays
<1>4. ASSUME NEW n \in 0 .. Len(given) PROVE Kept(n)' = Kept(n) /\ n \in 0 .. Len(given')
  <2>1. CASE n = 0  BY <1>2, <2>1 DEF Kept
  <2>2. CASE n # 0
    <3>1. n \in DOMAIN given  BY <1>1, <2>2
    <3> QED  BY <3>1, <2>2, <1>1, <1>2, <1>3 DEF Kept, GivenStays
  <2> QED  BY <2>1, <2>2
<1>5. Len(given) \in 0 .. Len(given) /\ Len(given') \in 0 .. Len(given')  BY <1>1, <1>2
<1>6. PICK m \in 0 .. Len(given) : m = Len(given)  BY <1>5
<1>7. Kept(m)' = Total  BY <1>4, <1>6 DEF Total
<1>8. \A x, y \in 0 .. Len(given') : x <= y => Kept(x)' <= Kept(y)'
  BY DEF GivenStays, GivenInv
<1>9. ASSUME NEW n \in 0 .. Len(given') PROVE Kept(n)' \in Nat
  <2>1. CASE n = 0  BY <2>1 DEF Kept
  <2>2. CASE n # 0
    <3>1. n \in 1 .. Len(given')  BY <1>2, <2>2
    <3>2. given' \in Seq([from : Nat, len : Nat \ {0}, drop : BOOLEAN])
      BY DEF GivenStays, GivenInv
    <3>3. given'[n] \in [from : Nat, len : Nat \ {0}, drop : BOOLEAN]
      BY <3>1, <3>2, ElementOfSeq
    <3> QED  BY <3>3, <2>2 DEF Kept
  <2> QED  BY <2>1, <2>2
<1>10. PICK k \in 0 .. Len(given') : k = Len(given')  BY <1>5
<1>11. Total' = Kept(k)'  BY <1>10 DEF Total
<1>12. m \in 0 .. Len(given') /\ m <= k  BY <1>4, <1>6, <1>10 DEF GivenStays
<1>13. Total' \in Nat /\ Total <= Total'  BY <1>7, <1>8, <1>9, <1>11, <1>12
<1>14. ASSUME NEW n \in DOMAIN given' \ DOMAIN given, ~given'[n].drop
       PROVE  Kept(n)' > Total
  <2>1. n \in 1 .. Len(given') /\ n > m /\ n - 1 \in 0 .. Len(given') /\ m <= n - 1
    BY <1>1, <1>2, <1>6
  <2>2. given' \in Seq([from : Nat, len : Nat \ {0}, drop : BOOLEAN])
    BY DEF GivenStays, GivenInv
  <2>3. given'[n] \in [from : Nat, len : Nat \ {0}, drop : BOOLEAN]
    BY <2>1, <2>2, ElementOfSeq
  <2>4. given'[n].from = Kept(n - 1)'  BY DEF GivenStays, GivenInv
  <2>5. Kept(m)' <= Kept(n - 1)' /\ Kept(n - 1)' \in Nat  BY <2>1, <1>8, <1>9, <1>12
  <2>6. Kept(n)' = given'[n].from + given'[n].len  BY <2>1, <1>14 DEF Kept
  <2> QED  BY <2>3, <2>4, <2>5, <2>6, <1>1, <1>7
<1> QED  BY <1>1, <1>2, <1>3, <1>4, <1>13, <1>14

\* Where an access ends is the same for what was given before.
LEMMA WriteEndStays ==
    ASSUME GivenStays, NEW p \in 0 .. Total
    PROVE  WriteEnd(p)' <=> WriteEnd(p)
<1>1. Place(p)' = Place(p)  BY PlaceStays DEF GivenStays
<1>2. /\ \A n \in DOMAIN given : n \in DOMAIN given' /\ given'[n] = given[n] /\ Kept(n)' = Kept(n)
  <2>1. DOMAIN given \subseteq 0 .. Len(given)  BY KeptFacts DEF GivenStays
  <2> QED  BY <2>1, KeptStays DEF GivenStays
<1>3. \A n \in DOMAIN given' \ DOMAIN given : ~given'[n].drop => Kept(n)' > Total
  BY KeptStays
<1>4. Total \in Nat /\ p <= Total  BY KeptStays
<1>5. \A n \in DOMAIN given' \ DOMAIN given : ~given'[n].drop => p # Kept(n)'
  BY <1>3, <1>4
<1>6. (\E n \in DOMAIN given : ~given[n].drop /\ p = Kept(n))
        <=> (\E n \in DOMAIN given' : ~given'[n].drop /\ p = Kept(n)')
  BY <1>2, <1>5
<1> QED  BY <1>1, <1>6 DEF WriteEnd

\* What is between two bytes given before belongs to one access still.
LEMMA UnbrokenStays ==
    ASSUME GivenStays, NEW a \in Nat, NEW z \in Nat, Unbroken(a, z)
    PROVE  Unbroken(a, z)' /\ (WriteEnd(z)' <=> WriteEnd(z))
<1>1. a < z /\ z <= Total /\ \A p \in a + 1 .. z - 1 : ~WriteEnd(p)  BY DEF Unbroken
<1>2. Total \in Nat /\ Total' \in Nat /\ Total <= Total'  BY KeptStays
<1>3. z <= Total' /\ z \in 0 .. Total  BY <1>1, <1>2
<1>4. ASSUME NEW p \in a + 1 .. z - 1 PROVE ~WriteEnd(p)'
  <2>1. p \in 0 .. Total  BY <1>1, <1>2
  <2> QED  BY <1>1, <2>1, WriteEndStays
<1> QED  BY <1>1, <1>3, <1>4, WriteEndStays DEF Unbroken

\* What was a step of a chain of the side that is written is one still.
LEMMA StepsStay ==
    ASSUME GivenStays
    PROVE  DataSteps \subseteq DataSteps' /\ CommandSteps \subseteq CommandSteps'
           /\ WriteSteps \subseteq WriteSteps'
<1>1. ASSUME NEW t \in DataSteps PROVE t \in DataSteps'
  <2>1. t \in AWord \X (Nat \X Nat) \X (Nat \X Nat) /\ DataStep(t[1], t[2], t[3])
    BY DEF DataSteps
  <2>2. \A n \in DOMAIN given : n \in DOMAIN given' /\ given'[n] = given[n]
    BY KeptStays DEF GivenStays
  <2>3. DataStep(t[1], t[2], t[3])'  BY <2>1, <2>2 DEF DataStep
  <2> QED  BY <2>1, <2>3 DEF DataSteps
<1>2. ASSUME NEW t \in CommandSteps PROVE t \in CommandSteps'
  <2>1. t \in ACommand \X Nat \X Nat /\ CommandStep(t[1], t[2], t[3])
    BY DEF CommandSteps
  <2> DEFINE a == t[2]
             z == t[3]
  <2>2. a \in Nat /\ z \in Nat /\ CommandStep(t[1], a, z)  BY <2>1
  <2> HIDE DEF a, z
  <2>3. Place(a)' = Place(a)  BY PlaceStays DEF GivenStays
  <2>4. Unbroken(a, z)' /\ (WriteEnd(z)' <=> WriteEnd(z))
    BY <2>2, UnbrokenStays DEF CommandStep
  <2>5. CommandStep(t[1], a, z)'  BY <2>2, <2>3, <2>4 DEF CommandStep
  <2> QED  BY <2>1, <2>5 DEF CommandSteps, a, z
<1>3. ASSUME NEW t \in WriteSteps PROVE t \in WriteSteps'
  <2>1. t \in AWord \X Nat \X Nat /\ WriteStep(t[1], t[2], t[3])  BY DEF WriteSteps
  <2> DEFINE a == t[2]
             z == t[3]
  <2>2. a \in Nat /\ z \in Nat /\ WriteStep(t[1], a, z)  BY <2>1
  <2> HIDE DEF a, z
  <2>3. Unbroken(a, z)' /\ (WriteEnd(z)' <=> WriteEnd(z))
    BY <2>2, UnbrokenStays DEF WriteStep
  <2>4. WriteStep(t[1], a, z)'  BY <2>2, <2>3 DEF WriteStep
  <2> QED  BY <2>1, <2>4 DEF WriteSteps, a, z
<1> QED  BY <1>1, <1>2, <1>3

\* The parts of a push stay.
LEMMA PartsStay ==
    ASSUME GivenStays, NEW n \in DOMAIN given
    PROVE  /\ FirstPart(n)' = FirstPart(n) /\ (Wraps(n)' <=> Wraps(n))
           /\ Place(given[n].from)' = Place(given[n].from) /\ given'[n] = given[n]
           /\ n \in DOMAIN given' /\ Kept(n)' = Kept(n)
<1>1. given'[n] = given[n] /\ n \in DOMAIN given'  BY KeptStays DEF GivenStays
<1>2. start' = start  BY DEF GivenStays
<1>3. n \in 0 .. Len(given)  BY KeptFacts DEF GivenStays
<1>4. Kept(n)' = Kept(n)  BY <1>3, KeptStays
<1> QED  BY <1>1, <1>2, <1>4 DEF FirstPart, Wraps, Place

\* So where tasi_pkg_pusher is stays.
LEMMA WriterStays ==
    ASSUME GivenStays, w' = w, NEW np \in 0 .. Len(given), NEW n, NEW c, NEW op, NEW cp,
           AtWriter(np, n, c, op, cp)
    PROVE  AtWriter(np, n, c, op, cp)'
<1>1. Kept(np)' = Kept(np)  BY KeptStays
<1>2. ASSUME np \in DOMAIN given
      PROVE  /\ FirstPart(np)' = FirstPart(np) /\ (Wraps(np)' <=> Wraps(np))
             /\ Place(given[np].from)' = Place(given[np].from) /\ given'[np] = given[np]
             /\ np \in DOMAIN given'
  BY <1>2, PartsStay
<1>3. CASE AtCommand(np, n, c, op, cp)
  <2>1. AtCommand(np, n, c, op, cp)'  BY <1>3, <1>1 DEF AtCommand
  <2>2. WriterTyped'  BY DEF AtWriter, WriterTyped
  <2> QED  BY <2>1, <2>2 DEF AtWriter
<1>4. CASE AtDropped(np, n, c, op, cp)
  <2>1. AtDropped(np, n, c, op, cp)'  BY <1>4, <1>1, <1>2 DEF AtDropped
  <2>2. WriterTyped'  BY DEF AtWriter, WriterTyped
  <2> QED  BY <2>1, <2>2 DEF AtWriter
<1>5. CASE AtFirst(np, n, c, op, cp)
  <2>1. AtFirst(np, n, c, op, cp)'  BY <1>5, <1>2 DEF AtFirst
  <2>2. WriterTyped'  BY DEF AtWriter, WriterTyped
  <2> QED  BY <2>1, <2>2 DEF AtWriter
<1>6. CASE AtSecond(np, n, c, op, cp)
  <2>1. AtSecond(np, n, c, op, cp)'  BY <1>6, <1>2 DEF AtSecond, Holds
  <2>2. WriterTyped'  BY DEF AtWriter, WriterTyped
  <2> QED  BY <2>1, <2>2 DEF AtWriter
<1>7. CASE AtAligned(np, n, c, op, cp)
  <2>1. AtAligned(np, n, c, op, cp)'  BY <1>7, <1>1, <1>2 DEF AtAligned, Behind
  <2>2. WriterTyped'  BY DEF AtWriter, WriterTyped
  <2> QED  BY <2>1, <2>2 DEF AtWriter
<1>8. CASE AtRealign(np, n, c, op, cp)
  <2>1. AtRealign(np, n, c, op, cp)'  BY <1>8, <1>1, <1>2 DEF AtRealign, Behind, Holds
  <2>2. WriterTyped'  BY DEF AtWriter, WriterTyped
  <2> QED  BY <2>1, <2>2 DEF AtWriter
<1>9. CASE AtResidue(np, n, c, op, cp)
  <2>1. AtResidue(np, n, c, op, cp)'  BY <1>9, <1>1, <1>2 DEF AtResidue, Behind, Holds
  <2>2. WriterTyped'  BY DEF AtWriter, WriterTyped
  <2> QED  BY <2>1, <2>2 DEF AtWriter
<1> QED  BY <1>3, <1>4, <1>5, <1>6, <1>7, <1>8, <1>9 DEF AtWriter

\* So where the data mover is stays.
LEMMA MoverStays ==
    ASSUME GivenStays, mover' = mover, NEW ms \in Nat, NEW mp \in Nat, NEW me \in Nat,
           AtMover(ms, mp, me)
    PROVE  AtMover(ms, mp, me)'
<1>1. CASE mover = Idle /\ mp = ms /\ me = ms  BY <1>1 DEF AtMover
<1>2. CASE /\ CommandStep(Access(mover.addr, mover.len), ms, me)
           /\ ms <= mp /\ mp < me
           /\ mover = [addr |-> Place(ms), len |-> me - ms, done |-> mp - ms]
  <2>1. Place(ms)' = Place(ms)  BY PlaceStays DEF GivenStays
  <2>2. Unbroken(ms, me)' /\ (WriteEnd(me)' <=> WriteEnd(me))
    BY <1>2, UnbrokenStays DEF CommandStep
  <2>3. CommandStep(Access(mover.addr, mover.len), ms, me)'
    BY <1>2, <2>1, <2>2 DEF CommandStep
  <2> QED  BY <1>2, <2>1, <2>3 DEF AtMover
<1> QED  BY <1>1, <1>2 DEF AtMover

\* So the pushes that are on their way stay.
LEMMA PushesStay ==
    ASSUME GivenStays, NEW np, PushesLeft(np), Len(given') = Len(given), q'["push"] = q["push"]
    PROVE  PushesLeft(np)'
<1>1. ASSUME NEW j \in DOMAIN q["push"] PROVE PushOf(np + j)' = PushOf(np + j)
  <2>1. np + j \in DOMAIN given
    <3>1. np \in 0 .. Len(given) /\ q["push"] \in Seq(APush) /\ Len(q["push"]) = Len(given) - np
      BY DEF PushesLeft
    <3>2. DOMAIN q["push"] = 1 .. Len(q["push"])  BY <3>1, LenProperties
    <3> QED  BY <3>1, <3>2, KeptFacts DEF GivenStays
  <2>2. given'[np + j] = given[np + j]  BY <2>1 DEF GivenStays
  <2> QED  BY <2>2 DEF PushOf, Place, GivenStays
<1> QED  BY <1>1 DEF PushesLeft

-----------------------------------------------------------------------------
(***************************************************************************)
(* When more is asked for, what was so of the bursts before stays so.      *)
(***************************************************************************)
\* What has been asked for stays.
AskedStays ==
    /\ start \in Nat /\ start' = start /\ AskedInv /\ AskedInv' /\ Len(asked) <= Len(asked')
    /\ \A j \in DOMAIN asked : asked'[j] = asked[j]

\* The bursts before stay, and new ones are further on.
LEMMA BeforeStays ==
    ASSUME AskedStays
    PROVE  /\ \A j \in 1 .. Len(asked) + 1 :
                 /\ Before(j)' = Before(j) /\ Address(j)' = Address(j)
                 /\ j \in 1 .. Len(asked') + 1
           /\ \A j \in DOMAIN asked : /\ j \in DOMAIN asked' /\ asked'[j] = asked[j]
                                      /\ Length(j)' = Length(j) /\ Turn(j)' = Turn(j)
                                      /\ (Crosses(j)' <=> Crosses(j)) /\ (Filled(j)' <=> Filled(j))
           /\ Asked \in Nat /\ Asked' \in Nat /\ Asked <= Asked'
           /\ \A j \in DOMAIN asked' \ DOMAIN asked : asked'[j] > Asked
           /\ Len(asked') \in Nat
<1>1. DOMAIN asked = 1 .. Len(asked) /\ Len(asked) \in Nat /\ Asked \in Nat
  BY AskedFacts DEF AskedStays
<1>2. DOMAIN asked' = 1 .. Len(asked') /\ Len(asked') \in Nat /\ asked' \in [1 .. Len(asked') -> Nat]
  BY LenProperties DEF AskedStays, AskedInv
<1>3. \A j \in DOMAIN asked : j \in DOMAIN asked' /\ asked'[j] = asked[j]
  BY <1>1, <1>2 DEF AskedStays
<1>4. ASSUME NEW j \in 1 .. Len(asked) + 1
      PROVE  Before(j)' = Before(j) /\ Address(j)' = Address(j) /\ j \in 1 .. Len(asked') + 1
  <2>1. j \in 1 .. Len(asked') + 1  BY <1>1, <1>2 DEF AskedStays
  <2>2. Before(j)' = Before(j)
    <3>1. CASE j = 1  BY <3>1 DEF Before
    <3>2. CASE j # 1
      <4>1. j - 1 \in DOMAIN asked  BY <3>2, <1>1
      <4>2. asked'[j - 1] = asked[j - 1]  BY <4>1 DEF AskedStays
      <4> QED  BY <3>2, <4>2 DEF Before
    <3> QED  BY <3>1, <3>2
  <2>3. Address(j)' = Address(j)  BY <2>2 DEF Address, Place, AskedStays
  <2> QED  BY <2>1, <2>2, <2>3
<1>5. ASSUME NEW j \in DOMAIN asked
      PROVE  /\ Length(j)' = Length(j) /\ Turn(j)' = Turn(j)
             /\ (Crosses(j)' <=> Crosses(j)) /\ (Filled(j)' <=> Filled(j))
  <2>1. j \in 1 .. Len(asked) + 1  BY <1>1
  <2>2. Before(j)' = Before(j) /\ Address(j)' = Address(j) /\ asked'[j] = asked[j]
    BY <2>1, <1>3, <1>4
  <2>3. Length(j)' = Length(j)  BY <2>2 DEF Length
  <2> QED  BY <2>2, <2>3 DEF Turn, Crosses, Filled
<1>6. Len(asked) + 1 \in 1 .. Len(asked) + 1 /\ Len(asked') + 1 \in 1 .. Len(asked') + 1
  BY <1>1, <1>2
<1>7. PICK m \in 1 .. Len(asked) + 1 : m = Len(asked) + 1  BY <1>6
<1>8. PICK k \in 1 .. Len(asked') + 1 : k = Len(asked') + 1  BY <1>6
<1>9. \A x, y \in 1 .. Len(asked') + 1 : x <= y => Before(x)' <= Before(y)'
  BY DEF AskedStays, AskedInv
<1>10. ASSUME NEW j \in 1 .. Len(asked') + 1 PROVE Before(j)' \in Nat
  <2>1. CASE j = 1  BY <2>1 DEF Before
  <2>2. CASE j # 1
    <3>1. j - 1 \in 1 .. Len(asked')  BY <2>2, <1>2
    <3> QED  BY <2>2, <3>1, <1>2 DEF Before
  <2> QED  BY <2>1, <2>2
<1>11. Asked = Before(m)' /\ m \in 1 .. Len(asked') + 1 /\ m <= k
  BY <1>1, <1>2, <1>4, <1>7, <1>8 DEF Asked, AskedStays
<1>12. Asked' = Before(k)'  BY <1>8 DEF Asked
<1>13. Asked' \in Nat /\ Asked <= Asked'  BY <1>9, <1>10, <1>11, <1>12
<1>14. ASSUME NEW j \in DOMAIN asked' \ DOMAIN asked PROVE asked'[j] > Asked
  <2>1. j \in 1 .. Len(asked') + 1 /\ m <= j /\ j \in DOMAIN asked'  BY <1>1, <1>2, <1>7
  <2>2. Before(m)' <= Before(j)' /\ Before(j)' \in Nat  BY <2>1, <1>9, <1>10, <1>11
  <2>3. Before(j)' < asked'[j] /\ asked'[j] \in Nat
    BY <2>1, <1>2 DEF AskedStays, AskedInv
  <2> QED  BY <2>2, <2>3, <1>11, <1>1
<1> QED  BY <1>1, <1>2, <1>3, <1>4, <1>5, <1>13, <1>14

\* Where an access ends is the same for what was asked for before.
LEMMA ReadEndStays ==
    ASSUME AskedStays, NEW p \in 0 .. Asked
    PROVE  ReadEnd(p)' <=> ReadEnd(p)
<1>1. Place(p)' = Place(p)  BY PlaceStays DEF AskedStays
<1>2. Asked \in Nat  BY BeforeStays
<1>3. \A j \in DOMAIN asked' \ DOMAIN asked : p # asked'[j]
  <2> SUFFICES ASSUME NEW j \in DOMAIN asked' \ DOMAIN asked PROVE p # asked'[j]
    OBVIOUS
  <2>1. asked'[j] > Asked  BY BeforeStays
  <2> QED  BY <2>1, <1>2
<1>4. \A j \in DOMAIN asked : j \in DOMAIN asked' /\ asked'[j] = asked[j]
  BY BeforeStays
<1> QED  BY <1>1, <1>3, <1>4 DEF ReadEnd

\* What was a step of a chain of the side that is read is one still.
LEMMA ReadStepsStay ==
    ASSUME AskedStays, NEW top
    PROVE  ReadSteps \subseteq ReadSteps' /\ LoadSteps(top) \subseteq LoadSteps(top)'
           /\ OutSteps(top) \subseteq OutSteps(top)'
<1>1. Asked \in Nat /\ Asked' \in Nat /\ Asked <= Asked'  BY BeforeStays
<1>2. ASSUME NEW a \in Nat, NEW z \in Nat, a < z, z <= Asked
      PROVE  /\ ReadEnd(z)' <=> ReadEnd(z)
             /\ \A p \in a + 1 .. z - 1 : ReadEnd(p)' <=> ReadEnd(p)
             /\ z <= Asked' /\ Place(a)' = Place(a)
  <2>1. z \in 0 .. Asked /\ \A p \in a + 1 .. z - 1 : p \in 0 .. Asked  BY <1>1, <1>2
  <2>2. z <= Asked'  BY <1>1, <1>2
  <2>3. Place(a)' = Place(a)  BY PlaceStays DEF AskedStays
  <2> QED  BY <2>1, <2>2, <2>3, ReadEndStays
<1>3. ASSUME NEW t \in ReadSteps PROVE t \in ReadSteps'
  <2>1. t \in ACommand \X Nat \X Nat /\ ReadStep(t[1], t[2], t[3])  BY DEF ReadSteps
  <2> DEFINE a == t[2]
             z == t[3]
  <2>2. a \in Nat /\ z \in Nat /\ ReadStep(t[1], a, z)  BY <2>1
  <2> HIDE DEF a, z
  <2>3. a < z /\ z <= Asked  BY <2>2 DEF ReadStep
  <2>4. ReadStep(t[1], a, z)'  BY <2>2, <2>3, <1>2 DEF ReadStep
  <2> QED  BY <2>1, <2>4 DEF ReadSteps, a, z
<1>4. ASSUME NEW t \in LoadSteps(top) PROVE t \in LoadSteps(top)'
  <2>1. t \in AWord \X Nat \X (0 .. top) /\ LoadStep(t[1], t[2], t[3])  BY DEF LoadSteps
  <2> DEFINE a == t[2]
             z == t[3]
  <2>2. a \in Nat /\ z \in Nat /\ LoadStep(t[1], a, z)  BY <2>1
  <2> HIDE DEF a, z
  <2>3. a < z /\ z <= Asked  BY <2>2 DEF LoadStep
  <2>4. LoadStep(t[1], a, z)'  BY <2>2, <2>3, <1>2 DEF LoadStep
  <2> QED  BY <2>1, <2>4 DEF LoadSteps, a, z
<1>5. ASSUME NEW t \in OutSteps(top) PROVE t \in OutSteps(top)'
  <2>1. t \in AWord \X (Nat \X Nat) \X ((0 .. top) \X Nat) /\ OutStep(t[1], t[2], t[3])
    BY DEF OutSteps
  <2> DEFINE x == t[2]
             i == x[1]
  <2>2. i \in DOMAIN asked  BY <2>1 DEF OutStep
  <2>3. i \in 1 .. Len(asked) + 1  BY <2>2, AskedFacts DEF AskedStays
  <2>4. /\ i \in DOMAIN asked' /\ asked'[i] = asked[i] /\ (Filled(i)' <=> Filled(i))
        /\ Before(i)' = Before(i)
    BY <2>2, <2>3, BeforeStays
  <2> HIDE DEF i
  <2>5. Point(i, x[2])' = Point(i, x[2])  BY <2>4 DEF Point
  <2>6. SegmentWord(t[1], i, Point(i, x[2]))' <=> SegmentWord(t[1], i, Point(i, x[2]))
    BY <2>4, <2>5 DEF SegmentWord
  <2>7. OutStep(t[1], x, t[3])'
    <3>1. OutStep(t[1], x, t[3])  BY <2>1
    <3> QED  BY <3>1, <2>4, <2>6 DEF OutStep, i
  <2> QED  BY <2>1, <2>7 DEF OutSteps
<1> QED  BY <1>3, <1>4, <1>5

\* So where the break-down is stays.
LEMMA BreakdownStays ==
    ASSUME AskedStays, breakdown' = breakdown, NEW b \in 0 .. Len(asked), NEW bp, AtBreakdown(b, bp)
    PROVE  AtBreakdown(b, bp)'
<1>1. b + 1 \in 1 .. Len(asked) + 1  BY AskedFacts DEF AskedStays
<1>2. Before(b + 1)' = Before(b + 1)  BY <1>1, BeforeStays
<1>3. b \in DOMAIN asked => /\ b \in DOMAIN asked' /\ asked'[b] = asked[b]
                            /\ (Crosses(b)' <=> Crosses(b)) /\ Turn(b)' = Turn(b)
                            /\ Length(b)' = Length(b)
  BY BeforeStays
<1> QED  BY <1>2, <1>3 DEF AtBreakdown

\* So the bursts that wait for the break-down stay.
LEMMA ReadsStay ==
    ASSUME AskedStays, NEW b, ReadsLeft(b), Len(asked') = Len(asked), q'["readCmd"] = q["readCmd"]
    PROVE  ReadsLeft(b)'
<1>1. ASSUME NEW j \in DOMAIN q["readCmd"]
      PROVE  Address(b + j)' = Address(b + j) /\ Length(b + j)' = Length(b + j)
  <2>1. b + j \in DOMAIN asked /\ b + j \in 1 .. Len(asked) + 1
    <3>1. b \in 0 .. Len(asked) /\ q["readCmd"] \in Seq(ACommand) /\ Len(q["readCmd"]) = Len(asked) - b
      BY DEF ReadsLeft
    <3>2. DOMAIN q["readCmd"] = 1 .. Len(q["readCmd"])  BY <3>1, LenProperties
    <3> QED  BY <3>1, <3>2, AskedFacts DEF AskedStays
  <2> QED  BY <2>1, BeforeStays
<1> QED  BY <1>1 DEF ReadsLeft

\* So the flags that are on their way stay.
LEMMA FlagsStay ==
    ASSUME AskedStays, NEW f, NEW b \in 0 .. Len(asked), FlagsLeft(f, b),
           q'["accessFlag"] = q["accessFlag"]
    PROVE  FlagsLeft(f, b)'
<1>1. ASSUME NEW j \in DOMAIN q["accessFlag"]
      PROVE  Crosses(f + j)' <=> Crosses(f + j)
  <2>1. f + j \in DOMAIN asked
    <3>1. f \in 0 .. b /\ q["accessFlag"] \in Seq({0, 1}) /\ Len(q["accessFlag"]) = b - f
      BY DEF FlagsLeft
    <3>2. DOMAIN q["accessFlag"] = 1 .. Len(q["accessFlag"])  BY <3>1, LenProperties
    <3> QED  BY <3>1, <3>2, AskedFacts DEF AskedStays
  <2> QED  BY <2>1, BeforeStays
<1> QED  BY <1>1 DEF FlagsLeft

\* So where tcpPkgStitcher is stays.
LEMMA StitcherStays ==
    ASSUME AskedStays, r' = r, NEW f, NEW ip, NEW i, NEW k, AtStitcher(f, ip, i, k)
    PROVE  AtStitcher(f, ip, i, k)'
<1>1. i \in 1 .. Len(asked) + 1  BY DEF AtStitcher
<1>2. Before(i)' = Before(i) /\ Address(i)' = Address(i) /\ i \in 1 .. Len(asked') + 1
  BY <1>1, BeforeStays
<1>3. Point(i, k)' = Point(i, k)  BY <1>2 DEF Point
<1>4. i \in DOMAIN asked => /\ i \in DOMAIN asked' /\ asked'[i] = asked[i]
                            /\ (Crosses(i)' <=> Crosses(i)) /\ Turn(i)' = Turn(i)
  BY BeforeStays
<1>5. AtStart(f, ip, i, k) => AtStart(f, ip, i, k)'  BY <1>2 DEF AtStart
<1>6. AtData(f, ip, i, k) => AtData(f, ip, i, k)'  BY <1>3, <1>4 DEF AtData
<1>7. Moved(f, i) => Moved(f, i)'  BY <1>2, <1>4 DEF Moved
<1>8. AtMerge(f, ip, i, k) => AtMerge(f, ip, i, k)'
  BY <1>3, <1>4, <1>7 DEF AtMerge, Moved, Keeps
<1>9. AtRest(f, ip, i, k) => AtRest(f, ip, i, k)'
  BY <1>3, <1>4, <1>7 DEF AtRest, Moved, Keeps
<1>10. StitcherTyped'  BY DEF AtStitcher, StitcherTyped
<1> QED  BY <1>2, <1>5, <1>6, <1>8, <1>9, <1>10 DEF AtStitcher

\* So the words that have left stay.
LEMMA LeavingStays ==
    ASSUME AskedStays, got' = got, burst' = burst, AtLeaving, Len(got) <= Len(asked)
    PROVE  AtLeaving'
<1>1. got \in Seq(Seq(AWord)) /\ DOMAIN got = 1 .. Len(got) /\ Len(got) \in Nat
  BY LenProperties DEF AtLeaving
<1>2. DOMAIN asked = 1 .. Len(asked) /\ Len(asked) \in Nat  BY AskedFacts DEF AskedStays
<1>3. ASSUME NEW i \in DOMAIN got, Filled(i) \/ Intact(i)
      PROVE  Filled(i)' \/ Intact(i)'
  <2>1. i \in DOMAIN asked /\ i \in 1 .. Len(asked) + 1  BY <1>1, <1>2
  <2>2. /\ Before(i)' = Before(i) /\ Length(i)' = Length(i) /\ (Filled(i)' <=> Filled(i))
    BY <2>1, BeforeStays
  <2>3. Intact(i)' <=> Intact(i)  BY <2>2 DEF Intact
  <2> QED  BY <1>3, <2>2, <2>3
<1> DEFINE m == Len(got) + 1
<1>4. ASSUME NEW k, m \in DOMAIN asked,
             Filled(m) \/ SegmentWord(burst[k], m, Point(m, k))
      PROVE  m' \in DOMAIN asked' /\ (Filled(m)' \/ SegmentWord(burst[k], m, Point(m, k))')
  <2>1. PICK l : l = m  OBVIOUS
  <2>2. l \in DOMAIN asked /\ l \in 1 .. Len(asked) + 1  BY <2>1, <1>2, <1>4
  <2>3. /\ Before(l)' = Before(l) /\ l \in DOMAIN asked' /\ asked'[l] = asked[l]
        /\ (Filled(l)' <=> Filled(l))
    BY <2>2, BeforeStays
  <2>4. Point(l, k)' = Point(l, k)  BY <2>3 DEF Point
  <2>5. SegmentWord(burst[k], l, Point(l, k))' <=> SegmentWord(burst[k], l, Point(l, k))
    BY <2>3, <2>4 DEF SegmentWord
  <2>6. Filled(l) \/ SegmentWord(burst[k], l, Point(l, k))  BY <1>4, <2>1
  <2>7. l = m'  BY <2>1
  <2> QED  BY <2>3, <2>5, <2>6, <2>7
<1> QED  BY <1>1, <1>3, <1>4 DEF AtLeaving

-----------------------------------------------------------------------------
(***************************************************************************)
(* What a step does to the streams, and to the chains of the side that is  *)
(* written.                                                                *)
(***************************************************************************)
WriteStreams == {"push", "data", "writeCmd", "writeData", "status"}
ReadStreams  == {"readCmd", "memCmd", "accessFlag", "memData", "out"}

\* Every stream is a sequence.
Sequences == \A s \in BufferStreams : \E S : q[s] \in Seq(S)

\* Every stream is a sequence.
LEMMA StreamsAreSequences ==
    ASSUME NEW np, NEW n, NEW c, NEW op, NEW cp, NEW ms, NEW mp, NEW me,
           WriteSide(np, n, c, op, cp, ms, mp, me),
           NEW b, NEW bp, NEW rp, NEW f, NEW ip, NEW i, NEW k,
           ReadSide(b, bp, rp, f, ip, i, k)
    PROVE  Sequences
<1>1. /\ q["push"] \in Seq(APush) /\ q["data"] \in Seq(AWord)
      /\ q["writeCmd"] \in Seq(ACommand) /\ q["writeData"] \in Seq(AWord) /\ q["status"] \in Seq(Nat)
  BY DEF WriteSide, PushesLeft, DataLeft, CommandsLeft, WordsLeft, AnswersLeft, Chain
<1>2. /\ q["readCmd"] \in Seq(ACommand) /\ q["accessFlag"] \in Seq({0, 1})
      /\ q["memCmd"] \in Seq(ACommand) /\ q["memData"] \in Seq(AWord) /\ q["out"] \in Seq(AWord)
  BY DEF ReadSide, ReadsLeft, FlagsLeft, AccessesLeft, LoadsLeft, OutLeft, Chain
<1>3. ASSUME NEW s \in BufferStreams PROVE \E S : q[s] \in Seq(S)
  <2>1. \/ q[s] \in Seq(APush) \/ q[s] \in Seq(AWord) \/ q[s] \in Seq(ACommand)
        \/ q[s] \in Seq(Nat) \/ q[s] \in Seq({0, 1})
    BY <1>1, <1>2 DEF BufferStreams
  <2> QED  BY <2>1
<1> QED  BY <1>3 DEF Sequences

\* What a transfer does to each stream.
LEMMA StreamEffect ==
    ASSUME Sequences, NEW R, NEW W, Transfer(R, W)
    PROVE  /\ DOMAIN q' = BufferStreams
           /\ \A s \in BufferStreams :
                 /\ s \notin R /\ s \notin DOMAIN W => q'[s] = q[s]
                 /\ s \in R => q[s] # <<>>
                 /\ s \in R /\ s \notin DOMAIN W => q'[s] = Tail(q[s])
                 /\ s \notin R /\ s \in DOMAIN W => q'[s] = q[s] \o W[s]
<1>1. Names = BufferStreams  BY TxBufferAssumption
<1>2. DOMAIN q' = BufferStreams  BY <1>1 DEF Transfer
<1>3. ASSUME NEW s \in BufferStreams
      PROVE  /\ s \notin R /\ s \notin DOMAIN W => q'[s] = q[s]
             /\ s \in R => q[s] # <<>>
             /\ s \in R /\ s \notin DOMAIN W => q'[s] = Tail(q[s])
             /\ s \notin R /\ s \in DOMAIN W => q'[s] = q[s] \o W[s]
  <2>1. PICK S : q[s] \in Seq(S)  BY DEF Sequences
  <2>2. q'[s] = (IF s \in R THEN Tail(q[s]) ELSE q[s])
                    \o (IF s \in DOMAIN W THEN W[s] ELSE <<>>)
    BY <1>1 DEF Transfer
  <2>3. s \in R => q[s] # <<>>  BY DEF Transfer, Has
  <2>4. s \in R => Tail(q[s]) \in Seq(S)  BY <2>1, <2>3, HeadTailProperties
  <2>5. q[s] \o <<>> = q[s]  BY <2>1, ConcatEmptySeq
  <2>6. s \in R => Tail(q[s]) \o <<>> = Tail(q[s])  BY <2>4, ConcatEmptySeq
  <2> QED  BY <2>2, <2>3, <2>5, <2>6
<1> QED  BY <1>2, <1>3

\* What the forms of a transfer write.
LEMMA WritesOf ==
    /\ DOMAIN Silent = {}
    /\ \A s, v : DOMAIN To(s, v) = {s} /\ To(s, v)[s] = <<v>>
    /\ \A s, v : DOMAIN All(s, v) = {s} /\ All(s, v)[s] = v
    /\ \A a, e : /\ DOMAIN Both(a, e) = DOMAIN a \cup DOMAIN e
                 /\ \A s \in DOMAIN a : Both(a, e)[s] = a[s]
                 /\ \A s \in DOMAIN e \ DOMAIN a : Both(a, e)[s] = e[s]
    /\ \A over : DoubleAccess(over) = Silent
<1>1. "doubleAccess" \notin Names  BY TxBufferAssumption DEF BufferStreams
<1> QED  BY <1>1 DEF Silent, To, All, Both, DoubleAccess

\* One value is taken from a stream.
LEMMA TakeEffect ==
    ASSUME Sequences, NEW a \in BufferStreams, Transfer({a}, Silent)
    PROVE  /\ q[a] # <<>> /\ q'[a] = Tail(q[a]) /\ DOMAIN q' = BufferStreams
           /\ \A s \in BufferStreams \ {a} : q'[s] = q[s]
<1>1. DOMAIN Silent = {}  BY WritesOf
<1> QED  BY <1>1, StreamEffect

\* A step that reads the streams of R, and writes as W says.
LEMMA MixedEffect ==
    ASSUME Sequences, NEW R, NEW W, Transfer(R, W), NEW P, DOMAIN W = P, R \cap P = {}
    PROVE  /\ DOMAIN q' = BufferStreams
           /\ \A s \in BufferStreams : s \in R => q[s] # <<>> /\ q'[s] = Tail(q[s])
           /\ \A s \in BufferStreams : s \in P => q'[s] = q[s] \o W[s]
           /\ \A s \in BufferStreams : s \notin R /\ s \notin P => q'[s] = q[s]
<1>1. /\ DOMAIN q' = BufferStreams
      /\ \A s \in BufferStreams :
            /\ s \notin R /\ s \notin DOMAIN W => q'[s] = q[s]
            /\ s \in R => q[s] # <<>>
            /\ s \in R /\ s \notin DOMAIN W => q'[s] = Tail(q[s])
            /\ s \notin R /\ s \in DOMAIN W => q'[s] = q[s] \o W[s]
  BY StreamEffect
<1> QED  BY <1>1

\* Nothing is taken.
LEMMA PutsEffect ==
    ASSUME Sequences, NEW W, Transfer({}, W), NEW P, DOMAIN W = P
    PROVE  /\ DOMAIN q' = BufferStreams
           /\ \A s \in BufferStreams : s \in P => q'[s] = q[s] \o W[s]
           /\ \A s \in BufferStreams : s \notin P => q'[s] = q[s]
<1> DEFINE R == {}
<1>1. Transfer(R, W) /\ \A s : s \notin R  OBVIOUS
<1> HIDE DEF R
<1>2. /\ DOMAIN q' = BufferStreams
      /\ \A s \in BufferStreams :
            /\ s \notin R /\ s \notin DOMAIN W => q'[s] = q[s]
            /\ s \notin R /\ s \in DOMAIN W => q'[s] = q[s] \o W[s]
  BY <1>1, StreamEffect
<1> QED  BY <1>1, <1>2

\* One value is put.
LEMMA PutEffect ==
    ASSUME Sequences, NEW a \in BufferStreams, NEW v, Transfer({}, To(a, v))
    PROVE  /\ q'[a] = q[a] \o <<v>> /\ DOMAIN q' = BufferStreams
           /\ \A s \in BufferStreams \ {a} : q'[s] = q[s]
<1> DEFINE W == To(a, v)
<1>1. DOMAIN W = {a} /\ W[a] = <<v>>  BY WritesOf
<1>2. Transfer({}, W)  OBVIOUS
<1> HIDE DEF W
<1>3. /\ DOMAIN q' = BufferStreams
      /\ \A s \in BufferStreams : s \in {a} => q'[s] = q[s] \o W[s]
      /\ \A s \in BufferStreams : s \notin {a} => q'[s] = q[s]
  BY <1>1, <1>2, PutsEffect
<1> QED  BY <1>1, <1>2, <1>3

\* One value is taken, and one is put elsewhere.
LEMMA TakePutEffect ==
    ASSUME Sequences, NEW a \in BufferStreams, NEW e \in BufferStreams, a # e, NEW v,
           Transfer({a}, To(e, v))
    PROVE  /\ q[a] # <<>> /\ q'[a] = Tail(q[a]) /\ q'[e] = q[e] \o <<v>>
           /\ DOMAIN q' = BufferStreams
           /\ \A s \in BufferStreams \ {a, e} : q'[s] = q[s]
<1> DEFINE W == To(e, v)
<1>1. DOMAIN W = {e} /\ W[e] = <<v>> /\ {a} \cap {e} = {}  BY WritesOf
<1>2. Transfer({a}, W)  OBVIOUS
<1> HIDE DEF W
<1>3. /\ DOMAIN q' = BufferStreams
      /\ \A s \in BufferStreams : s \in {a} => q[s] # <<>> /\ q'[s] = Tail(q[s])
      /\ \A s \in BufferStreams : s \in {e} => q'[s] = q[s] \o W[s]
      /\ \A s \in BufferStreams : s \notin {a} /\ s \notin {e} => q'[s] = q[s]
  BY <1>1, <1>2, MixedEffect
<1> QED  BY <1>1, <1>3

\* The first access for a burst goes to the memory, its flag to the stitcher.
LEMMA AccessEffect ==
    ASSUME Sequences, NEW v, NEW u,
           Transfer({"readCmd"}, Both(To("memCmd", v), To("accessFlag", u)))
    PROVE  /\ q["readCmd"] # <<>> /\ q'["readCmd"] = Tail(q["readCmd"])
           /\ q'["memCmd"] = q["memCmd"] \o <<v>> /\ q'["accessFlag"] = q["accessFlag"] \o <<u>>
           /\ DOMAIN q' = BufferStreams
           /\ \A s \in BufferStreams \ {"readCmd", "memCmd", "accessFlag"} : q'[s] = q[s]
<1> DEFINE A == To("memCmd", v)
           B == To("accessFlag", u)
           W == Both(A, B)
<1>1. /\ DOMAIN A = {"memCmd"} /\ A["memCmd"] = <<v>>
      /\ DOMAIN B = {"accessFlag"} /\ B["accessFlag"] = <<u>>
  BY WritesOf
<1>2. Transfer({"readCmd"}, W) /\ {"readCmd"} \cap {"memCmd", "accessFlag"} = {}
  OBVIOUS
<1> HIDE DEF A, B
<1>3. DOMAIN W = {"memCmd", "accessFlag"} /\ W["memCmd"] = <<v>> /\ W["accessFlag"] = <<u>>
  BY <1>1 DEF Both
<1> HIDE DEF W
<1>4. /\ DOMAIN q' = BufferStreams
      /\ \A s \in BufferStreams : s \in {"readCmd"} => q[s] # <<>> /\ q'[s] = Tail(q[s])
      /\ \A s \in BufferStreams : s \in {"memCmd", "accessFlag"} => q'[s] = q[s] \o W[s]
      /\ \A s \in BufferStreams :
            s \notin {"readCmd"} /\ s \notin {"memCmd", "accessFlag"} => q'[s] = q[s]
  BY <1>3, <1>2, MixedEffect
<1>5. "readCmd" \in BufferStreams /\ "memCmd" \in BufferStreams /\ "accessFlag" \in BufferStreams
  BY DEF BufferStreams
<1> QED  BY <1>3, <1>4, <1>5

\* One value is put, and several elsewhere.
LEMMA BothPutEffect ==
    ASSUME Sequences, NEW e \in BufferStreams, NEW g \in BufferStreams,
           e # g, NEW v, NEW u, Transfer({}, Both(To(e, v), All(g, u)))
    PROVE  /\ q'[e] = q[e] \o <<v>> /\ q'[g] = q[g] \o u
           /\ DOMAIN q' = BufferStreams
           /\ \A s \in BufferStreams \ {e, g} : q'[s] = q[s]
<1> DEFINE A == To(e, v)
           B == All(g, u)
           W == Both(A, B)
<1>1. DOMAIN A = {e} /\ A[e] = <<v>> /\ DOMAIN B = {g} /\ B[g] = u  BY WritesOf
<1>2. Transfer({}, W)  OBVIOUS
<1> HIDE DEF A, B
<1>3. DOMAIN W = {e, g} /\ W[e] = <<v>> /\ W[g] = u  BY <1>1 DEF Both
<1> HIDE DEF W
<1>4. /\ DOMAIN q' = BufferStreams
      /\ \A s \in BufferStreams : s \in {e, g} => q'[s] = q[s] \o W[s]
      /\ \A s \in BufferStreams : s \notin {e, g} => q'[s] = q[s]
  BY <1>3, <1>2, PutsEffect
<1> QED  BY <1>3, <1>2, <1>4

\* A push is taken, and a command is put.
LEMMA CommandEffect ==
    ASSUME Sequences, NEW v, NEW over,
           Transfer({"push"}, Both(To("writeCmd", v), DoubleAccess(over)))
    PROVE  /\ q["push"] # <<>> /\ q'["push"] = Tail(q["push"])
           /\ q'["writeCmd"] = q["writeCmd"] \o <<v>> /\ DOMAIN q' = BufferStreams
           /\ \A s \in BufferStreams \ {"push", "writeCmd"} : q'[s] = q[s]
<1> DEFINE A == To("writeCmd", v)
           B == DoubleAccess(over)
           W == Both(A, B)
<1>1. DOMAIN A = {"writeCmd"} /\ A["writeCmd"] = <<v>> /\ DOMAIN B = {}  BY WritesOf
<1>2. Transfer({"push"}, W) /\ {"push"} \cap {"writeCmd"} = {}  OBVIOUS
<1> HIDE DEF A, B
<1>3. DOMAIN W = {"writeCmd"} /\ W["writeCmd"] = <<v>>  BY <1>1 DEF Both
<1> HIDE DEF W
<1>4. /\ DOMAIN q' = BufferStreams
      /\ \A s \in BufferStreams : s \in {"push"} => q[s] # <<>> /\ q'[s] = Tail(q[s])
      /\ \A s \in BufferStreams : s \in {"writeCmd"} => q'[s] = q[s] \o W[s]
      /\ \A s \in BufferStreams : s \notin {"push"} /\ s \notin {"writeCmd"} => q'[s] = q[s]
  BY <1>3, <1>2, MixedEffect
<1>5. "push" \in BufferStreams /\ "writeCmd" \in BufferStreams  BY DEF BufferStreams
<1> QED  BY <1>3, <1>4, <1>5

\* One value is taken, and several are put elsewhere.
LEMMA TakeAllEffect ==
    ASSUME Sequences, NEW a \in BufferStreams, NEW e \in BufferStreams, a # e, NEW u,
           Transfer({a}, All(e, u))
    PROVE  /\ q[a] # <<>> /\ q'[a] = Tail(q[a]) /\ q'[e] = q[e] \o u
           /\ DOMAIN q' = BufferStreams
           /\ \A s \in BufferStreams \ {a, e} : q'[s] = q[s]
<1> DEFINE W == All(e, u)
<1>1. DOMAIN W = {e} /\ W[e] = u /\ {a} \cap {e} = {}  BY WritesOf
<1>2. Transfer({a}, W)  OBVIOUS
<1> HIDE DEF W
<1>3. /\ DOMAIN q' = BufferStreams
      /\ \A s \in BufferStreams : s \in {a} => q[s] # <<>> /\ q'[s] = Tail(q[s])
      /\ \A s \in BufferStreams : s \in {e} => q'[s] = q[s] \o W[s]
      /\ \A s \in BufferStreams : s \notin {a} /\ s \notin {e} => q'[s] = q[s]
  BY <1>1, <1>2, MixedEffect
<1> QED  BY <1>1, <1>3

\* A word and its flag are taken, and a word is put.
LEMMA FlaggedEffect ==
    ASSUME Sequences, NEW v, Transfer({"memData", "accessFlag"}, To("out", v))
    PROVE  /\ q["memData"] # <<>> /\ q'["memData"] = Tail(q["memData"])
           /\ q["accessFlag"] # <<>> /\ q'["accessFlag"] = Tail(q["accessFlag"])
           /\ q'["out"] = q["out"] \o <<v>> /\ DOMAIN q' = BufferStreams
           /\ \A s \in BufferStreams \ {"memData", "accessFlag", "out"} : q'[s] = q[s]
<1> DEFINE W == To("out", v)
           R == {"memData", "accessFlag"}
<1>1. DOMAIN W = {"out"} /\ W["out"] = <<v>> /\ R \cap {"out"} = {}  BY WritesOf
<1>2. Transfer(R, W)  OBVIOUS
<1>3. "memData" \in R /\ "accessFlag" \in R /\ \A s : s \in R => s = "memData" \/ s = "accessFlag"
  OBVIOUS
<1> HIDE DEF W, R
<1>4. /\ DOMAIN q' = BufferStreams
      /\ \A s \in BufferStreams : s \in R => q[s] # <<>> /\ q'[s] = Tail(q[s])
      /\ \A s \in BufferStreams : s \in {"out"} => q'[s] = q[s] \o W[s]
      /\ \A s \in BufferStreams : s \notin R /\ s \notin {"out"} => q'[s] = q[s]
  BY <1>1, <1>2, MixedEffect
<1>5. "memData" \in BufferStreams /\ "accessFlag" \in BufferStreams /\ "out" \in BufferStreams
  BY DEF BufferStreams
<1> QED  BY <1>1, <1>4, <1>3, <1>5

\* A value of each of two streams is taken.
LEMMA TakeTwoEffect ==
    ASSUME Sequences, NEW a \in BufferStreams, NEW e \in BufferStreams, a # e, Transfer({a, e}, Silent)
    PROVE  /\ q[a] # <<>> /\ q'[a] = Tail(q[a]) /\ q[e] # <<>> /\ q'[e] = Tail(q[e])
           /\ DOMAIN q' = BufferStreams
           /\ \A s \in BufferStreams \ {a, e} : q'[s] = q[s]
<1> DEFINE P == {}
<1>1. DOMAIN Silent = P /\ {a, e} \cap P = {} /\ \A s : s \notin P  BY WritesOf
<1> HIDE DEF P
<1>2. /\ DOMAIN q' = BufferStreams
      /\ \A s \in BufferStreams : s \in {a, e} => q[s] # <<>> /\ q'[s] = Tail(q[s])
      /\ \A s \in BufferStreams : s \notin {a, e} /\ s \notin P => q'[s] = q[s]
  BY <1>1, MixedEffect
<1> QED  BY <1>1, <1>2

-----------------------------------------------------------------------------
\* A step that gives nothing.
LEMMA GivenSame ==
    ASSUME start \in Nat, GivenInv, start' = start, given' = given
    PROVE  GivenStays
<1>1. \A n : Kept(n)' = Kept(n) /\ Place(n)' = Place(n)  BY DEF Kept, Place
<1>2. GivenInv'  BY <1>1 DEF GivenInv
<1>3. Len(given) \in Nat  BY KeptFacts
<1> QED  BY <1>2, <1>3 DEF GivenStays

\* A step that asks for nothing.
LEMMA AskedSame ==
    ASSUME start \in Nat, AskedInv, start' = start, asked' = asked, written <= written',
           written \in Nat, written' \in Nat
    PROVE  AskedStays
<1>1. \A j : Before(j)' = Before(j)  BY DEF Before
<1>2. Asked' = Asked  BY DEF Before, Asked
<1>3. Asked \in Nat /\ Len(asked) \in Nat  BY AskedFacts
<1>4. Asked' <= written'  BY <1>2, <1>3 DEF AskedInv
<1>5. AskedInv'  BY <1>1, <1>4 DEF AskedInv
<1> QED  BY <1>3, <1>5 DEF AskedStays

\* One value more on a chain.
LEMMA ChainPut ==
    ASSUME NEW s, NEW V, NEW v \in V, NEW R, NEW S, NEW x, NEW y, NEW z,
           Chain(s, V, R, x, y), <<v, y, z>> \in R, R \subseteq S
    PROVE  Chain(s \o <<v>>, V, S, x, z)
<1>1. Chain(<<v>>, V, R, y, z)  BY ChainOne
<1>2. Chain(s \o <<v>>, V, R, x, z)  BY <1>1, ChainConcat
<1> QED  BY <1>2, ChainMonotone

\* One value less on a chain.
LEMMA ChainTake ==
    ASSUME NEW s, NEW V, NEW R, NEW S, NEW x, NEW y, Chain(s, V, R, x, y), s # <<>>, R \subseteq S
    PROVE  Head(s) \in V /\ \E z : <<Head(s), x, z>> \in R /\ Chain(Tail(s), V, S, z, y)
<1>1. Head(s) \in V /\ \E z : <<Head(s), x, z>> \in R /\ Chain(Tail(s), V, R, z, y)
  BY ChainTail
<1> QED  BY <1>1, ChainMonotone

-----------------------------------------------------------------------------
\* The data: as it was, and when a word is taken.
LEMMA DataStays ==
    ASSUME GivenStays, Len(given') = Len(given), NEW n, NEW c, DataLeft(n, c), q'["data"] = q["data"]
    PROVE  DataLeft(n, c)'
<1>1. DataSteps \subseteq DataSteps'  BY StepsStay
<1>2. Chain(q["data"], AWord, DataSteps', <<n, c>>, <<Len(given) + 1, 0>>)
  BY <1>1, ChainMonotone DEF DataLeft
<1> QED  BY <1>2 DEF DataLeft

\* The word is the next one of a push.
LEMMA DataTaken ==
    ASSUME GivenStays, Len(given') = Len(given), NEW n, NEW c, DataLeft(n, c),
           q["data"] # <<>>, q'["data"] = Tail(q["data"])
    PROVE  /\ Front("data") \in AWord
           /\ \E n2 \in Nat, c2 \in Nat : /\ DataStep(Front("data"), <<n, c>>, <<n2, c2>>)
                                          /\ DataLeft(n2, c2)'
<1>1. DataSteps \subseteq DataSteps'  BY StepsStay
<1>2. /\ Head(q["data"]) \in AWord
      /\ \E z : /\ <<Head(q["data"]), <<n, c>>, z>> \in DataSteps
                /\ Chain(Tail(q["data"]), AWord, DataSteps', z, <<Len(given) + 1, 0>>)
  BY <1>1, ChainTake DEF DataLeft
<1>3. PICK z : /\ <<Head(q["data"]), <<n, c>>, z>> \in DataSteps
               /\ Chain(Tail(q["data"]), AWord, DataSteps', z, <<Len(given) + 1, 0>>)
  BY <1>2
<1>4. z \in Nat \X Nat /\ DataStep(Head(q["data"]), <<n, c>>, z)  BY <1>3 DEF DataSteps
<1>5. PICK n2 \in Nat, c2 \in Nat : z = <<n2, c2>>  BY <1>4
<1>6. DataLeft(n2, c2)'  BY <1>3, <1>5 DEF DataLeft
<1> QED  BY <1>2, <1>4, <1>5, <1>6 DEF Front

\* The push that is taken is the next one.
LEMMA PushTaken ==
    ASSUME GivenStays, Len(given') = Len(given), NEW np, PushesLeft(np),
           q["push"] # <<>>, q'["push"] = Tail(q["push"])
    PROVE  /\ np \in Nat /\ np + 1 \in DOMAIN given /\ Front("push") = PushOf(np + 1)
           /\ PushesLeft(np + 1)'
<1>1. /\ np \in 0 .. Len(given) /\ q["push"] \in Seq(APush) /\ Len(q["push"]) = Len(given) - np
      /\ \A j \in DOMAIN q["push"] : q["push"][j] = PushOf(np + j)
  BY DEF PushesLeft
<1>2. Len(given) \in Nat /\ DOMAIN given = 1 .. Len(given)  BY KeptFacts DEF GivenStays
<1>3. DOMAIN q["push"] = 1 .. Len(q["push"]) /\ Len(q["push"]) \in Nat \ {0}
  BY <1>1, LenProperties, EmptySeq
<1>4. np \in Nat /\ np + 1 \in DOMAIN given  BY <1>1, <1>2, <1>3
<1>5. Front("push") = PushOf(np + 1)  BY <1>1, <1>3 DEF Front
<1>6. /\ Tail(q["push"]) \in Seq(APush) /\ Len(Tail(q["push"])) = Len(q["push"]) - 1
      /\ \A j \in 1 .. Len(Tail(q["push"])) : Tail(q["push"])[j] = q["push"][j + 1]
  BY <1>1, HeadTailProperties
<1>7. DOMAIN Tail(q["push"]) = 1 .. Len(Tail(q["push"]))  BY <1>6, LenProperties
<1>8. ASSUME NEW j \in DOMAIN Tail(q["push"])
      PROVE  Tail(q["push"])[j] = PushOf((np + 1) + j)'
  <2>1. j + 1 \in DOMAIN q["push"] /\ np + (j + 1) = (np + 1) + j /\ (np + 1) + j \in DOMAIN given
    BY <1>1, <1>2, <1>3, <1>6, <1>7
  <2>2. Tail(q["push"])[j] = PushOf((np + 1) + j)
    <3>1. Tail(q["push"])[j] = q["push"][j + 1]  BY <1>6, <1>7
    <3>2. q["push"][j + 1] = PushOf(np + (j + 1))  BY <1>1, <2>1
    <3> QED  BY <3>1, <3>2, <2>1
  <2>3. given'[(np + 1) + j] = given[(np + 1) + j]  BY <2>1 DEF GivenStays
  <2> QED  BY <2>2, <2>3 DEF PushOf, Place, GivenStays
<1>9. np + 1 \in 0 .. Len(given') /\ Len(Tail(q["push"])) = Len(given') - (np + 1)
  BY <1>1, <1>2, <1>3, <1>6
<1> QED  BY <1>4, <1>5, <1>6, <1>8, <1>9 DEF PushesLeft

\* The commands: as they were, when one is put, and when one is taken.
LEMMA CommandsStay ==
    ASSUME GivenStays, NEW me, NEW cp, CommandsLeft(me, cp), q'["writeCmd"] = q["writeCmd"]
    PROVE  CommandsLeft(me, cp)'
BY StepsStay, ChainMonotone DEF CommandsLeft

\* A command is put behind the others.
LEMMA CommandPut ==
    ASSUME GivenStays, NEW me, NEW cp \in Nat, CommandsLeft(me, cp), NEW z \in Nat,
           NEW addr \in Nat, NEW len \in Nat, CommandStep(Access(addr, len), cp, z),
           q'["writeCmd"] = q["writeCmd"] \o <<Access(addr, len)>>
    PROVE  CommandsLeft(me, z)'
<1>1. Access(addr, len) \in ACommand  BY DEF Access, ACommand
<1>2. <<Access(addr, len), cp, z>> \in CommandSteps  BY <1>1 DEF CommandSteps
<1> DEFINE v == Access(addr, len)
<1>3. v \in ACommand /\ <<v, cp, z>> \in CommandSteps /\ q'["writeCmd"] = q["writeCmd"] \o <<v>>
  BY <1>1, <1>2
<1> HIDE DEF v
<1> QED  BY <1>3, StepsStay, ChainPut DEF CommandsLeft

\* The command that is taken is for the next bytes.
LEMMA CommandTaken ==
    ASSUME GivenStays, NEW me, NEW cp, CommandsLeft(me, cp),
           q["writeCmd"] # <<>>, q'["writeCmd"] = Tail(q["writeCmd"])
    PROVE  /\ Front("writeCmd") \in ACommand
           /\ \E z \in Nat : CommandStep(Front("writeCmd"), me, z) /\ CommandsLeft(z, cp)'
<1>1. CommandSteps \subseteq CommandSteps'  BY StepsStay
<1>2. /\ Head(q["writeCmd"]) \in ACommand
      /\ \E z : /\ <<Head(q["writeCmd"]), me, z>> \in CommandSteps
                /\ Chain(Tail(q["writeCmd"]), ACommand, CommandSteps', z, cp)
  BY <1>1, ChainTake DEF CommandsLeft
<1> QED  BY <1>2 DEF CommandSteps, CommandsLeft, Front

\* The words: as they were, when one is put, and when one is taken.
LEMMA WordsStay ==
    ASSUME GivenStays, NEW mp, NEW op, WordsLeft(mp, op), q'["writeData"] = q["writeData"]
    PROVE  WordsLeft(mp, op)'
BY StepsStay, ChainMonotone DEF WordsLeft

\* A word is put behind the others.
LEMMA WordPut ==
    ASSUME GivenStays, NEW mp, NEW op \in Nat, WordsLeft(mp, op), NEW z \in Nat,
           NEW word \in AWord, WriteStep(word, op, z),
           q'["writeData"] = q["writeData"] \o <<word>>
    PROVE  WordsLeft(mp, z)'
<1>1. <<word, op, z>> \in WriteSteps  BY DEF WriteSteps
<1> QED  BY <1>1, StepsStay, ChainPut DEF WordsLeft

\* The word that is taken has the next bytes.
LEMMA WordTaken ==
    ASSUME GivenStays, NEW mp, NEW op, WordsLeft(mp, op),
           q["writeData"] # <<>>, q'["writeData"] = Tail(q["writeData"])
    PROVE  /\ Front("writeData") \in AWord
           /\ \E z \in Nat : WriteStep(Front("writeData"), mp, z) /\ WordsLeft(z, op)'
<1>1. WriteSteps \subseteq WriteSteps'  BY StepsStay
<1>2. /\ Head(q["writeData"]) \in AWord
      /\ \E z : /\ <<Head(q["writeData"]), mp, z>> \in WriteSteps
                /\ Chain(Tail(q["writeData"]), AWord, WriteSteps', z, op)
  BY <1>1, ChainTake DEF WordsLeft
<1> QED  BY <1>2 DEF WriteSteps, WordsLeft, Front

\* The answers: a chain up to t is one up to anything above.
LEMMA AnswersGrow ==
    ASSUME NEW t \in Nat, NEW u \in Nat, t <= u
    PROVE  StatusSteps(t) \subseteq StatusSteps(u)
<1>1. 0 .. t \subseteq 0 .. u  OBVIOUS
<1> QED  BY <1>1 DEF StatusSteps

\* An answer is put behind the others.
LEMMA AnswerPut ==
    ASSUME NEW ms \in Nat, AnswersLeft(ms), NEW z \in Nat, NEW bytes \in Nat, z = ms + bytes,
           written' = written, written \in Nat, q'["status"] = q["status"] \o <<bytes>>
    PROVE  AnswersLeft(z)'
<1>1. StatusSteps(ms) \subseteq StatusSteps(z)  BY AnswersGrow
<1>2. Chain(q["status"], Nat, StatusSteps(z), written, ms)
  BY <1>1, ChainMonotone DEF AnswersLeft
<1>3. <<bytes, ms, z>> \in StatusSteps(z)  BY DEF StatusSteps, StatusStep
<1>4. Chain(q["status"] \o <<bytes>>, Nat, StatusSteps(z), written, z)
  BY <1>2, <1>3, ChainPut
<1>5. StatusSteps(z)' = StatusSteps(z)  BY DEF StatusSteps, StatusStep
<1>6. written' <= z  BY DEF AnswersLeft
<1> QED  BY <1>4, <1>5, <1>6 DEF AnswersLeft

\* An answer that is taken moves what is confirmed.
LEMMA AnswerTaken ==
    ASSUME NEW ms \in Nat, AnswersLeft(ms), written \in Nat,
           q["status"] # <<>>, q'["status"] = Tail(q["status"]), written' = written + Front("status")
    PROVE  AnswersLeft(ms)' /\ written' \in Nat /\ written <= written'
<1>1. /\ Head(q["status"]) \in Nat
      /\ \E z : /\ <<Head(q["status"]), written, z>> \in StatusSteps(ms)
                /\ Chain(Tail(q["status"]), Nat, StatusSteps(ms), z, ms)
  BY ChainTail DEF AnswersLeft
<1>2. PICK z : /\ <<Head(q["status"]), written, z>> \in StatusSteps(ms)
               /\ Chain(Tail(q["status"]), Nat, StatusSteps(ms), z, ms)
  BY <1>1
<1>3. z \in 0 .. ms /\ z = written + Head(q["status"])
  BY <1>2 DEF StatusSteps, StatusStep
<1>4. written' = z  BY <1>3 DEF Front
<1>5. StatusSteps(ms)' = StatusSteps(ms)  BY DEF StatusSteps, StatusStep
<1> QED  BY <1>1, <1>2, <1>3, <1>4, <1>5 DEF AnswersLeft

\* As they were.
LEMMA AnswersStay ==
    ASSUME NEW ms, AnswersLeft(ms), written' = written, q'["status"] = q["status"]
    PROVE  AnswersLeft(ms)'
BY DEF AnswersLeft, StatusSteps, StatusStep

\* A step that leaves the streams of the side leaves the side.
LEMMA WriteSideStays ==
    ASSUME GivenStays, Len(given') = Len(given), w' = w, mover' = mover, written' = written,
           \A s \in WriteStreams : q'[s] = q[s],
           NEW np, NEW n, NEW c, NEW op, NEW cp, NEW ms, NEW mp, NEW me,
           WriteSide(np, n, c, op, cp, ms, mp, me)
    PROVE  WriteSide(np, n, c, op, cp, ms, mp, me)'
<1>1. /\ q'["push"] = q["push"] /\ q'["data"] = q["data"] /\ q'["writeCmd"] = q["writeCmd"]
      /\ q'["writeData"] = q["writeData"] /\ q'["status"] = q["status"]
  BY DEF WriteStreams
<1>2. /\ {n, c, op, cp, ms, mp, me, written} \subseteq Nat
      /\ PushesLeft(np) /\ DataLeft(n, c) /\ AtWriter(np, n, c, op, cp)
      /\ CommandsLeft(me, cp) /\ WordsLeft(mp, op) /\ AtMover(ms, mp, me) /\ AnswersLeft(ms)
  BY DEF WriteSide
<1>3. PushesLeft(np)'  BY <1>1, <1>2, PushesStay
<1>4. DataLeft(n, c)'  BY <1>1, <1>2, DataStays
<1>5. np \in 0 .. Len(given)  BY <1>2 DEF PushesLeft
<1>6. AtWriter(np, n, c, op, cp)'  BY <1>2, <1>5, WriterStays
<1>7. CommandsLeft(me, cp)' /\ WordsLeft(mp, op)'
  BY <1>1, <1>2, CommandsStay, WordsStay
<1>8. AtMover(ms, mp, me)'  BY <1>2, MoverStays
<1>9. AnswersLeft(ms)'  BY <1>1, <1>2, AnswersStay
<1>10. ({n, c, op, cp, ms, mp, me, written} \subseteq Nat)'  BY <1>2
<1> QED  BY <1>3, <1>4, <1>6, <1>7, <1>8, <1>9, <1>10 DEF WriteSide

-----------------------------------------------------------------------------
(***************************************************************************)
(* What a step does to the chains of the side that is read.                *)
(***************************************************************************)
\* The burst that the break-down takes is the next one.
LEMMA ReadTaken ==
    ASSUME AskedStays, Len(asked') = Len(asked), NEW b, ReadsLeft(b),
           q["readCmd"] # <<>>, q'["readCmd"] = Tail(q["readCmd"])
    PROVE  /\ b \in Nat /\ b + 1 \in DOMAIN asked
           /\ Front("readCmd") = Access(Address(b + 1), Length(b + 1))
           /\ ReadsLeft(b + 1)'
<1>1. /\ b \in 0 .. Len(asked) /\ q["readCmd"] \in Seq(ACommand)
      /\ Len(q["readCmd"]) = Len(asked) - b
      /\ \A j \in DOMAIN q["readCmd"] : q["readCmd"][j] = Access(Address(b + j), Length(b + j))
  BY DEF ReadsLeft
<1>2. Len(asked) \in Nat /\ DOMAIN asked = 1 .. Len(asked)  BY AskedFacts DEF AskedStays
<1>3. DOMAIN q["readCmd"] = 1 .. Len(q["readCmd"]) /\ Len(q["readCmd"]) \in Nat \ {0}
  BY <1>1, LenProperties, EmptySeq
<1>4. b \in Nat /\ b + 1 \in DOMAIN asked  BY <1>1, <1>2, <1>3
<1>5. Front("readCmd") = Access(Address(b + 1), Length(b + 1))  BY <1>1, <1>3 DEF Front
<1>6. /\ Tail(q["readCmd"]) \in Seq(ACommand) /\ Len(Tail(q["readCmd"])) = Len(q["readCmd"]) - 1
      /\ \A j \in 1 .. Len(Tail(q["readCmd"])) : Tail(q["readCmd"])[j] = q["readCmd"][j + 1]
  BY <1>1, HeadTailProperties
<1>7. DOMAIN Tail(q["readCmd"]) = 1 .. Len(Tail(q["readCmd"]))  BY <1>6, LenProperties
<1>8. ASSUME NEW j \in DOMAIN Tail(q["readCmd"])
      PROVE  Tail(q["readCmd"])[j] = Access(Address((b + 1) + j), Length((b + 1) + j))'
  <2>1. /\ j + 1 \in DOMAIN q["readCmd"] /\ b + (j + 1) = (b + 1) + j
        /\ (b + 1) + j \in DOMAIN asked /\ (b + 1) + j \in 1 .. Len(asked) + 1
    BY <1>1, <1>2, <1>3, <1>6, <1>7
  <2>2. Tail(q["readCmd"])[j] = Access(Address((b + 1) + j), Length((b + 1) + j))
    <3>1. Tail(q["readCmd"])[j] = q["readCmd"][j + 1]  BY <1>6, <1>7
    <3>2. q["readCmd"][j + 1] = Access(Address(b + (j + 1)), Length(b + (j + 1)))
      BY <1>1, <2>1
    <3> QED  BY <3>1, <3>2, <2>1
  <2>3. Address((b + 1) + j)' = Address((b + 1) + j) /\ Length((b + 1) + j)' = Length((b + 1) + j)
    BY <2>1, BeforeStays
  <2> QED  BY <2>2, <2>3 DEF Access
<1>9. b + 1 \in 0 .. Len(asked') /\ Len(Tail(q["readCmd"])) = Len(asked') - (b + 1)
  BY <1>1, <1>2, <1>3, <1>6
<1> QED  BY <1>4, <1>5, <1>6, <1>8, <1>9 DEF ReadsLeft

\* A flag is put for the burst that has been taken.
LEMMA FlagPut ==
    ASSUME AskedStays, NEW f, NEW b \in Nat, FlagsLeft(f, b), b + 1 \in DOMAIN asked,
           NEW flag, flag = IF Crosses(b + 1) THEN 1 ELSE 0,
           q'["accessFlag"] = q["accessFlag"] \o <<flag>>
    PROVE  FlagsLeft(f, b + 1)'
<1> DEFINE s == q["accessFlag"]
<1>1. /\ f \in 0 .. b /\ s \in Seq({0, 1}) /\ Len(s) = b - f
      /\ \A j \in DOMAIN s : s[j] = IF Crosses(f + j) THEN 1 ELSE 0
  BY DEF FlagsLeft
<1>2. flag \in {0, 1} /\ Len(asked) \in Nat /\ DOMAIN asked = 1 .. Len(asked)
  BY AskedFacts DEF AskedStays
<1>3. /\ Append(s, flag) \in Seq({0, 1}) /\ Len(Append(s, flag)) = Len(s) + 1
      /\ \A j \in 1 .. Len(s) : Append(s, flag)[j] = s[j]
      /\ Append(s, flag)[Len(s) + 1] = flag
      /\ Append(s, flag) = s \o <<flag>>
  <2> DEFINE B == {0, 1}
  <2>1. s \in Seq(B) /\ flag \in B  BY <1>1, <1>2
  <2> HIDE DEF s, B
  <2>2. /\ Append(s, flag) \in Seq(B) /\ Len(Append(s, flag)) = Len(s) + 1
        /\ \A j \in 1 .. Len(s) : Append(s, flag)[j] = s[j]
        /\ Append(s, flag)[Len(s) + 1] = flag
    BY <2>1, AppendProperties
  <2>3. Append(s, flag) = s \o <<flag>>  BY <2>1, AppendIsConcat
  <2> QED  BY <2>2, <2>3 DEF B
<1>4. DOMAIN s = 1 .. Len(s) /\ Len(s) \in Nat
      /\ DOMAIN Append(s, flag) = 1 .. Len(Append(s, flag))
  BY <1>1, <1>3, LenProperties
<1> HIDE DEF s
<1>5. ASSUME NEW j \in DOMAIN Append(s, flag)
      PROVE  Append(s, flag)[j] = IF Crosses(f + j)' THEN 1 ELSE 0
  <2>1. f + j \in DOMAIN asked  BY <1>1, <1>2, <1>3, <1>4
  <2>2. Crosses(f + j)' <=> Crosses(f + j)  BY <2>1, BeforeStays
  <2>3. CASE j <= Len(s)
    <3>1. j \in DOMAIN s /\ Append(s, flag)[j] = s[j]  BY <2>3, <1>3, <1>4
    <3> QED  BY <3>1, <2>2, <1>1
  <2>4. CASE j > Len(s)
    <3>1. j = Len(s) + 1 /\ f + j = b + 1  BY <2>4, <1>1, <1>3, <1>4
    <3> QED  BY <3>1, <2>2, <1>3
  <2> QED  BY <2>3, <2>4, <1>3, <1>4
<1>6. f \in 0 .. b + 1 /\ Len(Append(s, flag)) = (b + 1) - f  BY <1>1, <1>3, <1>4
<1>7. q'["accessFlag"] = Append(s, flag)  BY <1>3 DEF s
<1> QED  BY <1>3, <1>5, <1>6, <1>7 DEF FlagsLeft

\* The flag that is taken is that of the next burst.
LEMMA FlagTaken ==
    ASSUME AskedStays, NEW f, NEW b \in 0 .. Len(asked), FlagsLeft(f, b),
           q["accessFlag"] # <<>>, q'["accessFlag"] = Tail(q["accessFlag"])
    PROVE  /\ f \in Nat /\ f + 1 \in DOMAIN asked
           /\ Front("accessFlag") = IF Crosses(f + 1) THEN 1 ELSE 0
           /\ FlagsLeft(f + 1, b)'
<1> DEFINE s == q["accessFlag"]
<1>1. /\ f \in 0 .. b /\ s \in Seq({0, 1}) /\ Len(s) = b - f
      /\ \A j \in DOMAIN s : s[j] = IF Crosses(f + j) THEN 1 ELSE 0
  BY DEF FlagsLeft
<1>2. Len(asked) \in Nat /\ DOMAIN asked = 1 .. Len(asked)
  BY AskedFacts DEF AskedStays
<1>3. DOMAIN s = 1 .. Len(s) /\ Len(s) \in Nat \ {0}
  BY <1>1, LenProperties, EmptySeq
<1>4. /\ Tail(s) \in Seq({0, 1}) /\ Len(Tail(s)) = Len(s) - 1
      /\ \A j \in 1 .. Len(Tail(s)) : Tail(s)[j] = s[j + 1]
  BY <1>1, HeadTailProperties
<1>5. DOMAIN Tail(s) = 1 .. Len(Tail(s))  BY <1>4, LenProperties
<1>6. Front("accessFlag") = IF Crosses(f + 1) THEN 1 ELSE 0  BY <1>1, <1>3 DEF Front
<1>7. f \in Nat /\ f + 1 \in DOMAIN asked /\ f + 1 \in 0 .. b /\ Len(Tail(s)) = b - (f + 1)
  <2> HIDE DEF s
  <2> QED  BY <1>1, <1>2, <1>3, <1>4
<1> HIDE DEF s
<1>8. ASSUME NEW j \in DOMAIN Tail(s)
      PROVE  Tail(s)[j] = IF Crosses((f + 1) + j)' THEN 1 ELSE 0
  <2>1. /\ j + 1 \in DOMAIN s /\ f + (j + 1) = (f + 1) + j /\ (f + 1) + j \in DOMAIN asked
    BY <1>1, <1>2, <1>3, <1>4, <1>5
  <2>2. Crosses((f + 1) + j)' <=> Crosses((f + 1) + j)  BY <2>1, BeforeStays
  <2>3. Tail(s)[j] = s[j + 1]  BY <1>4, <1>5
  <2>4. s[j + 1] = IF Crosses(f + (j + 1)) THEN 1 ELSE 0  BY <1>1, <2>1
  <2> QED  BY <2>1, <2>2, <2>3, <2>4
<1>9. q'["accessFlag"] = Tail(s)  BY DEF s
<1> QED  BY <1>4, <1>6, <1>7, <1>8, <1>9 DEF FlagsLeft

\* The accesses: as they were, when one is put, and when one is taken.
LEMMA AccessesStay ==
    ASSUME AskedStays, NEW rp, NEW bp, AccessesLeft(rp, bp), q'["memCmd"] = q["memCmd"]
    PROVE  AccessesLeft(rp, bp)'
BY ReadStepsStay, ChainMonotone DEF AccessesLeft

\* An access is put behind the others.
LEMMA AccessPut ==
    ASSUME AskedStays, NEW rp, NEW bp \in Nat, AccessesLeft(rp, bp), NEW z \in Nat,
           NEW addr \in Nat, NEW len \in Nat, ReadStep(Access(addr, len), bp, z),
           q'["memCmd"] = q["memCmd"] \o <<Access(addr, len)>>
    PROVE  AccessesLeft(rp, z)'
<1>1. Access(addr, len) \in ACommand  BY DEF Access, ACommand
<1>2. <<Access(addr, len), bp, z>> \in ReadSteps  BY <1>1 DEF ReadSteps
<1> DEFINE v == Access(addr, len)
<1>3. v \in ACommand /\ <<v, bp, z>> \in ReadSteps /\ q'["memCmd"] = q["memCmd"] \o <<v>>
  BY <1>1, <1>2
<1> HIDE DEF v
<1> QED  BY <1>3, ReadStepsStay, ChainPut DEF AccessesLeft

\* The access that is taken is for the next bytes.
LEMMA AccessTaken ==
    ASSUME AskedStays, NEW rp, NEW bp, AccessesLeft(rp, bp),
           q["memCmd"] # <<>>, q'["memCmd"] = Tail(q["memCmd"])
    PROVE  /\ Front("memCmd") \in ACommand
           /\ \E z \in Nat : ReadStep(Front("memCmd"), rp, z) /\ AccessesLeft(z, bp)'
<1>1. ReadSteps \subseteq ReadSteps'  BY ReadStepsStay
<1>2. /\ Head(q["memCmd"]) \in ACommand
      /\ \E z : /\ <<Head(q["memCmd"]), rp, z>> \in ReadSteps
                /\ Chain(Tail(q["memCmd"]), ACommand, ReadSteps', z, bp)
  BY <1>1, ChainTake DEF AccessesLeft
<1> QED  BY <1>2 DEF ReadSteps, AccessesLeft, Front

\* The words from memory: as they were, when an access is answered, and when one is taken.
LEMMA LoadsStay ==
    ASSUME AskedStays, NEW ip, NEW rp, LoadsLeft(ip, rp), q'["memData"] = q["memData"]
    PROVE  LoadsLeft(ip, rp)'
<1>1. LoadSteps(rp) \subseteq LoadSteps(rp)'  BY ReadStepsStay
<1> QED  BY <1>1, ChainMonotone DEF LoadsLeft

\* All the words of an access are put behind the others.
LEMMA LoadsPut ==
    ASSUME AskedStays, NEW ip \in Nat, NEW rp \in Nat, LoadsLeft(ip, rp), NEW z \in Nat, rp <= z,
           NEW words, Chain(words, AWord, LoadSteps(z), rp, z),
           q'["memData"] = q["memData"] \o words
    PROVE  LoadsLeft(ip, z)'
<1>1. 0 .. rp \subseteq 0 .. z /\ ip <= z  BY DEF LoadsLeft
<1>2. LoadSteps(rp) \subseteq LoadSteps(z)  BY <1>1 DEF LoadSteps
<1>3. Chain(q["memData"], AWord, LoadSteps(z), ip, rp)
  BY <1>2, ChainMonotone DEF LoadsLeft
<1>4. Chain(q["memData"] \o words, AWord, LoadSteps(z), ip, z)  BY <1>3, ChainConcat
<1>5. LoadSteps(z) \subseteq LoadSteps(z)'  BY ReadStepsStay
<1> QED  BY <1>1, <1>4, <1>5, ChainMonotone DEF LoadsLeft

\* The word that is taken has the next bytes.
LEMMA LoadTaken ==
    ASSUME AskedStays, NEW ip, NEW rp \in Nat, LoadsLeft(ip, rp),
           q["memData"] # <<>>, q'["memData"] = Tail(q["memData"])
    PROVE  /\ Front("memData") \in AWord
           /\ \E z \in Nat : LoadStep(Front("memData"), ip, z) /\ LoadsLeft(z, rp)'
<1>1. LoadSteps(rp) \subseteq LoadSteps(rp)'  BY ReadStepsStay
<1>2. /\ Head(q["memData"]) \in AWord
      /\ \E z : /\ <<Head(q["memData"]), ip, z>> \in LoadSteps(rp)
                /\ Chain(Tail(q["memData"]), AWord, LoadSteps(rp)', z, rp)
  BY <1>1, ChainTake DEF LoadsLeft
<1>3. PICK z : /\ <<Head(q["memData"]), ip, z>> \in LoadSteps(rp)
               /\ Chain(Tail(q["memData"]), AWord, LoadSteps(rp)', z, rp)
  BY <1>2
<1>4. z \in 0 .. rp /\ LoadStep(Head(q["memData"]), ip, z)  BY <1>3 DEF LoadSteps
<1>5. LoadsLeft(z, rp)'  BY <1>3, <1>4 DEF LoadsLeft
<1> QED  BY <1>2, <1>4, <1>5 DEF Front

\* The words that are put: as they were, and when one more is put.
LEMMA OutStays ==
    ASSUME AskedStays, NEW i, NEW k, OutLeft(i, k), q'["out"] = q["out"], got' = got, burst' = burst
    PROVE  OutLeft(i, k)'
<1>1. OutSteps(i) \subseteq OutSteps(i)'  BY ReadStepsStay
<1> QED  BY <1>1, ChainMonotone DEF OutLeft

\* A word is put behind the others.
LEMMA OutPut ==
    ASSUME AskedStays, NEW i \in Nat, NEW k \in Nat, OutLeft(i, k), got' = got, burst' = burst,
           NEW word \in AWord, NEW i2 \in Nat, NEW k2 \in Nat, OutStep(word, <<i, k>>, <<i2, k2>>),
           i <= i2, Len(got) \in Nat, q'["out"] = q["out"] \o <<word>>
    PROVE  OutLeft(i2, k2)'
<1>1. 0 .. i \subseteq 0 .. i2 /\ i2 \in 0 .. i2 /\ Len(got') + 1 <= i2  BY DEF OutLeft
<1>2. OutSteps(i) \subseteq OutSteps(i2)  BY <1>1 DEF OutSteps
<1>3. Chain(q["out"], AWord, OutSteps(i2), <<Len(got) + 1, Len(burst) + 1>>, <<i, k>>)
  BY <1>2, ChainMonotone DEF OutLeft
<1>4. <<word, <<i, k>>, <<i2, k2>>>> \in OutSteps(i2)  BY <1>1 DEF OutSteps
<1>5. OutSteps(i2) \subseteq OutSteps(i2)'  BY ReadStepsStay
<1>6. Chain(q["out"] \o <<word>>, AWord, OutSteps(i2)', <<Len(got) + 1, Len(burst) + 1>>, <<i2, k2>>)
  BY <1>3, <1>4, <1>5, ChainPut
<1> QED  BY <1>1, <1>6 DEF OutLeft

\* A step that leaves the streams of the side leaves the side.
LEMMA ReadSideStays ==
    ASSUME AskedStays, Len(asked') = Len(asked), r' = r, breakdown' = breakdown,
           got' = got, burst' = burst, \A s \in ReadStreams : q'[s] = q[s],
           NEW b, NEW bp, NEW rp, NEW f, NEW ip, NEW i, NEW k, ReadSide(b, bp, rp, f, ip, i, k)
    PROVE  ReadSide(b, bp, rp, f, ip, i, k)'
<1>1. /\ q'["readCmd"] = q["readCmd"] /\ q'["memCmd"] = q["memCmd"] /\ q'["memData"] = q["memData"]
      /\ q'["accessFlag"] = q["accessFlag"] /\ q'["out"] = q["out"]
  BY DEF ReadStreams
<1>2. /\ {bp, rp, ip} \subseteq Nat
      /\ ReadsLeft(b) /\ AtBreakdown(b, bp) /\ FlagsLeft(f, b) /\ AccessesLeft(rp, bp)
      /\ LoadsLeft(ip, rp) /\ AtStitcher(f, ip, i, k) /\ OutLeft(i, k) /\ AtLeaving
  BY DEF ReadSide
<1>3. b \in 0 .. Len(asked)  BY <1>2 DEF ReadsLeft
<1>4. Len(got) <= Len(asked)
  <2>1. Len(got) + 1 <= i /\ i \in 1 .. Len(asked) + 1  BY <1>2 DEF OutLeft, AtStitcher
  <2>2. Len(got) \in Nat  BY <1>2, LenProperties DEF AtLeaving
  <2> QED  BY <2>1, <2>2, AskedFacts DEF AskedStays
<1>5. ReadsLeft(b)' /\ AtBreakdown(b, bp)' /\ FlagsLeft(f, b)'
  BY <1>1, <1>2, <1>3, ReadsStay, BreakdownStays, FlagsStay
<1>6. AccessesLeft(rp, bp)' /\ LoadsLeft(ip, rp)' /\ OutLeft(i, k)'
  BY <1>1, <1>2, AccessesStay, LoadsStay, OutStays
<1>7. AtStitcher(f, ip, i, k)' /\ AtLeaving'  BY <1>2, <1>4, StitcherStays, LeavingStays
<1> QED  BY <1>2, <1>5, <1>6, <1>7 DEF ReadSide

-----------------------------------------------------------------------------
(***************************************************************************)
(* tasi_pkg_pusher: each state of it leaves the chains around it whole.    *)
(***************************************************************************)
\* The writer takes a step: what has been given and what is written stay.
WriterSteps ==
    /\ GivenStays /\ given' = given /\ mover' = mover /\ written' = written /\ Sequences

\* Where the writer and what is around it are, the other parts stay.
LEMMA WriteSideMoves ==
    ASSUME WriterSteps, NEW np, NEW n, NEW c, NEW op, NEW cp, NEW ms, NEW mp, NEW me,
           WriteSide(np, n, c, op, cp, ms, mp, me),
           NEW np2, NEW n2 \in Nat, NEW c2 \in Nat, NEW op2 \in Nat, NEW cp2 \in Nat,
           PushesLeft(np2)', DataLeft(n2, c2)', AtWriter(np2, n2, c2, op2, cp2)',
           CommandsLeft(me, cp2)', WordsLeft(mp, op2)', q'["status"] = q["status"]
    PROVE  WriteSide(np2, n2, c2, op2, cp2, ms, mp, me)'
<1>1. {ms, mp, me, written} \subseteq Nat /\ AtMover(ms, mp, me) /\ AnswersLeft(ms)
  BY DEF WriteSide
<1>2. AtMover(ms, mp, me)'  BY <1>1, MoverStays DEF WriterSteps
<1>3. AnswersLeft(ms)'  BY <1>1, AnswersStay DEF WriterSteps
<1>4. ({n2, c2, op2, cp2, ms, mp, me, written} \subseteq Nat)'  BY <1>1 DEF WriterSteps
<1> QED  BY <1>2, <1>3, <1>4 DEF WriteSide

\* The end of the buffer is at the end of a word.
LEMMA EndAligned ==
    ASSUME NEW o \in 0 .. SPACE - 1
    PROVE  o % WORD = 0 <=> \E k \in Nat : SPACE - o = k * WORD
<1>1. WORD \in Nat \ {0} /\ SPACE \in Nat \ {0} /\ SPACE % WORD = 0
  BY WordNat, SpaceNat
<1>2. PICK s \in Nat : SPACE = s * WORD  BY <1>1, Multiple
<1>3. ASSUME o % WORD = 0 PROVE \E k \in Nat : SPACE - o = k * WORD
  <2>1. PICK l \in Nat : o = l * WORD  BY <1>1, <1>3, Multiple
  <2>2. l * WORD < s * WORD  BY <1>1, <1>2, <2>1
  <2>3. l < s
    <3>1. \A x, y \in Nat : x >= y => x * WORD >= y * WORD  BY <1>1
    <3>2. l >= s => l * WORD >= s * WORD  BY <3>1
    <3>3. l * WORD \in Nat /\ s * WORD \in Nat  BY <1>1
    <3> QED  BY <2>2, <3>2, <3>3
  <2>4. (s - l) * WORD = s * WORD - l * WORD  BY <1>1
  <2>5. s - l \in Nat /\ SPACE - o = (s - l) * WORD  BY <1>2, <2>1, <2>3, <2>4
  <2> QED  BY <2>5
<1>4. ASSUME NEW k \in Nat, SPACE - o = k * WORD PROVE o % WORD = 0
  <2>1. k * WORD <= s * WORD  BY <1>1, <1>2, <1>4
  <2>2. k <= s
    <3>1. \A x, y \in Nat : x >= y + 1 => x * WORD >= y * WORD + WORD  BY <1>1
    <3>2. k >= s + 1 => k * WORD >= s * WORD + WORD  BY <3>1
    <3>3. k * WORD \in Nat /\ s * WORD \in Nat  BY <1>1
    <3> QED  BY <2>1, <3>2, <3>3, <1>1
  <2>3. (s - k) * WORD = s * WORD - k * WORD  BY <1>1
  <2>4. s - k \in Nat /\ o = (s - k) * WORD  BY <1>1, <1>2, <1>4, <2>2, <2>3
  <2> QED  BY <2>4, <1>1, Multiple
<1> QED  BY <1>3, <1>4

\* WriteCommand: a push is taken, and the command for its first part is put.
LEMMA WriteCommandKeeps ==
    ASSUME WriterSteps, NEW np, NEW n, NEW c, NEW op, NEW cp, NEW ms, NEW mp, NEW me,
           WriteSide(np, n, c, op, cp, ms, mp, me), WriteCommand
    PROVE  \E np2, n2, c2, op2, cp2 : WriteSide(np2, n2, c2, op2, cp2, ms, mp, me)'
<1> DEFINE push == Front("push")
           over == push.addr + push.len > SPACE
           len  == IF over THEN SPACE - push.addr ELSE push.len
           m    == np + 1
<1>1. /\ {n, c, op, cp, ms, mp, me, written} \subseteq Nat
      /\ PushesLeft(np) /\ DataLeft(n, c) /\ AtWriter(np, n, c, op, cp)
      /\ CommandsLeft(me, cp) /\ WordsLeft(mp, op)
  BY DEF WriteSide
<1>2. GivenStays /\ GivenInv /\ start \in Nat /\ start' = start /\ given' = given /\ Sequences
  BY DEF WriterSteps, GivenStays
<1>3. AtCommand(np, n, c, op, cp) /\ WriterTyped
  BY <1>1 DEF AtWriter, WriteCommand, AtCommand, AtDropped, AtFirst, AtSecond,
     AtAligned,
              AtRealign, AtResidue
<1>4. w.state = "command" /\ w.broken = FALSE /\ n = m /\ c = 0 /\ op = Kept(np) /\ cp = Kept(np)
  BY <1>3 DEF AtCommand, WriterTyped
<1>5. /\ q["push"] # <<>> /\ q'["push"] = Tail(q["push"])
      /\ \A s \in {"data", "writeData", "status"} : q'[s] = q[s]
  <2>1. CASE push.drop
    <3>1. Transfer({"push"}, Silent)  BY <2>1 DEF WriteCommand
    <3> QED  BY <3>1, <1>2, TakeEffect DEF BufferStreams
  <2>2. CASE ~push.drop
    <3>1. Transfer({"push"}, Both(To("writeCmd", Access(push.addr, len)), DoubleAccess(over)))
      BY <2>2 DEF WriteCommand
    <3> HIDE DEF len, over, push
    <3> QED  BY <3>1, <1>2, CommandEffect DEF BufferStreams
  <2> QED  BY <2>1, <2>2
<1>6. np \in Nat /\ m \in DOMAIN given /\ push = PushOf(m) /\ PushesLeft(m)'
  BY <1>1, <1>2, <1>5, PushTaken
<1>7. DataLeft(n, c)' /\ WordsLeft(mp, op)'
  BY <1>1, <1>2, <1>5, DataStays, WordsStay
<1>8. /\ given[m].from = op /\ given[m].len \in Nat \ {0} /\ op \in Nat
      /\ Kept(m) = IF given[m].drop THEN op ELSE op + given[m].len
      /\ Place(op) \in 0 .. SPACE - 1
  <2>1. Kept(m - 1) = given[m].from /\ m - 1 = np  BY <1>2, <1>6, GivenFacts
  <2>2. given[m].from = op  BY <2>1, <1>4
  <2> HIDE DEF m
  <2> QED  BY <2>2, <1>1, <1>2, <1>6, GivenFacts, PlaceType
<1>9. push.addr = Place(op) /\ push.len = given[m].len /\ push.drop = given[m].drop
  BY <1>6, <1>8 DEF PushOf
<1>10. /\ FirstPart(m)' = FirstPart(m) /\ (Wraps(m)' <=> Wraps(m))
       /\ Place(given[m].from)' = Place(op) /\ given'[m] = given[m]
       /\ m \in DOMAIN given' /\ Kept(m)' = Kept(m)
  BY <1>2, <1>6, <1>8, PartsStay
<1>11. CASE push.drop
  <2>1. Transfer({"push"}, Silent)  BY <1>11 DEF WriteCommand
  <2>2. q'["writeCmd"] = q["writeCmd"]  BY <2>1, <1>2, TakeEffect DEF BufferStreams
  <2>3. CommandsLeft(me, cp)'  BY <2>2, <1>1, <1>2, CommandsStay
  <2>4. w' = [w EXCEPT !.state = "first", !.drop = TRUE]  BY <1>11 DEF WriteCommand
  <2>5. WriterTyped'  BY <2>4, <1>3 DEF WriterTyped
  <2>6. w'.state = "first" /\ w'.drop /\ w'.broken = FALSE
    BY <2>4, <1>3, <1>4 DEF WriterTyped
  <2>7. AtDropped(m, n, c, op, cp)'
    <3>1. Kept(m) = op /\ cp = op  BY <1>4, <1>8, <1>9, <1>11
    <3> HIDE DEF m
    <3> QED  BY <3>1, <2>6, <1>4, <1>8, <1>9, <1>10, <1>11 DEF AtDropped
  <2>8. AtWriter(m, n, c, op, cp)'  BY <2>5, <2>7 DEF AtWriter
  <2>9. WriteSide(m, n, c, op, cp, ms, mp, me)'
    <3>1. q'["status"] = q["status"] /\ n \in Nat /\ c \in Nat /\ op \in Nat /\ cp \in Nat
      BY <1>1, <1>5
    <3> HIDE DEF m
    <3> QED  BY <3>1, <2>3, <2>8, <1>6, <1>7, WriteSideMoves
  <2> QED  BY <2>9
<1>12. CASE ~push.drop
  <2>1. ~given[m].drop  BY <1>9, <1>12
  <2>2. /\ FirstPart(m) \in 1 .. given[m].len /\ Place(op) + FirstPart(m) <= SPACE
        /\ Wraps(m) => FirstPart(m) = SPACE - Place(op) /\ FirstPart(m) < given[m].len
        /\ ~Wraps(m) => FirstPart(m) = given[m].len
    <3> HIDE DEF m
    <3> QED  BY <2>1, <1>2, <1>6, <1>8, FirstPartFacts
  <2>3. PICK h \in Nat, z \in Nat, o \in Nat :
           h = FirstPart(m) /\ z = op + h /\ o = Place(op) /\ z > op /\ z - op = h /\ o + h <= SPACE
    <3> HIDE DEF m
    <3>1. FirstPart(m) \in Nat /\ op + FirstPart(m) \in Nat /\ Place(op) \in Nat
          /\ op + FirstPart(m) > op /\ (op + FirstPart(m)) - op = FirstPart(m)
      BY <2>2, <1>8
    <3> QED  BY <3>1, <2>2
  <2>4. (over <=> Wraps(m)) /\ len = h
    <3>1. over <=> Wraps(m)
      <4> HIDE DEF m, push
      <4> QED  BY <1>8, <1>9 DEF Wraps
    <3> HIDE DEF over, m, push
    <3> QED  BY <3>1, <2>2, <2>3, <1>9
  <2>5. q'["writeCmd"] = q["writeCmd"] \o <<Access(o, h)>>
    <3>1. Transfer({"push"}, Both(To("writeCmd", Access(push.addr, len)), DoubleAccess(over)))
      BY <1>12 DEF WriteCommand
    <3>2. push.addr = o  BY <1>9, <2>3
    <3> HIDE DEF over, len, push
    <3>3. Transfer({"push"}, Both(To("writeCmd", Access(o, h)), DoubleAccess(over)))
      BY <2>4, <3>1, <3>2
    <3> QED  BY <3>3, <1>2, CommandEffect
  <2>6. CommandStep(Access(o, h), cp, z)
    <3> HIDE DEF m
    <3>1. z <= given[m].from + FirstPart(m) /\ given[m].from <= op /\ op < z
      BY <2>3, <1>8
    <3>2. Unbroken(op, z) /\ (WriteEnd(z) <=> z = given[m].from + FirstPart(m))
      BY <3>1, <2>1, <2>3, <1>2, <1>6, <1>8, WithinFirst
    <3>3. WriteEnd(z) /\ cp = op  BY <3>2, <2>3, <1>4, <1>8
    <3> QED  BY <3>2, <3>3, <2>3 DEF CommandStep
  <2>7. CommandsLeft(me, z)'  BY <2>3, <2>5, <2>6, <1>1, <1>2, CommandPut
  <2> DEFINE bbt == IF Wraps(m) THEN given[m].len - h ELSE given[m].len
             broken == w.broken \/ Wraps(m)
  <2>8. w' = [w EXCEPT !.state = "first", !.drop = FALSE, !.addr = o,
                       !.bbt = bbt, !.left = h, !.broken = broken]
    <3>1. w' = [w EXCEPT !.state = "first", !.drop = FALSE, !.addr = push.addr,
                         !.bbt = IF over THEN push.len - len ELSE push.len,
                         !.left = len, !.broken = w.broken \/ over]
      BY <1>12 DEF WriteCommand
    <3>2. push.addr = o  BY <1>9, <2>3
    <3> HIDE DEF len, over, push, m
    <3> QED  BY <3>1, <3>2, <2>4, <1>9
  <2>9. bbt \in Int /\ broken \in BOOLEAN /\ (broken <=> Wraps(m))
    <3> HIDE DEF m
    <3>1. Wraps(m) \in BOOLEAN  BY DEF Wraps
    <3> QED  BY <3>1, <1>4, <1>8
  <2>10. /\ WriterTyped'
         /\ w'.state = "first" /\ w'.drop = FALSE /\ w'.addr = o /\ w'.bbt = bbt /\ w'.left = h
         /\ w'.broken = broken
    <3> HIDE DEF bbt, broken
    <3>1. bbt \in Int /\ broken \in BOOLEAN /\ o \in Int /\ h \in Int  BY <2>3, <2>9
    <3> QED  BY <2>8, <3>1, <1>3 DEF WriterTyped
  <2>11. Wraps(m) => (o % WORD = 0 <=> \E k \in Nat : h = k * WORD)
    <3>1. o \in 0 .. SPACE - 1  BY <1>8, <2>3
    <3>2. o % WORD = 0 <=> \E k \in Nat : SPACE - o = k * WORD  BY <3>1, EndAligned
    <3>3. Wraps(m) => h = SPACE - o
      <4> HIDE DEF m
      <4> QED  BY <2>2, <2>3
    <3> HIDE DEF m
    <3> QED  BY <3>2, <3>3
  <2>12. AtFirst(m, n, c, op, z)'
    <3>1. FirstPart(m)' = h /\ h - 0 = h /\ op + 0 = op  BY <1>10, <2>3, <1>8
    <3>2. h > 0 /\ c = 0 /\ n = m  BY <2>2, <2>3, <1>4
    <3>3. (w'.broken <=> Wraps(m)') /\ ~w'.drop /\ w'.state = "first"
      <4> HIDE DEF m
      <4> QED  BY <2>9, <2>10, <1>10
    <3>4. m \in DOMAIN given' /\ ~given'[m].drop /\ given'[m].from = op
      <4> HIDE DEF m
      <4> QED  BY <1>10, <2>1, <1>8
    <3>5. w'.addr = Place(given[m].from)' /\ w'.left = FirstPart(m)' - c
      <4> HIDE DEF m
      <4> QED  BY <2>3, <2>10, <3>1, <3>2, <1>10
    <3>6. Wraps(m)' => /\ w'.bbt = given'[m].len - FirstPart(m)'
                       /\ w'.addr % WORD = 0 <=> \E k \in Nat : w'.left = k * WORD
      <4> HIDE DEF m
      <4> QED  BY <2>3, <2>10, <2>11, <3>1, <3>4, <1>10
    <3>7. c < FirstPart(m)' /\ op = given'[m].from + c /\ z = given'[m].from + FirstPart(m)'
      <4> HIDE DEF m
      <4> QED  BY <3>1, <3>2, <3>4, <2>3
    <3> HIDE DEF m
    <3> QED  BY <3>2, <3>3, <3>4, <3>5, <3>6, <3>7 DEF AtFirst
  <2>13. AtWriter(m, n, c, op, z)'  BY <2>10, <2>12 DEF AtWriter
  <2>14. WriteSide(m, n, c, op, z, ms, mp, me)'
    <3>1. q'["status"] = q["status"] /\ n \in Nat /\ c \in Nat /\ op \in Nat /\ z \in Nat
      BY <2>3, <1>1, <1>5
    <3> HIDE DEF m
    <3> QED  BY <3>1, <2>7, <2>13, <1>6, <1>7, WriteSideMoves
  <2> QED  BY <2>14
<1> QED  BY <1>11, <1>12

\* The next word of the push the writer works on.
LEMMA WordComes ==
    ASSUME WriterSteps, NEW n \in Nat, NEW c \in Nat, DataLeft(n, c),
           q["data"] # <<>>, q'["data"] = Tail(q["data"])
    PROVE  \E word \in AWord, len \in Nat \ {0}, n2 \in Nat, c2 \in Nat :
              /\ word = Front("data") /\ n \in DOMAIN given /\ len = given[n].len /\ c < len
              /\ word.data \in Data /\ word.keep \in 1 .. WORD /\ word.last \in BOOLEAN
              /\ word.last => word.keep = len - c /\ n2 = n + 1 /\ c2 = 0
              /\ ~word.last => word.keep = WORD /\ WORD < len - c /\ n2 = n /\ c2 = c + WORD
              /\ ~given[n].drop => \A j \in 1 .. word.keep : word.data[j] = given[n].from + c + j
              /\ DataLeft(n2, c2)'
<1>1. GivenStays /\ GivenInv /\ Len(given') = Len(given)  BY DEF WriterSteps, GivenStays
<1>2. Front("data") \in AWord
      /\ \E n2 \in Nat, c2 \in Nat : /\ DataStep(Front("data"), <<n, c>>, <<n2, c2>>)
                                     /\ DataLeft(n2, c2)'
  BY <1>1, DataTaken
<1>3. PICK n2 \in Nat, c2 \in Nat :
         DataStep(Front("data"), <<n, c>>, <<n2, c2>>) /\ DataLeft(n2, c2)'
  BY <1>2
<1>4. PICK word \in AWord : word = Front("data")  BY <1>2
<1>5. /\ n \in DOMAIN given /\ c < given[n].len
      /\ word.keep = Least(WORD, given[n].len - c)
      /\ word.last <=> given[n].len - c <= WORD
      /\ ~given[n].drop => \A j \in 1 .. word.keep : word.data[j] = given[n].from + c + j
      /\ <<n2, c2>> = IF word.last THEN <<n + 1, 0>> ELSE <<n, c + WORD>>
  BY <1>3, <1>4 DEF DataStep
<1>6. given[n].len \in Nat \ {0}  BY <1>1, <1>5, GivenFacts
<1>7. word.data \in Data /\ word.keep \in 0 .. WORD /\ word.last \in BOOLEAN
  BY WordParts
<1>8. WORD \in Nat \ {0}  BY WordNat
<1>9. word.last => word.keep = given[n].len - c /\ n2 = n + 1 /\ c2 = 0
  BY <1>5, <1>6, <1>8 DEF Least
<1>10. ~word.last => word.keep = WORD /\ WORD < given[n].len - c /\ n2 = n /\ c2 = c + WORD
  BY <1>5, <1>6, <1>8 DEF Least
<1>11. word.keep \in 1 .. WORD  BY <1>5, <1>6, <1>7, <1>8, <1>9, <1>10
<1> QED  BY <1>3, <1>4, <1>5, <1>6, <1>7, <1>9, <1>10, <1>11

\* The state of the writer says where it is.
LEMMA WriterAt ==
    ASSUME NEW np, NEW n, NEW c, NEW op, NEW cp, AtWriter(np, n, c, op, cp)
    PROVE  /\ WriterTyped
           /\ w.state = "command" => AtCommand(np, n, c, op, cp)
           /\ w.state = "first" => IF w.drop THEN AtDropped(np, n, c, op, cp)
                                             ELSE AtFirst(np, n, c, op, cp)
           /\ w.state = "second" => AtSecond(np, n, c, op, cp)
           /\ w.state = "aligned" => AtAligned(np, n, c, op, cp)
           /\ w.state = "realign" => AtRealign(np, n, c, op, cp)
           /\ w.state = "residue" => AtResidue(np, n, c, op, cp)
BY DEF AtWriter, AtCommand, AtDropped, AtFirst, AtSecond, AtAligned, AtRealign,
   AtResidue

\* WriteFirst, of a push that is dropped: its words are taken and nothing is put.
LEMMA DroppedKeeps ==
    ASSUME WriterSteps, NEW np, NEW n, NEW c, NEW op, NEW cp, NEW ms, NEW mp, NEW me,
           WriteSide(np, n, c, op, cp, ms, mp, me), WriteFirst, w.drop
    PROVE  \E np2, n2, c2, op2, cp2 : WriteSide(np2, n2, c2, op2, cp2, ms, mp, me)'
<1>1. /\ {n, c, op, cp, ms, mp, me, written} \subseteq Nat
      /\ PushesLeft(np) /\ DataLeft(n, c) /\ AtWriter(np, n, c, op, cp)
      /\ CommandsLeft(me, cp) /\ WordsLeft(mp, op)
  BY DEF WriteSide
<1>2. GivenStays /\ GivenInv /\ start \in Nat /\ start' = start /\ given' = given /\ Sequences
  BY DEF WriterSteps, GivenStays
<1>3. AtDropped(np, n, c, op, cp) /\ WriterTyped  BY <1>1, WriterAt DEF WriteFirst
<1>4. Transfer({"data"}, Silent)  BY DEF WriteFirst
<1>5. /\ q["data"] # <<>> /\ q'["data"] = Tail(q["data"])
      /\ \A s \in {"push", "writeCmd", "writeData", "status"} : q'[s] = q[s]
  BY <1>2, <1>4, TakeEffect DEF BufferStreams
<1>6. n \in Nat /\ c \in Nat /\ op \in Nat /\ cp \in Nat  BY <1>1
<1>7. PICK word \in AWord, len \in Nat \ {0}, n2 \in Nat, c2 \in Nat :
         /\ word = Front("data") /\ n \in DOMAIN given /\ len = given[n].len /\ c < len
         /\ word.last \in BOOLEAN
         /\ word.last => n2 = n + 1 /\ c2 = 0
         /\ ~word.last => WORD < len - c /\ n2 = n /\ c2 = c + WORD
         /\ DataLeft(n2, c2)'
  BY <1>1, <1>5, <1>6, WordComes
<1>8. w' = [w EXCEPT !.word = word, !.state = IF word.last THEN "command" ELSE w.state]
  BY <1>7 DEF WriteFirst
<1>9. /\ WriterTyped' /\ w'.drop = w.drop /\ w'.broken = w.broken
      /\ w'.state = IF word.last THEN "command" ELSE w.state
  BY <1>3, <1>7, <1>8 DEF WriterTyped
<1>10. PushesLeft(np)' /\ CommandsLeft(me, cp)' /\ WordsLeft(mp, op)'
  BY <1>1, <1>2, <1>5, PushesStay, CommandsStay, WordsStay
<1>11. /\ w.state = "first" /\ w.drop /\ ~w.broken /\ np \in DOMAIN given /\ given[np].drop
       /\ n = np /\ op = Kept(np) /\ cp = Kept(np)
  BY <1>3 DEF AtDropped
<1>12. given'[np] = given[np] /\ np \in DOMAIN given' /\ Kept(np)' = Kept(np)
  BY <1>2, <1>11, PartsStay
<1>13. AtCommand(np, n2, c2, op, cp)' \/ AtDropped(np, n2, c2, op, cp)'
  <2>1. CASE word.last
    BY <2>1, <1>7, <1>9, <1>11, <1>12 DEF AtCommand
  <2>2. CASE ~word.last
    <3>1. n2 = np /\ c2 < given'[np].len  BY <2>2, <1>6, <1>7, <1>11, <1>12, WordNat
    <3> QED  BY <2>2, <3>1, <1>9, <1>11, <1>12 DEF AtDropped
  <2> QED  BY <2>1, <2>2
<1>14. AtWriter(np, n2, c2, op, cp)'  BY <1>9, <1>13 DEF AtWriter
<1>15. WriteSide(np, n2, c2, op, cp, ms, mp, me)'
  BY <1>5, <1>6, <1>7, <1>10, <1>14, WriteSideMoves
<1> QED  BY <1>15

\* Whole words, less one.
LEMMA LessByAWord ==
    ASSUME NEW l \in Nat, l > WORD
    PROVE  (\E k \in Nat : l = k * WORD) <=> \E k \in Nat : l - WORD = k * WORD
<1>1. WORD \in Nat \ {0}  BY WordNat
<1>2. ASSUME NEW k \in Nat, l = k * WORD PROVE \E m \in Nat : l - WORD = m * WORD
  <2>1. k # 0  BY <1>1, <1>2
  <2>2. (k - 1) * WORD = k * WORD - WORD  BY <1>1
  <2> QED  BY <2>1, <2>2, <1>2
<1>3. ASSUME NEW k \in Nat, l - WORD = k * WORD PROVE \E m \in Nat : l = m * WORD
  <2>1. (k + 1) * WORD = k * WORD + WORD  BY <1>1
  <2> QED  BY <2>1, <1>1, <1>3
<1> QED  BY <1>2, <1>3

\* Of no more than one word, only that one is whole.
LEMMA OneWord ==
    ASSUME NEW l \in 1 .. WORD
    PROVE  (\E k \in Nat : l = k * WORD) <=> l = WORD
<1>1. WORD \in Nat \ {0}  BY WordNat
<1>2. ASSUME NEW k \in Nat, l = k * WORD PROVE l = WORD
  <2>1. k # 0  BY <1>1, <1>2
  <2>2. k >= 2 => k * WORD >= WORD + WORD
    <3>1. k >= 2 => k * WORD = (k - 2) * WORD + WORD + WORD /\ (k - 2) * WORD >= 0
      BY <1>1
    <3> QED  BY <3>1, <1>1
  <2>3. k * WORD <= WORD  BY <1>2, <1>1
  <2>4. k < 2  BY <2>2, <2>3, <1>1
  <2>5. k = 1  BY <2>1, <2>4
  <2> QED  BY <2>5, <1>2, <1>1
<1>3. l = WORD => l = 1 * WORD  BY <1>1
<1> QED  BY <1>2, <1>3

\* WriteFirst: the words up to the end of the push or of the buffer are put as they are.
LEMMA FirstKeeps ==
    ASSUME WriterSteps, NEW np, NEW n, NEW c, NEW op, NEW cp, NEW ms, NEW mp, NEW me,
           WriteSide(np, n, c, op, cp, ms, mp, me), WriteFirst, ~w.drop
    PROVE  \E np2, n2, c2, op2, cp2 : WriteSide(np2, n2, c2, op2, cp2, ms, mp, me)'
<1>1. /\ {n, c, op, cp, ms, mp, me, written} \subseteq Nat
      /\ PushesLeft(np) /\ DataLeft(n, c) /\ AtWriter(np, n, c, op, cp)
      /\ CommandsLeft(me, cp) /\ WordsLeft(mp, op)
  BY DEF WriteSide
<1>2. GivenStays /\ GivenInv /\ start \in Nat /\ start' = start /\ given' = given /\ Sequences
  BY DEF WriterSteps, GivenStays
<1>3. AtFirst(np, n, c, op, cp) /\ WriterTyped  BY <1>1, WriterAt DEF WriteFirst
<1> DEFINE ends == w.left <= WORD
           put(word) == IF ends /\ w.broken THEN Cut(word) ELSE word
<1>4. Transfer({"data"}, To("writeData", put(Front("data"))))  BY DEF WriteFirst
<1>5. /\ q["data"] # <<>> /\ q'["data"] = Tail(q["data"])
      /\ q'["writeData"] = q["writeData"] \o <<put(Front("data"))>>
      /\ \A s \in {"push", "writeCmd", "status"} : q'[s] = q[s]
  <2> DEFINE v == put(Front("data"))
  <2>1. Transfer({"data"}, To("writeData", v)) /\ "data" \in BufferStreams
        /\ "writeData" \in BufferStreams /\ "data" # "writeData"
    BY <1>4 DEF BufferStreams
  <2> HIDE DEF v
  <2>2. /\ q["data"] # <<>> /\ q'["data"] = Tail(q["data"])
        /\ q'["writeData"] = q["writeData"] \o <<v>>
        /\ \A s \in BufferStreams \ {"data", "writeData"} : q'[s] = q[s]
    BY <2>1, <1>2, TakePutEffect
  <2> QED  BY <2>2 DEF BufferStreams, v
<1>6. n \in Nat /\ c \in Nat /\ op \in Nat /\ cp \in Nat  BY <1>1
<1>7. PICK word \in AWord, len \in Nat \ {0}, n2 \in Nat, c2 \in Nat :
         /\ word = Front("data") /\ n \in DOMAIN given /\ len = given[n].len /\ c < len
         /\ word.data \in Data /\ word.keep \in 1 .. WORD /\ word.last \in BOOLEAN
         /\ word.last => word.keep = len - c /\ n2 = n + 1 /\ c2 = 0
         /\ ~word.last => word.keep = WORD /\ WORD < len - c /\ n2 = n /\ c2 = c + WORD
         /\ ~given[n].drop => \A j \in 1 .. word.keep : word.data[j] = given[n].from + c + j
         /\ DataLeft(n2, c2)'
  BY <1>1, <1>5, <1>6, WordComes
<1>8. PushesLeft(np)' /\ CommandsLeft(me, cp)'
  BY <1>1, <1>2, <1>5, PushesStay, CommandsStay
<1>9. /\ w.state = "first" /\ ~w.drop /\ (w.broken <=> Wraps(np))
      /\ np \in DOMAIN given /\ ~given[np].drop /\ n = np
      /\ w.addr = Place(given[np].from) /\ w.left = FirstPart(np) - c
      /\ Wraps(np) => /\ w.bbt = given[np].len - FirstPart(np)
                      /\ w.addr % WORD = 0 <=> \E k \in Nat : w.left = k * WORD
      /\ c < FirstPart(np)
      /\ op = given[np].from + c /\ cp = given[np].from + FirstPart(np)
  BY <1>3 DEF AtFirst
<1>10. /\ FirstPart(np) \in 1 .. len /\ given[np].from \in Nat
       /\ Wraps(np) => FirstPart(np) < len
       /\ ~Wraps(np) => FirstPart(np) = len
       /\ Kept(np) = given[np].from + len
  BY <1>2, <1>7, <1>9, FirstPartFacts, GivenFacts
<1>11. PICK h \in Nat, from \in Nat, l \in Nat :
          /\ h = FirstPart(np) /\ from = given[np].from /\ l = h - c /\ l = w.left /\ l > 0
          /\ h <= len /\ op = from + c /\ cp = from + h /\ cp = op + l
          /\ Wraps(np) => h < len /\ w.bbt = len - h
          /\ ~Wraps(np) => h = len
          /\ Kept(np) = from + len
  <2>1. FirstPart(np) \in Nat /\ FirstPart(np) - c \in Nat /\ FirstPart(np) - c > 0
    BY <1>6, <1>9, <1>10
  <2>2. len = given[np].len  BY <1>7, <1>9
  <2> QED  BY <1>6, <1>9, <1>10, <2>1, <2>2
<1>12. /\ FirstPart(np)' = h /\ (Wraps(np)' <=> Wraps(np))
       /\ Place(given[np].from)' = w.addr /\ given'[np] = given[np] /\ given'[np].from = from
       /\ np \in DOMAIN given' /\ Kept(np)' = Kept(np)
  BY <1>2, <1>9, <1>11, PartsStay
<1>13. \A j \in 1 .. word.keep : word.data[j] = op + j  BY <1>7, <1>9, <1>11
<1>14. WORD \in Nat \ {0} /\ w.left \in Int /\ w.broken \in BOOLEAN
  BY <1>3, WordNat DEF WriterTyped
<1>15. ASSUME NEW z \in Nat, op < z, z <= cp
       PROVE  Unbroken(op, z) /\ (WriteEnd(z) <=> z = cp)
  <2>1. from <= op  BY <1>6, <1>11
  <2> QED  BY <2>1, <1>2, <1>6, <1>9, <1>11, <1>15, WithinFirst
<1>16. l \in Nat /\ l > 0 /\ cp = op + l /\ op < cp /\ cp <= cp /\ cp - op = l /\ h = c + l
       /\ l \in Int
  <2>1. h \in Nat /\ from \in Nat /\ l \in Nat /\ l = h - c /\ l > 0 /\ op = from + c /\ cp = from + h
    BY <1>11
  <2> QED  BY <2>1, <1>6
<1>17. CASE ~ends
  <2>1. l > WORD /\ put(word) = word  BY <1>17, <1>11, <1>14
  <2>2. ~word.last  BY <2>1, <1>6, <1>7, <1>11, <1>14
  <2>3. PICK z \in Nat : z = op + WORD /\ op < z /\ z < cp /\ z - op = WORD
    <3>1. op + WORD \in Nat /\ op < op + WORD /\ op + WORD < cp /\ (op + WORD) - op = WORD
      BY <2>1, <1>6, <1>16, WordNat
    <3> QED  BY <3>1
  <2>4. WriteStep(word, op, z)
    <3>1. word.keep = WORD /\ word.last = FALSE  BY <2>2, <1>7
    <3>2. z <= cp /\ z # cp  BY <2>3, <1>6
    <3>3. Unbroken(op, z) /\ ~WriteEnd(z)  BY <2>3, <3>2, <1>15
    <3>4. \A j \in 1 .. z - op : word.data[j] = op + j  BY <2>3, <3>1, <1>13
    <3> QED  BY <2>3, <3>1, <3>3, <3>4 DEF WriteStep
  <2>5. WordsLeft(mp, z)'  BY <2>1, <2>4, <1>1, <1>2, <1>5, <1>6, <1>7, WordPut
  <2>6. w' = [w EXCEPT !.word = word, !.left = w.left - WORD]
    BY <1>7, <1>9, <1>17 DEF WriteFirst
  <2>7. /\ WriterTyped' /\ w'.state = w.state /\ w'.drop = w.drop /\ w'.broken = w.broken
        /\ w'.addr = w.addr /\ w'.bbt = w.bbt /\ w'.left = w.left - WORD
    <3> DEFINE l2 == w.left - WORD
    <3>1. l2 \in Int /\ w' = [w EXCEPT !.word = word, !.left = l2]  BY <2>6, <1>14
    <3> HIDE DEF l2
    <3>2. /\ WriterTyped' /\ w'.state = w.state /\ w'.drop = w.drop /\ w'.broken = w.broken
          /\ w'.addr = w.addr /\ w'.bbt = w.bbt /\ w'.left = l2
      BY <3>1, <1>3, <1>7 DEF WriterTyped
    <3> QED  BY <3>2 DEF l2
  <2>8. (\E k \in Nat : w'.left = k * WORD) <=> \E k \in Nat : w.left = k * WORD
    <3>1. (\E k \in Nat : l = k * WORD) <=> \E k \in Nat : l - WORD = k * WORD
      BY <2>1, LessByAWord
    <3> QED  BY <3>1, <2>7, <1>11
  <2>9. AtFirst(np, n2, c2, z, cp)'
    <3>1. c2 = c + WORD /\ n2 = np /\ c2 < h /\ z = from + c2 /\ w'.left = h - c2
      <4>1. c2 = c + WORD /\ n2 = np  BY <2>2, <1>7, <1>9
      <4>2. c2 < h  BY <4>1, <2>1, <1>6, <1>16, WordNat
      <4>3. op = from + c /\ from \in Nat  BY <1>11
      <4>4. z = from + c2  BY <4>1, <4>3, <2>3, <1>6, WordNat
      <4>5. w'.left = l - WORD  BY <2>7, <1>11
      <4>6. l - WORD = h - c2  BY <4>1, <1>6, <1>16, WordNat
      <4> QED  BY <4>1, <4>2, <4>4, <4>5, <4>6
    <3>2. Wraps(np)' => /\ w'.bbt = given'[np].len - h
                        /\ w'.addr % WORD = 0 <=> \E k \in Nat : w'.left = k * WORD
      BY <2>7, <2>8, <1>9, <1>11, <1>12
    <3>3. (w'.broken <=> Wraps(np)') /\ ~given'[np].drop /\ w'.addr = Place(given[np].from)'
          /\ w'.state = "first" /\ ~w'.drop /\ cp = from + h
      BY <2>7, <1>9, <1>11, <1>12
    <3> QED  BY <3>1, <3>2, <3>3, <1>12 DEF AtFirst
  <2>10. AtWriter(np, n2, c2, z, cp)'  BY <2>7, <2>9 DEF AtWriter
  <2>11. WriteSide(np, n2, c2, z, cp, ms, mp, me)'
    BY <2>3, <2>5, <2>10, <1>5, <1>6, <1>7, <1>8, WriteSideMoves
  <2> QED  BY <2>11
<1>18. CASE ends /\ ~w.broken
  <2>1. ~Wraps(np) /\ put(word) = word  BY <1>18, <1>9
  <2>2. word.last /\ word.keep = l  BY <2>1, <1>6, <1>7, <1>11, <1>14, <1>18
  <2>3. WriteStep(word, op, cp)
    <3>1. op < cp /\ cp <= cp /\ cp - op = l  BY <1>16
    <3>2. Unbroken(op, cp) /\ WriteEnd(cp)  BY <3>1, <1>6, <1>15
    <3> QED  BY <3>1, <3>2, <2>2, <1>13 DEF WriteStep
  <2>4. WordsLeft(mp, cp)'  BY <2>1, <2>3, <1>1, <1>2, <1>5, <1>6, <1>7, WordPut
  <2>5. w' = [w EXCEPT !.word = word, !.state = "command"]
    BY <1>7, <1>9, <1>18 DEF WriteFirst
  <2>6. WriterTyped' /\ w'.state = "command" /\ w'.broken = w.broken
    BY <2>5, <1>3 DEF WriterTyped
  <2>7. AtCommand(np, n2, c2, cp, cp)'
    <3>1. cp = Kept(np)' /\ n2 = np + 1 /\ c2 = 0
      BY <2>1, <2>2, <1>7, <1>9, <1>11, <1>12
    <3> QED  BY <3>1, <2>6, <1>18 DEF AtCommand
  <2>8. AtWriter(np, n2, c2, cp, cp)'  BY <2>6, <2>7 DEF AtWriter
  <2>9. WriteSide(np, n2, c2, cp, cp, ms, mp, me)'
    BY <2>4, <2>8, <1>5, <1>6, <1>7, <1>8, WriteSideMoves
  <2> QED  BY <2>9
<1>19. CASE ends /\ w.broken
  <2> DEFINE keep == IF w.addr % WORD # 0 THEN w.left ELSE word.keep
             residue == (word.keep - w.left) % WORD
  <2>1. /\ Wraps(np) /\ put(word) = AxiWord(word.data, keep, TRUE)
        /\ l \in 1 .. WORD /\ (w.addr % WORD = 0 <=> l = WORD)
    <3>1. l \in 1 .. WORD  BY <1>11, <1>14, <1>19
    <3>2. (\E k \in Nat : l = k * WORD) <=> l = WORD  BY <3>1, OneWord
    <3>3. Wraps(np)  BY <1>9, <1>19
    <3>4. w.addr % WORD = 0 <=> \E k \in Nat : l = k * WORD  BY <3>3, <1>9, <1>11
    <3>5. put(word) = AxiWord(word.data, keep, TRUE)  BY <1>19 DEF Cut
    <3> QED  BY <3>1, <3>2, <3>3, <3>4, <3>5
  <2>2. word.keep >= l /\ (l < WORD => word.keep > l) /\ keep = l
    BY <2>1, <1>6, <1>7, <1>11, <1>14
  <2>3. PICK cut \in AWord : cut = put(word) /\ cut.data = word.data /\ cut.keep = l /\ cut.last = TRUE
    <3>1. put(word) = AxiWord(word.data, l, TRUE) /\ l \in 0 .. WORD /\ TRUE \in BOOLEAN
      <4> HIDE DEF put, keep
      <4> QED  BY <2>1, <2>2, <1>14
    <3> HIDE DEF put
    <3> QED  BY <3>1, <1>7, AxiWordOf
  <2>4. WriteStep(cut, op, cp)
    <3>1. op < cp /\ cp <= cp /\ cp - op = l  BY <1>16
    <3>2. Unbroken(op, cp) /\ WriteEnd(cp)  BY <3>1, <1>6, <1>15
    <3>3. \A j \in 1 .. l : cut.data[j] = op + j  BY <2>2, <2>3, <1>7, <1>13
    <3> QED  BY <3>1, <3>2, <3>3, <2>3 DEF WriteStep
  <2>5. WordsLeft(mp, cp)'
    <3>1. q'["writeData"] = q["writeData"] \o <<cut>>  BY <2>3, <1>5, <1>7
    <3> QED  BY <3>1, <2>4, <1>1, <1>2, <1>6, WordPut
  <2>6. w' = [w EXCEPT !.word = word, !.state = "second", !.residue = residue, !.taken = w.left]
    BY <1>7, <1>9, <1>19 DEF WriteFirst
  <2>7. l < WORD => residue = word.keep - l
    <3>1. l < WORD => word.keep - l \in 0 .. WORD - 1 /\ word.keep - l \in Nat
      BY <2>1, <2>2, <1>7, <1>14
    <3>2. l < WORD => word.keep - l = 0 * WORD + (word.keep - l)  BY <1>7, <1>14
    <3>3. l < WORD => (word.keep - l) % WORD = word.keep - l
      BY <3>1, <3>2, <1>14, Modulus
    <3> QED  BY <3>3, <1>11
  <2>8. residue \in Int
    <3>1. word.keep - w.left \in Nat  BY <2>2, <1>7, <1>11
    <3> QED  BY <3>1, <1>14, Division
  <2>9. /\ WriterTyped' /\ w'.state = "second" /\ w'.broken = w.broken /\ w'.addr = w.addr
        /\ w'.bbt = w.bbt /\ w'.residue = residue /\ w'.taken = l /\ w'.word = word
    <3>1. w' = [w EXCEPT !.word = word, !.state = "second", !.residue = residue, !.taken = l]
      BY <2>6, <1>11
    <3> HIDE DEF residue
    <3> QED  BY <3>1, <2>8, <1>3, <1>16, <1>7 DEF WriterTyped
  <2>10. AtSecond(np, n2, c2, cp, cp)'
    <3>1. /\ w'.state = "second" /\ w'.broken /\ np \in DOMAIN given' /\ ~given'[np].drop
          /\ Wraps(np)' /\ w'.addr = Place(given[np].from)'
          /\ w'.bbt = given'[np].len - FirstPart(np)' /\ cp = given'[np].from + FirstPart(np)'
      BY <2>1, <2>9, <1>7, <1>9, <1>11, <1>12, <1>19
    <3>2. CASE w.addr % WORD = 0
      <4>1. l = WORD /\ ~word.last  BY <3>2, <2>1, <1>6, <1>7, <1>11, <1>14
      <4>2. n2 = np /\ c2 = h  BY <4>1, <1>6, <1>7, <1>9, <1>11, <1>14
      <4> QED  BY <4>2, <3>1, <3>2, <2>9, <1>12 DEF AtSecond
    <3>3. CASE w.addr % WORD # 0
      <4>1. l \in 1 .. WORD - 1 /\ residue = word.keep - l /\ word.keep > l
        BY <3>3, <2>1, <2>2, <2>7, <1>14
      <4>2. w'.taken \in 1 .. WORD - 1 /\ w'.residue \in 1 .. WORD - w'.taken
        <5> HIDE DEF residue
        <5> QED  BY <4>1, <2>9, <1>7, <1>14
      <4>3. \A j \in 1 .. w'.residue : w'.word.data[w'.taken + j] = cp + j
        <5>1. ASSUME NEW j \in 1 .. word.keep - l PROVE word.data[l + j] = cp + j
          <6>1. l + j \in 1 .. word.keep /\ op + (l + j) = cp + j  BY <1>6, <1>7, <1>11
          <6> QED  BY <6>1, <1>13
        <5>2. w'.word.data = word.data /\ w'.taken = l /\ w'.residue = word.keep - l
          BY <4>1, <2>9
        <5> QED  BY <5>1, <5>2
      <4>4. \/ n2 = np /\ c2 = h + w'.residue /\ c2 < len /\ w'.residue = WORD - w'.taken
            \/ n2 = np + 1 /\ c2 = 0 /\ w'.residue = w'.bbt
        <5>1. w'.residue = word.keep - l /\ w'.taken = l /\ w'.bbt = len - h
          BY <4>1, <2>1, <2>9, <1>11
        <5>2. CASE word.last
          <6>1. word.keep - l = len - h  BY <5>2, <1>6, <1>7, <1>11
          <6> QED  BY <5>1, <5>2, <6>1, <1>7, <1>9
        <5>3. CASE ~word.last
          <6>1. c2 = h + (word.keep - l) /\ c2 < len /\ word.keep = WORD
            BY <5>3, <1>6, <1>7, <1>11, <1>14
          <6> QED  BY <5>1, <5>3, <6>1, <1>7, <1>9
        <5> QED  BY <5>2, <5>3
      <4>5. FirstPart(np)' = h /\ given'[np].len = len  BY <1>7, <1>9, <1>12
      <4> QED  BY <3>1, <3>3, <4>2, <4>3, <4>4, <4>5, <2>9, <1>12 DEF AtSecond, Holds
    <3> QED  BY <3>2, <3>3
  <2>11. AtWriter(np, n2, c2, cp, cp)'  BY <2>9, <2>10 DEF AtWriter
  <2>12. WriteSide(np, n2, c2, cp, cp, ms, mp, me)'
    BY <2>5, <2>11, <1>5, <1>6, <1>7, <1>8, WriteSideMoves
  <2> QED  BY <2>12
<1> QED  BY <1>14, <1>17, <1>18, <1>19

\* WriteSecond: the command for the part at the start of the buffer is put.
LEMMA SecondKeeps ==
    ASSUME WriterSteps, NEW np, NEW n, NEW c, NEW op, NEW cp, NEW ms, NEW mp, NEW me,
           WriteSide(np, n, c, op, cp, ms, mp, me), WriteSecond
    PROVE  \E np2, n2, c2, op2, cp2 : WriteSide(np2, n2, c2, op2, cp2, ms, mp, me)'
<1>1. /\ {n, c, op, cp, ms, mp, me, written} \subseteq Nat
      /\ PushesLeft(np) /\ DataLeft(n, c) /\ AtWriter(np, n, c, op, cp)
      /\ CommandsLeft(me, cp) /\ WordsLeft(mp, op)
  BY DEF WriteSide
<1>2. GivenStays /\ GivenInv /\ start \in Nat /\ start' = start /\ given' = given /\ Sequences
  BY DEF WriterSteps, GivenStays
<1>3. AtSecond(np, n, c, op, cp) /\ WriterTyped  BY <1>1, WriterAt DEF WriteSecond
<1>4. n \in Nat /\ c \in Nat /\ op \in Nat /\ cp \in Nat  BY <1>1
<1>5. /\ np \in DOMAIN given /\ ~given[np].drop /\ Wraps(np)
      /\ w.addr = Place(given[np].from) /\ w.bbt = given[np].len - FirstPart(np)
      /\ op = given[np].from + FirstPart(np) /\ cp = op
  BY <1>3 DEF AtSecond
<1>6. /\ FirstPart(np) \in 1 .. given[np].len /\ FirstPart(np) < given[np].len
      /\ given[np].from \in Nat /\ given[np].len \in Nat
      /\ Kept(np) = given[np].from + given[np].len
  BY <1>2, <1>5, FirstPartFacts, GivenFacts
<1>7. PICK len \in Nat, h \in Nat, from \in Nat, bbt \in Nat, z \in Nat :
         /\ len = given[np].len /\ h = FirstPart(np) /\ from = given[np].from
         /\ bbt = len - h /\ bbt = w.bbt /\ bbt > 0 /\ z = Kept(np)
         /\ op = from + h /\ z = from + len
  <2>1. given[np].len - FirstPart(np) \in Nat /\ given[np].len - FirstPart(np) > 0
    BY <1>6
  <2>2. given[np].from + given[np].len \in Nat  BY <1>6
  <2> QED  BY <1>5, <1>6, <2>1, <2>2
<1>8. op < z /\ z - op = bbt
  <2>1. /\ len \in Nat /\ h \in Nat /\ from \in Nat /\ bbt \in Nat /\ z \in Nat
        /\ bbt = len - h /\ bbt > 0 /\ op = from + h /\ z = from + len
    BY <1>7
  <2> QED  BY <2>1
<1>9. CommandStep(Access(0, bbt), cp, z)
  <2>1. from + h <= op /\ z <= from + len  BY <1>4, <1>7
  <2>2. Unbroken(op, z) /\ WriteEnd(z) /\ Place(op) = op - (from + h) /\ Place(op) + (z - op) <= SPACE
    BY <2>1, <1>2, <1>4, <1>5, <1>7, <1>8, WithinSecond
  <2>3. Place(op) = 0  BY <2>2, <1>4, <1>7
  <2> QED  BY <2>2, <2>3, <1>5, <1>8 DEF CommandStep
<1>10. Transfer({}, To("writeCmd", Access(0, bbt)))  BY <1>7 DEF WriteSecond
<1>11. /\ q'["writeCmd"] = q["writeCmd"] \o <<Access(0, bbt)>>
       /\ \A s \in {"push", "data", "writeData", "status"} : q'[s] = q[s]
  <2> DEFINE v == Access(0, bbt)
  <2>1. Transfer({}, To("writeCmd", v)) /\ "writeCmd" \in BufferStreams
    BY <1>10 DEF BufferStreams
  <2> HIDE DEF v
  <2>2. /\ q'["writeCmd"] = q["writeCmd"] \o <<v>>
        /\ \A s \in BufferStreams \ {"writeCmd"} : q'[s] = q[s]
    BY <2>1, <1>2, PutEffect
  <2> QED  BY <2>2 DEF BufferStreams, v
<1>12. PushesLeft(np)' /\ DataLeft(n, c)' /\ WordsLeft(mp, op)'
  BY <1>1, <1>2, <1>11, PushesStay, DataStays, WordsStay
<1>13. CommandsLeft(me, z)'
  <2>1. 0 \in Nat  OBVIOUS
  <2> QED  BY <2>1, <1>1, <1>2, <1>4, <1>7, <1>9, <1>11, CommandPut
<1>14. /\ FirstPart(np)' = h /\ Wraps(np)' /\ given'[np] = given[np] /\ np \in DOMAIN given'
       /\ Kept(np)' = z
  BY <1>2, <1>5, <1>7, PartsStay
<1>15. Behind(np, op, z)' <=> ~w'.broken
  <2>1. ~given'[np].drop /\ op >= given'[np].from + h /\ z = Kept(np)'
    BY <1>4, <1>5, <1>7, <1>14
  <2> QED  BY <2>1, <1>14 DEF Behind
<1> DEFINE state == IF w.addr % WORD = 0 THEN "aligned"
                    ELSE IF bbt - w.residue > 0 THEN "realign" ELSE "residue"
<1>16. w' = [w EXCEPT !.state = state, !.addr = 0, !.left = bbt, !.broken = FALSE]
  BY <1>7 DEF WriteSecond
<1>17. /\ WriterTyped' /\ w'.state = state /\ w'.broken = FALSE /\ w'.left = bbt
       /\ w'.taken = w.taken /\ w'.residue = w.residue /\ w'.word = w.word
  <2>1. state \in {"aligned", "realign", "residue"}  OBVIOUS
  <2>2. bbt \in Int /\ 0 \in Int  BY <1>7
  <2> HIDE DEF state
  <2> QED  BY <2>1, <2>2, <1>3, <1>16 DEF WriterTyped
<1>18. AtWriter(np, n, c, op, z)' => WriteSide(np, n, c, op, z, ms, mp, me)'
  <2>1. q'["status"] = q["status"]  BY <1>11
  <2> QED  BY <2>1, <1>4, <1>7, <1>12, <1>13, WriteSideMoves
<1>19. CASE w.addr % WORD = 0
  <2>1. n = np /\ c = h  BY <1>3, <1>7, <1>19 DEF AtSecond
  <2>2. c < given'[np].len /\ op = given'[np].from + c  BY <2>1, <1>6, <1>7, <1>14
  <2>3. AtAligned(np, n, c, op, z)'  BY <2>1, <2>2, <1>15, <1>17, <1>19 DEF AtAligned
  <2>4. AtWriter(np, n, c, op, z)'  BY <2>3, <1>17 DEF AtWriter
  <2> QED  BY <2>4, <1>18
<1>20. CASE w.addr % WORD # 0
  <2>1. /\ w.taken \in 1 .. WORD - 1 /\ w.residue \in 1 .. WORD - w.taken
        /\ Holds(w.taken, w.residue, op)
        /\ \/ n = np /\ c = h + w.residue /\ c < len
              /\ w.residue = WORD - w.taken
           \/ n = np + 1 /\ c = 0 /\ w.residue = bbt
    BY <1>3, <1>7, <1>20 DEF AtSecond
  <2>2. PICK t \in Nat, s \in Nat : t = w.taken /\ s = w.residue /\ t \in 1 .. WORD - 1 /\ s \in 1 .. WORD - t
    BY <2>1, WordNat
  <2>3. \A j \in 1 .. s : w.word.data[t + j] = op + j  BY <2>1, <2>2 DEF Holds
  <2>4. CASE n = np /\ c = h + s /\ c < len /\ s = WORD - t
    <3>1. bbt - s > 0 /\ op = from + c - s  BY <2>2, <2>4, <1>4, <1>7
    <3>2. w'.state = "realign"  BY <3>1, <2>2, <1>17, <1>20
    <3>3. AtRealign(np, n, c, op, z)'
      <4>1. c < given'[np].len /\ op = given'[np].from + c - s
        BY <3>1, <2>4, <1>7, <1>14
      <4>2. w'.taken = t /\ w'.residue = s /\ w'.word = w.word /\ w'.left = z - op
        BY <2>2, <1>8, <1>17
      <4> QED  BY <4>1, <4>2, <3>2, <2>2, <2>3, <2>4, <1>15, <1>17 DEF AtRealign, Holds
    <3>4. AtWriter(np, n, c, op, z)'  BY <3>3, <1>17 DEF AtWriter
    <3> QED  BY <3>4, <1>18
  <2>5. CASE n = np + 1 /\ c = 0 /\ s = bbt
    <3>1. ~(bbt - s > 0)  BY <2>2, <2>5
    <3>2. w'.state = "residue"  BY <3>1, <2>2, <1>17, <1>20
    <3>3. AtResidue(np, n, c, op, z)'
      <4>1. w'.taken = t /\ w'.left = s /\ w'.word = w.word /\ w'.left = z - op
        BY <2>2, <2>5, <1>8, <1>17
      <4> QED  BY <4>1, <3>2, <2>2, <2>3, <2>5, <1>15, <1>17 DEF AtResidue, Holds
    <3>4. AtWriter(np, n, c, op, z)'  BY <3>3, <1>17 DEF AtWriter
    <3> QED  BY <3>4, <1>18
  <2> QED  BY <2>1, <2>2, <2>4, <2>5
<1> QED  BY <1>19, <1>20

\* WriteAligned: the end of the buffer was the end of a word.
LEMMA AlignedKeeps ==
    ASSUME WriterSteps, NEW np, NEW n, NEW c, NEW op, NEW cp, NEW ms, NEW mp, NEW me,
           WriteSide(np, n, c, op, cp, ms, mp, me), WriteAligned
    PROVE  \E np2, n2, c2, op2, cp2 : WriteSide(np2, n2, c2, op2, cp2, ms, mp, me)'
<1>1. /\ {n, c, op, cp, ms, mp, me, written} \subseteq Nat
      /\ PushesLeft(np) /\ DataLeft(n, c) /\ AtWriter(np, n, c, op, cp)
      /\ CommandsLeft(me, cp) /\ WordsLeft(mp, op)
  BY DEF WriteSide
<1>2. GivenStays /\ GivenInv /\ start \in Nat /\ start' = start /\ given' = given /\ Sequences
  BY DEF WriterSteps, GivenStays
<1>3. AtAligned(np, n, c, op, cp) /\ WriterTyped  BY <1>1, WriterAt DEF WriteAligned
<1>4. n \in Nat /\ c \in Nat /\ op \in Nat /\ cp \in Nat  BY <1>1
<1>5. Transfer({"data"}, To("writeData", Front("data")))  BY DEF WriteAligned
<1>6. /\ q["data"] # <<>> /\ q'["data"] = Tail(q["data"])
      /\ q'["writeData"] = q["writeData"] \o <<Front("data")>>
      /\ \A s \in {"push", "writeCmd", "status"} : q'[s] = q[s]
  <2> DEFINE v == Front("data")
  <2>1. Transfer({"data"}, To("writeData", v)) /\ "data" \in BufferStreams
        /\ "writeData" \in BufferStreams /\ "data" # "writeData"
    BY <1>5 DEF BufferStreams
  <2> HIDE DEF v
  <2>2. /\ q["data"] # <<>> /\ q'["data"] = Tail(q["data"])
        /\ q'["writeData"] = q["writeData"] \o <<v>>
        /\ \A s \in BufferStreams \ {"data", "writeData"} : q'[s] = q[s]
    BY <2>1, <1>2, TakePutEffect
  <2> QED  BY <2>2 DEF BufferStreams, v
<1>7. PICK word \in AWord, len \in Nat \ {0}, n2 \in Nat, c2 \in Nat :
         /\ word = Front("data") /\ n \in DOMAIN given /\ len = given[n].len /\ c < len
         /\ word.data \in Data /\ word.keep \in 1 .. WORD /\ word.last \in BOOLEAN
         /\ word.last => word.keep = len - c /\ n2 = n + 1 /\ c2 = 0
         /\ ~word.last => word.keep = WORD /\ WORD < len - c /\ n2 = n /\ c2 = c + WORD
         /\ ~given[n].drop => \A j \in 1 .. word.keep : word.data[j] = given[n].from + c + j
         /\ DataLeft(n2, c2)'
  BY <1>1, <1>4, <1>6, WordComes
<1>8. PushesLeft(np)' /\ CommandsLeft(me, cp)'
  BY <1>1, <1>2, <1>6, PushesStay, CommandsStay
<1>9. /\ ~w.broken /\ np \in DOMAIN given /\ ~given[np].drop /\ Wraps(np)
      /\ op >= given[np].from + FirstPart(np) /\ cp = Kept(np)
      /\ n = np /\ op = given[np].from + c
  BY <1>3 DEF AtAligned, Behind
<1>10. /\ FirstPart(np) \in Nat /\ given[np].from \in Nat
       /\ Kept(np) = given[np].from + given[np].len
  BY <1>2, <1>9, FirstPartFacts, GivenFacts
<1>11. PICK from \in Nat, h \in Nat :
          /\ from = given[np].from /\ h = FirstPart(np) /\ len = given[np].len
          /\ op >= from + h /\ op = from + c /\ cp = from + len
  BY <1>7, <1>9, <1>10
<1>12. PICK z \in Nat : z = op + word.keep /\ op < z /\ z <= cp /\ z - op = word.keep
                        /\ (z = cp <=> word.last) /\ (~word.last => z = from + c2)
  <2>1. word.keep \in Nat /\ word.keep > 0 /\ WORD \in Nat  BY <1>7, WordNat
  <2>2. PICK k \in Nat : k = word.keep /\ k > 0  BY <2>1
  <2>3. word.last => k = len - c  BY <2>2, <1>7
  <2>4. ~word.last => k = WORD /\ WORD < len - c /\ c2 = c + k  BY <2>2, <1>7
  <2>5. op = from + c /\ cp = from + len /\ from \in Nat  BY <1>11
  <2>6. op + k \in Nat /\ op < op + k /\ (op + k) - op = k  BY <2>2, <1>4
  <2>7. op + k <= cp /\ (op + k = cp <=> word.last) /\ (~word.last => op + k = from + c2)
    BY <2>1, <2>2, <2>3, <2>4, <2>5, <1>4, <1>7
  <2> QED  BY <2>2, <2>6, <2>7
<1>13. WriteStep(word, op, z)
  <2>1. Unbroken(op, z) /\ (WriteEnd(z) <=> z = cp)
    BY <1>2, <1>4, <1>9, <1>11, <1>12, WithinSecond
  <2>2. \A j \in 1 .. word.keep : word.data[j] = op + j  BY <1>7, <1>9, <1>11
  <2> QED  BY <2>1, <2>2, <1>12 DEF WriteStep
<1>14. WordsLeft(mp, z)'  BY <1>1, <1>2, <1>4, <1>6, <1>7, <1>13, WordPut
<1>15. w' = [w EXCEPT !.word = word, !.state = IF word.last THEN "command" ELSE w.state]
  BY <1>7 DEF WriteAligned
<1>16. /\ WriterTyped' /\ w'.broken = w.broken
       /\ w'.state = IF word.last THEN "command" ELSE w.state
  BY <1>3, <1>7, <1>15 DEF WriterTyped
<1>17. /\ FirstPart(np)' = h /\ Wraps(np)' /\ given'[np] = given[np] /\ np \in DOMAIN given'
       /\ Kept(np)' = cp
  BY <1>2, <1>9, <1>11, PartsStay
<1>18. CASE word.last
  <2>1. AtCommand(np, n2, c2, z, cp)'
    BY <1>7, <1>9, <1>12, <1>16, <1>17, <1>18 DEF AtCommand
  <2> QED
    BY <2>1, <1>4, <1>6, <1>7, <1>8, <1>12, <1>14, <1>16, WriteSideMoves DEF AtWriter
<1>19. CASE ~word.last
  <2>1. n2 = np /\ c2 < given'[np].len /\ z = given'[np].from + c2
    <3>1. c2 = c + WORD /\ WORD < len - c /\ n2 = np  BY <1>7, <1>9, <1>19
    <3>2. c2 < len  BY <3>1, <1>4, <1>7, WordNat
    <3> QED  BY <3>1, <3>2, <1>11, <1>12, <1>17, <1>19
  <2>2. z >= given'[np].from + h
    <3>1. op >= from + h /\ from = given'[np].from  BY <1>11, <1>17
    <3> QED  BY <3>1, <1>4, <1>12
  <2>3. AtAligned(np, n2, c2, z, cp)'
    <3>1. w'.state = "aligned"  BY <1>16, <1>19 DEF WriteAligned
    <3> QED  BY <2>1, <2>2, <3>1, <1>9, <1>16, <1>17 DEF AtAligned, Behind
  <2> QED
    BY <2>3, <1>4, <1>6, <1>7, <1>8, <1>12, <1>14, <1>16, WriteSideMoves DEF AtWriter
<1> QED  BY <1>18, <1>19

\* WriteRealigned: each word is made of the rest of one and the start of the next.
LEMMA RealignedKeeps ==
    ASSUME WriterSteps, NEW np, NEW n, NEW c, NEW op, NEW cp, NEW ms, NEW mp, NEW me,
           WriteSide(np, n, c, op, cp, ms, mp, me), WriteRealigned
    PROVE  \E np2, n2, c2, op2, cp2 : WriteSide(np2, n2, c2, op2, cp2, ms, mp, me)'
<1>1. /\ {n, c, op, cp, ms, mp, me, written} \subseteq Nat
      /\ PushesLeft(np) /\ DataLeft(n, c) /\ AtWriter(np, n, c, op, cp)
      /\ CommandsLeft(me, cp) /\ WordsLeft(mp, op)
  BY DEF WriteSide
<1>2. GivenStays /\ GivenInv /\ start \in Nat /\ start' = start /\ given' = given /\ Sequences
  BY DEF WriterSteps, GivenStays
<1>3. AtRealign(np, n, c, op, cp) /\ WriterTyped  BY <1>1, WriterAt DEF WriteRealigned
<1>4. n \in Nat /\ c \in Nat /\ op \in Nat /\ cp \in Nat  BY <1>1
<1> DEFINE joined(word) == Join(Rest(w.word.data, w.taken), word.data)
           done(word) == word.last /\ ~(w.left - w.residue > w.taken)
           put(word) == AxiWord(joined(word), IF done(word) THEN w.left ELSE WORD, done(word))
<1>5. Transfer({"data"}, To("writeData", put(Front("data"))))  BY DEF WriteRealigned
<1>6. /\ q["data"] # <<>> /\ q'["data"] = Tail(q["data"])
      /\ q'["writeData"] = q["writeData"] \o <<put(Front("data"))>>
      /\ \A s \in {"push", "writeCmd", "status"} : q'[s] = q[s]
  <2> DEFINE v == put(Front("data"))
  <2>1. Transfer({"data"}, To("writeData", v)) /\ "data" \in BufferStreams
        /\ "writeData" \in BufferStreams /\ "data" # "writeData"
    BY <1>5 DEF BufferStreams
  <2> HIDE DEF v
  <2>2. /\ q["data"] # <<>> /\ q'["data"] = Tail(q["data"])
        /\ q'["writeData"] = q["writeData"] \o <<v>>
        /\ \A s \in BufferStreams \ {"data", "writeData"} : q'[s] = q[s]
    BY <2>1, <1>2, TakePutEffect
  <2> QED  BY <2>2 DEF BufferStreams, v
<1>7. PICK word \in AWord, len \in Nat \ {0}, n2 \in Nat, c2 \in Nat :
         /\ word = Front("data") /\ n \in DOMAIN given /\ len = given[n].len /\ c < len
         /\ word.data \in Data /\ word.keep \in 1 .. WORD /\ word.last \in BOOLEAN
         /\ word.last => word.keep = len - c /\ n2 = n + 1 /\ c2 = 0
         /\ ~word.last => word.keep = WORD /\ WORD < len - c /\ n2 = n /\ c2 = c + WORD
         /\ ~given[n].drop => \A j \in 1 .. word.keep : word.data[j] = given[n].from + c + j
         /\ DataLeft(n2, c2)'
  BY <1>1, <1>4, <1>6, WordComes
<1>8. PushesLeft(np)' /\ CommandsLeft(me, cp)'
  BY <1>1, <1>2, <1>6, PushesStay, CommandsStay
<1>9. /\ w.state = "realign" /\ ~w.broken /\ np \in DOMAIN given /\ ~given[np].drop /\ Wraps(np)
      /\ op >= given[np].from + FirstPart(np) /\ cp = Kept(np)
      /\ n = np /\ w.taken \in 1 .. WORD - 1 /\ w.residue = WORD - w.taken
      /\ Holds(w.taken, w.residue, op)
      /\ op = given[np].from + c - w.residue /\ w.left = cp - op
  BY <1>3 DEF AtRealign, Behind
<1>10. /\ FirstPart(np) \in Nat /\ given[np].from \in Nat
       /\ Kept(np) = given[np].from + given[np].len
  BY <1>2, <1>9, FirstPartFacts, GivenFacts
<1>11. PICK from \in Nat, h \in Nat, t \in Nat, s \in Nat, k \in Nat, l \in Nat :
          /\ from = given[np].from /\ h = FirstPart(np) /\ len = given[np].len
          /\ t = w.taken /\ s = w.residue /\ k = word.keep /\ l = w.left
          /\ t \in 1 .. WORD - 1 /\ s = WORD - t /\ t + s = WORD /\ s > 0
          /\ op >= from + h /\ op = from + c - s /\ cp = from + len
          /\ l = cp - op /\ l = len - c + s
  <2>1. WORD - w.taken \in Nat /\ WORD - w.taken > 0 /\ w.taken + (WORD - w.taken) = WORD /\ w.taken \in Nat
    BY <1>9, WordNat
  <2>2. word.keep \in Nat  BY <1>7, WordNat
  <2>3. len = given[np].len  BY <1>7, <1>9
  <2>4. cp - op \in Nat /\ cp - op = len - c + (WORD - w.taken)
    BY <2>1, <2>3, <1>4, <1>7, <1>9, <1>10
  <2> QED  BY <2>1, <2>2, <2>3, <2>4, <1>9, <1>10
<1>12. /\ c \in Nat /\ len \in Nat /\ from \in Nat /\ t \in Nat /\ s \in Nat /\ k \in Nat /\ l \in Nat
       /\ t + s = WORD /\ s > 0 /\ t > 0 /\ c < len /\ k > 0 /\ k <= WORD
       /\ op + s = from + c /\ cp = from + len /\ l = len - c + s /\ cp = op + l
       /\ (word.last => k = len - c) /\ (~word.last => k = WORD /\ WORD < len - c)
       /\ l - s = len - c
  <2>1. t > 0  BY <1>11
  <2>2. k > 0 /\ k <= WORD  BY <1>7, <1>11
  <2>3. op + s = from + c  BY <1>4, <1>11
  <2>4. cp = op + l /\ l - s = len - c  BY <1>4, <1>7, <1>11
  <2> QED  BY <2>1, <2>2, <2>3, <2>4, <1>4, <1>7, <1>11
<1>13. /\ joined(word) \in Data
       /\ \A j \in 1 .. WORD : joined(word)[j] = IF j <= s THEN w.word.data[t + j] ELSE word.data[j - s]
  <2> DEFINE low == Rest(w.word.data, t)
  <2>1. w.word.data \in Data /\ t \in 0 .. WORD
    <3>1. w.word \in AWord  BY <1>3 DEF WriterTyped
    <3> QED  BY <3>1, <1>12, WordParts
  <2>2. low \in Seq(Int) /\ Len(low) = s /\ \A j \in 1 .. s : low[j] = w.word.data[t + j]
    <3>1. WORD - t = s  BY <1>12
    <3> QED  BY <3>1, <2>1, RestOf
  <2>3. joined(word) = Join(low, word.data)  BY <1>11
  <2> HIDE DEF low, joined
  <2>4. Len(low) <= WORD  BY <2>2, <1>12
  <2>5. /\ Join(low, word.data) \in Data
        /\ \A j \in 1 .. WORD : Join(low, word.data)[j] = IF j <= Len(low) THEN low[j]
                                                          ELSE word.data[j - Len(low)]
    BY <2>2, <2>4, <1>7, JoinOf
  <2>6. ASSUME NEW j \in 1 .. WORD
        PROVE  Join(low, word.data)[j] = IF j <= s THEN w.word.data[t + j] ELSE word.data[j - s]
    <3>1. Join(low, word.data)[j] = IF j <= s THEN low[j] ELSE word.data[j - s]
      BY <2>2, <2>5
    <3>2. j <= s => low[j] = w.word.data[t + j]  BY <2>2
    <3> QED  BY <3>1, <3>2
  <2> QED  BY <2>3, <2>5, <2>6
<1>14. /\ \A j \in 1 .. s : w.word.data[t + j] = op + j
       /\ \A j \in 1 .. k : word.data[j] = op + s + j
  <2>1. \A j \in 1 .. s : w.word.data[t + j] = op + j  BY <1>9, <1>11 DEF Holds
  <2>2. \A j \in 1 .. k : word.data[j] = from + c + j  BY <1>7, <1>9, <1>11
  <2> QED  BY <2>1, <2>2, <1>12
<1>15. ASSUME NEW j \in 1 .. WORD, j <= s + k PROVE joined(word)[j] = op + j
  <2>1. CASE j <= s  BY <2>1, <1>13, <1>14
  <2>2. CASE ~(j <= s)
    <3>1. j - s \in 1 .. k /\ op + s + (j - s) = op + j
      BY <2>2, <1>4, <1>12, <1>15, WordNat
    <3>2. word.data[j - s] = op + s + (j - s)  BY <3>1, <1>14
    <3> QED  BY <3>1, <3>2, <2>2, <1>13
  <2> QED  BY <2>1, <2>2
<1>16. done(word) <=> word.last /\ len - c <= t
  BY <1>11, <1>12
<1>17. /\ FirstPart(np)' = h /\ Wraps(np)' /\ given'[np] = given[np] /\ np \in DOMAIN given'
       /\ Kept(np)' = cp
  BY <1>2, <1>9, <1>11, PartsStay
<1>18. ASSUME NEW z \in Nat, op < z, z <= cp
       PROVE  Unbroken(op, z) /\ (WriteEnd(z) <=> z = cp)
  BY <1>18, <1>2, <1>4, <1>9, <1>11, WithinSecond
<1>19. w' = [w EXCEPT !.word = word, !.left = IF done(word) THEN w.left ELSE w.left - WORD,
                      !.state = IF done(word) THEN "command"
                                ELSE IF word.last THEN "residue" ELSE w.state]
  BY <1>7 DEF WriteRealigned
<1>20. CASE done(word)
  <2>1. word.last /\ len - c <= t /\ k = len - c /\ l = s + k /\ l <= WORD /\ l > 0
    BY <1>12, <1>16, <1>20, <1>4
  <2>2. PICK v \in AWord : v = put(word) /\ v.data = joined(word) /\ v.keep = l /\ v.last = TRUE
    <3>1. put(word) = AxiWord(joined(word), l, TRUE)  BY <1>11, <1>20
    <3>2. l \in 0 .. WORD /\ TRUE \in BOOLEAN  BY <2>1, <1>12
    <3> HIDE DEF put, joined, done
    <3> QED  BY <3>1, <3>2, <1>13, AxiWordOf
  <2>3. WriteStep(v, op, cp)
    <3>1. op < cp /\ cp <= cp /\ cp - op = l  BY <2>1, <1>4, <1>12
    <3>2. Unbroken(op, cp) /\ WriteEnd(cp)  BY <3>1, <1>4, <1>18
    <3>3. \A j \in 1 .. l : v.data[j] = op + j
      <4> HIDE DEF joined
      <4> QED  BY <2>1, <2>2, <1>12, <1>15
    <3> QED  BY <3>1, <3>2, <3>3, <2>2 DEF WriteStep
  <2>4. WordsLeft(mp, cp)'
    <3>1. q'["writeData"] = q["writeData"] \o <<v>>  BY <2>2, <1>6, <1>7
    <3> QED  BY <3>1, <2>3, <1>1, <1>2, <1>4, WordPut
  <2>5. w' = [w EXCEPT !.word = word, !.left = l, !.state = "command"]
    BY <1>11, <1>19, <1>20
  <2>6. WriterTyped' /\ w'.state = "command" /\ w'.broken = w.broken
    <3>1. l \in Int  BY <1>12
    <3> QED  BY <3>1, <2>5, <1>3, <1>7 DEF WriterTyped
  <2>7. AtCommand(np, n2, c2, cp, cp)'  BY <2>1, <2>6, <1>7, <1>9, <1>17 DEF AtCommand
  <2>8. AtWriter(np, n2, c2, cp, cp)'  BY <2>6, <2>7 DEF AtWriter
  <2>9. q'["status"] = q["status"]  BY <1>6
  <2>10. WriteSide(np, n2, c2, cp, cp, ms, mp, me)'
    BY <2>4, <2>8, <2>9, <1>4, <1>7, <1>8, WriteSideMoves
  <2> QED  BY <2>10
<1>21. CASE ~done(word)
  <2>1. len - c > t /\ s + k >= WORD
    <3>1. word.last => ~(len - c <= t)  BY <1>16, <1>21
    <3> QED  BY <3>1, <1>12, <1>4
  <2>2. PICK v \in AWord : v = put(word) /\ v.data = joined(word) /\ v.keep = WORD /\ v.last = FALSE
    <3>1. put(word) = AxiWord(joined(word), WORD, FALSE)  BY <1>21
    <3> HIDE DEF put, joined, done
    <3> DEFINE data == joined(word)
               last == FALSE
    <3>2. WORD \in 0 .. WORD /\ last \in BOOLEAN /\ data \in Data /\ put(word) = AxiWord(data, WORD, last)
      BY <3>1, <1>13, WordNat
    <3> HIDE DEF data, last
    <3>3. put(word) \in AWord /\ put(word).data = data /\ put(word).keep = WORD /\ put(word).last = last
      BY <3>2, AxiWordOf
    <3> QED  BY <3>3 DEF data, last
  <2>3. PICK z \in Nat : z = op + WORD /\ op < z /\ z < cp /\ z - op = WORD /\ z = op + s + t
    <3>1. op + WORD \in Nat /\ op < op + WORD /\ op + WORD < cp /\ (op + WORD) - op = WORD
          /\ op + WORD = op + s + t
      BY <2>1, <1>4, <1>12, WordNat
    <3> QED  BY <3>1
  <2>4. WriteStep(v, op, z)
    <3>1. z <= cp /\ z # cp  BY <2>3, <1>4
    <3>2. Unbroken(op, z) /\ ~WriteEnd(z)  BY <3>1, <2>3, <1>18
    <3>3. \A j \in 1 .. WORD : v.data[j] = op + j
      <4>1. \A j \in 1 .. WORD : j <= s + k  BY <2>1, <1>12, WordNat
      <4> HIDE DEF joined
      <4> QED  BY <4>1, <2>2, <1>15
    <3> QED  BY <3>2, <3>3, <2>2, <2>3 DEF WriteStep
  <2>5. WordsLeft(mp, z)'
    <3>1. q'["writeData"] = q["writeData"] \o <<v>>  BY <2>2, <1>6, <1>7
    <3> QED  BY <3>1, <2>3, <2>4, <1>1, <1>2, <1>4, WordPut
  <2>6. PICK l2 \in Nat : l2 = l - WORD /\ l2 = cp - z /\ l2 > 0
    <3>1. l - WORD \in Nat /\ l - WORD = cp - z /\ l - WORD > 0
      BY <2>1, <2>3, <1>4, <1>12
    <3> QED  BY <3>1
  <2> DEFINE state == IF word.last THEN "residue" ELSE "realign"
  <2>7. w' = [w EXCEPT !.word = word, !.left = l2, !.state = state]
    BY <2>6, <1>9, <1>11, <1>19, <1>21
  <2>8. /\ WriterTyped' /\ w'.state = state /\ w'.broken = w.broken /\ w'.left = l2
        /\ w'.taken = w.taken /\ w'.residue = w.residue /\ w'.word = word
    <3>1. l2 \in Int /\ state \in {"residue", "realign"}  BY <2>6
    <3> HIDE DEF state
    <3> QED  BY <3>1, <2>7, <1>3, <1>7 DEF WriterTyped
  <2>9. Behind(np, z, cp)'
    <3>1. z >= given'[np].from + h
      <4>1. op >= from + h /\ from + h \in Nat  BY <1>11
      <4>2. z >= from + h  BY <4>1, <2>3, <1>4
      <4> QED  BY <4>2, <1>11, <1>17
    <3> QED  BY <3>1, <2>8, <1>9, <1>17 DEF Behind
  <2>10. ASSUME NEW j \in Nat \ {0}, t + j <= k PROVE word.data[t + j] = z + j
    <3>1. t + j \in 1 .. k /\ op + s + (t + j) = z + j  BY <2>3, <2>10, <1>4, <1>12
    <3> QED  BY <3>1, <1>14
  <2>11. CASE word.last
    <3>1. w'.state = "residue" /\ n2 = np + 1 /\ c2 = 0  BY <2>8, <2>11, <1>7, <1>9
    <3>2. t + l2 = k
      <4>1. k = len - c  BY <2>11, <1>12
      <4> QED  BY <4>1, <2>6, <1>4, <1>12
    <3>3. l2 \in 1 .. WORD - t  BY <3>2, <2>6, <1>12
    <3>4. \A j \in 1 .. l2 : word.data[t + j] = z + j
      <4>1. \A j \in 1 .. l2 : j \in Nat \ {0} /\ t + j <= k  BY <3>2, <2>6, <1>12
      <4> QED  BY <4>1, <2>10
    <3>5. w'.taken = t /\ w'.left = l2 /\ w'.word = word  BY <2>8, <1>11
    <3>6. AtResidue(np, n2, c2, z, cp)'
      BY <3>1, <3>3, <3>4, <3>5, <2>6, <2>9, <1>11 DEF AtResidue, Holds
    <3>7. AtWriter(np, n2, c2, z, cp)'  BY <3>6, <2>8 DEF AtWriter
    <3>8. q'["status"] = q["status"]  BY <1>6
    <3>9. WriteSide(np, n2, c2, z, cp, ms, mp, me)'
      BY <3>7, <3>8, <2>3, <2>5, <1>4, <1>7, <1>8, WriteSideMoves
    <3> QED  BY <3>9
  <2>12. CASE ~word.last
    <3>1. w'.state = "realign" /\ n2 = np /\ c2 = c + WORD /\ k = WORD /\ WORD < len - c
      BY <2>8, <2>12, <1>7, <1>9, <1>11
    <3>2. c2 < len /\ z = from + c2 - s
      BY <3>1, <2>3, <1>4, <1>12, WordNat
    <3>3. \A j \in 1 .. s : word.data[t + j] = z + j
      <4>1. \A j \in 1 .. s : j \in Nat \ {0} /\ t + j <= k  BY <3>1, <1>12
      <4> QED  BY <4>1, <2>10
    <3>4. w'.taken = t /\ w'.residue = s /\ w'.left = l2 /\ w'.word = word
      BY <2>8, <1>11
    <3>5. given'[np].len = len /\ given'[np].from = from  BY <1>11, <1>17
    <3>6. AtRealign(np, n2, c2, z, cp)'
      BY <3>1, <3>2, <3>3, <3>4, <3>5, <2>6, <2>9, <1>11 DEF AtRealign, Holds
    <3>7. AtWriter(np, n2, c2, z, cp)'  BY <3>6, <2>8 DEF AtWriter
    <3>8. q'["status"] = q["status"]  BY <1>6
    <3>9. WriteSide(np, n2, c2, z, cp, ms, mp, me)'
      BY <3>7, <3>8, <2>3, <2>5, <1>4, <1>7, <1>8, WriteSideMoves
    <3> QED  BY <3>9
  <2> QED  BY <2>11, <2>12
<1> QED  BY <1>20, <1>21

\* WriteResidue: what is left of the last word is put.
LEMMA ResidueKeeps ==
    ASSUME WriterSteps, NEW np, NEW n, NEW c, NEW op, NEW cp, NEW ms, NEW mp, NEW me,
           WriteSide(np, n, c, op, cp, ms, mp, me), WriteResidue
    PROVE  \E np2, n2, c2, op2, cp2 : WriteSide(np2, n2, c2, op2, cp2, ms, mp, me)'
<1>1. /\ {n, c, op, cp, ms, mp, me, written} \subseteq Nat
      /\ PushesLeft(np) /\ DataLeft(n, c) /\ AtWriter(np, n, c, op, cp)
      /\ CommandsLeft(me, cp) /\ WordsLeft(mp, op)
  BY DEF WriteSide
<1>2. GivenStays /\ GivenInv /\ start \in Nat /\ start' = start /\ given' = given /\ Sequences
  BY DEF WriterSteps, GivenStays
<1>3. AtResidue(np, n, c, op, cp) /\ WriterTyped  BY <1>1, WriterAt DEF WriteResidue
<1>4. n \in Nat /\ c \in Nat /\ op \in Nat /\ cp \in Nat  BY <1>1
<1>5. /\ ~w.broken /\ np \in DOMAIN given /\ ~given[np].drop /\ Wraps(np)
      /\ op >= given[np].from + FirstPart(np) /\ cp = Kept(np)
      /\ n = np + 1 /\ c = 0
      /\ w.taken \in 1 .. WORD - 1 /\ w.left = cp - op /\ w.left \in 1 .. WORD - w.taken
      /\ \A j \in 1 .. w.left : w.word.data[w.taken + j] = op + j
  BY <1>3 DEF AtResidue, Behind, Holds
<1>6. PICK t \in Nat, l \in Nat :
         t = w.taken /\ l = w.left /\ t \in 1 .. WORD - 1 /\ l \in 1 .. WORD - t /\ l = cp - op
  BY <1>5, WordNat
<1> DEFINE data == Pad(Rest(w.word.data, t))
<1>7. data \in Data /\ \A j \in 1 .. l : data[j] = op + j
  <2> DEFINE low == Rest(w.word.data, t)
  <2>1. w.word.data \in Data /\ t \in 0 .. WORD
    <3>1. w.word \in AWord  BY <1>3 DEF WriterTyped
    <3> QED  BY <3>1, <1>6, WordParts, WordNat
  <2>2. low \in Seq(Int) /\ Len(low) = WORD - t /\ \A j \in 1 .. WORD - t : low[j] = w.word.data[t + j]
    BY <2>1, RestOf
  <2>3. data = Pad(low)  OBVIOUS
  <2> HIDE DEF low, data
  <2>4. /\ Pad(low) \in Data
        /\ \A j \in 1 .. WORD : Pad(low)[j] = IF j <= Len(low) THEN low[j] ELSE Junk
    BY <2>2, PadOf
  <2>5. ASSUME NEW j \in 1 .. l PROVE Pad(low)[j] = op + j
    <3>1. j \in 1 .. WORD /\ j \in 1 .. WORD - t /\ j <= WORD - t  BY <1>6, WordNat
    <3>2. w.word.data[t + j] = op + j  BY <1>5, <1>6
    <3> QED  BY <3>1, <3>2, <2>2, <2>4
  <2> QED  BY <2>3, <2>4, <2>5
<1>8. PICK v \in AWord : v = AxiWord(data, l, TRUE) /\ v.data = data /\ v.keep = l /\ v.last = TRUE
  <2>1. l \in 0 .. WORD /\ TRUE \in BOOLEAN  BY <1>6, WordNat
  <2> HIDE DEF data
  <2> QED  BY <2>1, <1>7, AxiWordOf
<1>9. Transfer({}, To("writeData", v))  BY <1>6, <1>8 DEF WriteResidue
<1>10. /\ q'["writeData"] = q["writeData"] \o <<v>>
       /\ \A s \in {"push", "data", "writeCmd", "status"} : q'[s] = q[s]
  <2>1. "writeData" \in BufferStreams  BY DEF BufferStreams
  <2>2. /\ q'["writeData"] = q["writeData"] \o <<v>>
        /\ \A s \in BufferStreams \ {"writeData"} : q'[s] = q[s]
    BY <2>1, <1>2, <1>9, PutEffect
  <2> QED  BY <2>2 DEF BufferStreams
<1>11. PushesLeft(np)' /\ DataLeft(n, c)' /\ CommandsLeft(me, cp)'
  BY <1>1, <1>2, <1>10, PushesStay, DataStays, CommandsStay
<1>12. WriteStep(v, op, cp)
  <2>1. op < cp /\ cp - op = l  BY <1>4, <1>6
  <2>2. /\ FirstPart(np) \in Nat /\ given[np].from \in Nat
        /\ Kept(np) = given[np].from + given[np].len /\ given[np].len \in Nat
    BY <1>2, <1>5, FirstPartFacts, GivenFacts
  <2>3. given[np].from + FirstPart(np) <= op /\ cp <= given[np].from + given[np].len
    BY <2>2, <1>4, <1>5
  <2>4. Unbroken(op, cp) /\ WriteEnd(cp)
    BY <2>1, <2>2, <2>3, <1>2, <1>4, <1>5, WithinSecond
  <2> HIDE DEF data
  <2>5. \A j \in 1 .. l : v.data[j] = op + j  BY <1>7, <1>8
  <2> QED  BY <2>1, <2>4, <2>5, <1>8 DEF WriteStep
<1>13. WordsLeft(mp, cp)'  BY <1>1, <1>2, <1>4, <1>10, <1>12, WordPut
<1>14. w' = [w EXCEPT !.state = "command"]  BY DEF WriteResidue
<1>15. WriterTyped' /\ w'.state = "command" /\ w'.broken = w.broken
  BY <1>3, <1>14 DEF WriterTyped
<1>16. Kept(np)' = cp  BY <1>2, <1>5, PartsStay
<1>17. AtCommand(np, n, c, cp, cp)'  BY <1>5, <1>15, <1>16 DEF AtCommand
<1>18. AtWriter(np, n, c, cp, cp)'  BY <1>15, <1>17 DEF AtWriter
<1>19. q'["status"] = q["status"]  BY <1>10
<1>20. WriteSide(np, n, c, cp, cp, ms, mp, me)'
  BY <1>4, <1>11, <1>13, <1>18, <1>19, WriteSideMoves
<1> QED  BY <1>20

\* Every step of the writer.
LEMMA WriterKeeps ==
    ASSUME WriterSteps, NEW np, NEW n, NEW c, NEW op, NEW cp, NEW ms, NEW mp, NEW me,
           WriteSide(np, n, c, op, cp, ms, mp, me), Writer
    PROVE  \E np2, n2, c2, op2, cp2 : WriteSide(np2, n2, c2, op2, cp2, ms, mp, me)'
<1>1. CASE WriteCommand  BY <1>1, WriteCommandKeeps
<1>2. CASE WriteFirst  BY <1>2, DroppedKeeps, FirstKeeps
<1>3. CASE WriteSecond  BY <1>3, SecondKeeps
<1>4. CASE WriteAligned  BY <1>4, AlignedKeeps
<1>5. CASE WriteRealigned  BY <1>5, RealignedKeeps
<1>6. CASE WriteResidue  BY <1>6, ResidueKeeps
<1> QED  BY <1>1, <1>2, <1>3, <1>4, <1>5, <1>6 DEF Writer

-----------------------------------------------------------------------------
(***************************************************************************)
(* The data mover, and the answers it gives.                               *)
(***************************************************************************)
\* The data mover takes a step, or the application or metaLoader does.
MoverSteps == GivenStays /\ given' = given /\ w' = w /\ written' = written /\ Sequences

\* The word that comes next to the data mover.
LEMMA MoverWord ==
    ASSUME start \in Nat, NEW ms \in Nat, NEW mp \in Nat, NEW me \in Nat, AtMover(ms, mp, me),
           mover # Idle, NEW word \in AWord, NEW z \in Nat, WriteStep(word, mp, z)
    PROVE  /\ CommandStep(Access(mover.addr, mover.len), ms, me)
           /\ mover = [addr |-> Place(ms), len |-> me - ms, done |-> mp - ms]
           /\ ms <= mp /\ mp < z /\ z <= me /\ z <= Total
           /\ word.keep = z - mp /\ (word.last <=> z = me)
           /\ \A j \in 1 .. z - mp : word.data[j] = mp + j
           /\ Place(mp) = Place(ms) + (mp - ms) /\ Place(mp) + (z - mp) <= SPACE
<1>1. /\ CommandStep(Access(mover.addr, mover.len), ms, me) /\ ms <= mp /\ mp < me
      /\ mover = [addr |-> Place(ms), len |-> me - ms, done |-> mp - ms]
  BY DEF AtMover
<1>2. /\ me <= Total /\ \A p \in ms + 1 .. me - 1 : ~WriteEnd(p)
      /\ WriteEnd(me) /\ Place(ms) + (me - ms) <= SPACE
  BY <1>1 DEF CommandStep, Unbroken
<1>3. /\ mp < z /\ z <= Total /\ \A p \in mp + 1 .. z - 1 : ~WriteEnd(p)
      /\ (word.last <=> WriteEnd(z)) /\ word.keep = z - mp
      /\ \A j \in 1 .. z - mp : word.data[j] = mp + j
  BY DEF WriteStep, Unbroken
<1>4. z <= me
  <2>1. z > me => me \in mp + 1 .. z - 1  BY <1>1
  <2> QED  BY <2>1, <1>2, <1>3
<1>5. word.last <=> z = me
  <2>1. z < me => z \in ms + 1 .. me - 1  BY <1>1, <1>3
  <2>2. z < me => ~WriteEnd(z)  BY <2>1, <1>2
  <2> QED  BY <2>2, <1>2, <1>3, <1>4
<1>6. Place(ms) \in 0 .. SPACE - 1 /\ SPACE \in Nat  BY PlaceType, SpaceNat
<1>7. PICK k \in Nat : k = mp - ms /\ ms + k = mp  BY <1>1
<1>8. Place(ms) + k < SPACE  BY <1>1, <1>2, <1>6, <1>7
<1>9. Place(ms + k) = Place(ms) + k  BY <1>8, PlaceNext
<1>10. Place(mp) = Place(ms) + (mp - ms)  BY <1>7, <1>9
<1>11. Place(mp) + (z - mp) <= SPACE  BY <1>1, <1>2, <1>3, <1>4, <1>6, <1>10
<1> QED  BY <1>1, <1>3, <1>4, <1>5, <1>10, <1>11

\* An access ends with the word that ends it: the property AccessExact.
LEMMA ExactStep ==
    ASSUME start \in Nat, NEW np, NEW n, NEW c, NEW op, NEW cp, NEW ms, NEW mp, NEW me,
           WriteSide(np, n, c, op, cp, ms, mp, me)
    PROVE  AccessExact
<1>1. {ms, mp, me} \subseteq Nat /\ WordsLeft(mp, op) /\ AtMover(ms, mp, me)
  BY DEF WriteSide
<1>2. SUFFICES ASSUME mover # Idle, q["writeData"] # <<>>
               PROVE  /\ Head(q["writeData"]).keep \in 1 .. mover.len - mover.done
                      /\ Head(q["writeData"]).last
                            <=> Head(q["writeData"]).keep = mover.len - mover.done
  BY DEF AccessExact, Has, Front
<1>3. PICK word \in AWord : word = Head(q["writeData"])
  BY <1>1, <1>2, ChainTail DEF WordsLeft
<1>4. PICK z : <<word, mp, z>> \in WriteSteps
  BY <1>1, <1>2, <1>3, ChainTail DEF WordsLeft
<1>5. z \in Nat /\ WriteStep(word, mp, z)  BY <1>4 DEF WriteSteps
<1>6. /\ mover = [addr |-> Place(ms), len |-> me - ms, done |-> mp - ms]
      /\ ms <= mp /\ mp < z /\ z <= me /\ word.keep = z - mp /\ (word.last <=> z = me)
  BY <1>1, <1>2, <1>5, MoverWord
<1>7. mover.len - mover.done = me - mp  BY <1>1, <1>6
<1> QED  BY <1>1, <1>3, <1>5, <1>6, <1>7

\* MemCommand: the data mover takes the next command.
LEMMA MemCommandKeeps ==
    ASSUME MoverSteps, NEW np, NEW n, NEW c, NEW op, NEW cp, NEW ms, NEW mp, NEW me,
           WriteSide(np, n, c, op, cp, ms, mp, me), MemCommand
    PROVE  \E z : WriteSide(np, n, c, op, cp, ms, mp, z)'
<1>1. /\ {n, c, op, cp, ms, mp, me, written} \subseteq Nat
      /\ PushesLeft(np) /\ DataLeft(n, c) /\ AtWriter(np, n, c, op, cp)
      /\ CommandsLeft(me, cp) /\ WordsLeft(mp, op) /\ AtMover(ms, mp, me) /\ AnswersLeft(ms)
  BY DEF WriteSide
<1>2. GivenStays /\ GivenInv /\ start \in Nat /\ start' = start /\ given' = given /\ Sequences
      /\ w' = w /\ written' = written
  BY DEF MoverSteps, GivenStays
<1>3. n \in Nat /\ c \in Nat /\ op \in Nat /\ cp \in Nat /\ ms \in Nat /\ mp \in Nat /\ me \in Nat
      /\ written \in Nat
  BY <1>1
<1>4. mp = ms /\ me = ms
  <2>1. mover = Idle  BY DEF MemCommand
  <2>2. mover = [addr |-> Place(ms), len |-> me - ms, done |-> mp - ms] => me - ms = 0
    BY <2>1 DEF Idle
  <2> QED  BY <2>2, <1>1, <1>3 DEF AtMover
<1>5. Transfer({"writeCmd"}, Silent)  BY DEF MemCommand
<1>6. /\ q["writeCmd"] # <<>> /\ q'["writeCmd"] = Tail(q["writeCmd"])
      /\ \A s \in {"push", "data", "writeData", "status"} : q'[s] = q[s]
  BY <1>2, <1>5, TakeEffect DEF BufferStreams
<1>7. PICK z \in Nat : CommandStep(Front("writeCmd"), me, z) /\ CommandsLeft(z, cp)'
  BY <1>1, <1>2, <1>6, CommandTaken
<1>8. PICK cmd \in ACommand : cmd = Front("writeCmd")  BY <1>1, <1>2, <1>6, CommandTaken
<1>9. ms < z /\ cmd = Access(Place(ms), z - ms)
  BY <1>3, <1>4, <1>7, <1>8 DEF CommandStep, Unbroken
<1>10. mover' = [addr |-> cmd.addr, len |-> cmd.len, done |-> 0]  BY <1>8 DEF MemCommand
<1>11. AtMover(ms, mp, z)'
  <2>1. <<cmd, ms, z>> \in CommandSteps  BY <1>3, <1>4, <1>7, <1>8 DEF CommandSteps
  <2>2. <<cmd, ms, z>> \in CommandSteps'  BY <2>1, <1>2, StepsStay
  <2>3. CommandStep(cmd, ms, z)'  BY <2>2 DEF CommandSteps
  <2>4. cmd = Access(mover'.addr, mover'.len)  BY <1>8, <1>10 DEF ACommand, Access
  <2>5. mover' = [addr |-> Place(ms)', len |-> z - ms, done |-> mp - ms]
    <3>1. Place(ms)' = Place(ms)  BY <1>2, PlaceStays
    <3>2. mp - ms = 0  BY <1>3, <1>4
    <3> QED  BY <3>1, <3>2, <1>9, <1>10 DEF Access
  <2>6. CommandStep(Access(mover.addr, mover.len), ms, z)'  BY <2>3, <2>4
  <2> QED  BY <2>5, <2>6, <1>3, <1>4, <1>9 DEF AtMover
<1>12. PushesLeft(np)' /\ DataLeft(n, c)' /\ WordsLeft(mp, op)' /\ AnswersLeft(ms)'
  BY <1>1, <1>2, <1>6, PushesStay, DataStays, WordsStay, AnswersStay
<1>13. AtWriter(np, n, c, op, cp)'
  <2>1. np \in 0 .. Len(given)  BY <1>1 DEF PushesLeft
  <2> QED  BY <2>1, <1>1, <1>2, WriterStays
<1>14. ({n, c, op, cp, ms, mp, z, written} \subseteq Nat)'  BY <1>2, <1>3
<1>15. WriteSide(np, n, c, op, cp, ms, mp, z)'
  BY <1>7, <1>11, <1>12, <1>13, <1>14 DEF WriteSide
<1> QED  BY <1>15

\* MemWrite: a word is written, over bytes that have left.
LEMMA MemWriteKeeps ==
    ASSUME MoverSteps, NEW np, NEW n, NEW c, NEW op, NEW cp, NEW ms, NEW mp, NEW me,
           WriteSide(np, n, c, op, cp, ms, mp, me), MemoryHolds(mp), SpaceKept, Left \in Nat,
           got' = got, asked' = asked, MemWrite
    PROVE  \E x, y, z : WriteSide(np, n, c, op, cp, x, y, z)' /\ MemoryHolds(y)'
<1>1. /\ {n, c, op, cp, ms, mp, me, written} \subseteq Nat
      /\ PushesLeft(np) /\ DataLeft(n, c) /\ AtWriter(np, n, c, op, cp)
      /\ CommandsLeft(me, cp) /\ WordsLeft(mp, op) /\ AtMover(ms, mp, me) /\ AnswersLeft(ms)
  BY DEF WriteSide
<1>2. GivenStays /\ GivenInv /\ start \in Nat /\ start' = start /\ given' = given /\ Sequences
      /\ w' = w /\ written' = written /\ Total \in Nat
  BY KeptFacts DEF MoverSteps, GivenStays
<1>3. n \in Nat /\ c \in Nat /\ op \in Nat /\ cp \in Nat /\ ms \in Nat /\ mp \in Nat /\ me \in Nat
      /\ written \in Nat
  BY <1>1
<1> DEFINE front == Front("writeData")
           at    == mover.addr + mover.done
           done  == mover.done + front.keep
<1>4. /\ mover # Idle
      /\ mem' = [a \in DOMAIN mem |->
                    IF a \in at .. at + front.keep - 1 THEN front.data[a - at + 1] ELSE mem[a]]
      /\ mover' = IF front.last THEN Idle ELSE [mover EXCEPT !.done = done]
      /\ Transfer({"writeData"}, IF front.last THEN To("status", done) ELSE Silent)
  BY DEF MemWrite
<1>5. /\ q["writeData"] # <<>> /\ q'["writeData"] = Tail(q["writeData"])
      /\ \A s \in {"push", "data", "writeCmd"} : q'[s] = q[s]
      /\ q'["status"] = IF front.last THEN q["status"] \o <<done>> ELSE q["status"]
  <2>1. CASE front.last
    <3>1. Transfer({"writeData"}, To("status", done))  BY <2>1, <1>4
    <3>2. "writeData" \in BufferStreams /\ "status" \in BufferStreams
      BY DEF BufferStreams
    <3> HIDE DEF done, front
    <3>3. /\ q["writeData"] # <<>> /\ q'["writeData"] = Tail(q["writeData"])
          /\ q'["status"] = q["status"] \o <<done>>
          /\ \A s \in BufferStreams \ {"writeData", "status"} : q'[s] = q[s]
      BY <3>1, <3>2, <1>2, TakePutEffect
    <3> QED  BY <3>3, <2>1 DEF BufferStreams
  <2>2. CASE ~front.last
    <3>1. Transfer({"writeData"}, Silent)  BY <2>2, <1>4
    <3>2. "writeData" \in BufferStreams  BY DEF BufferStreams
    <3> HIDE DEF done, front
    <3>3. /\ q["writeData"] # <<>> /\ q'["writeData"] = Tail(q["writeData"])
          /\ \A s \in BufferStreams \ {"writeData"} : q'[s] = q[s]
      BY <3>1, <3>2, <1>2, TakeEffect
    <3> QED  BY <3>3, <2>2 DEF BufferStreams
  <2> QED  BY <2>1, <2>2
<1>6. front \in AWord /\ \E z \in Nat : WriteStep(front, mp, z) /\ WordsLeft(z, op)'
  BY <1>1, <1>2, <1>5, WordTaken
<1>7. PICK word \in AWord : word = front  BY <1>6
<1>8. PICK z \in Nat : WriteStep(word, mp, z) /\ WordsLeft(z, op)'  BY <1>6, <1>7
<1>9. /\ CommandStep(Access(mover.addr, mover.len), ms, me)
      /\ mover = [addr |-> Place(ms), len |-> me - ms, done |-> mp - ms]
      /\ ms <= mp /\ mp < z /\ z <= me /\ z <= Total
      /\ word.keep = z - mp /\ (word.last <=> z = me)
      /\ \A j \in 1 .. z - mp : word.data[j] = mp + j
      /\ Place(mp) = Place(ms) + (mp - ms) /\ Place(mp) + (z - mp) <= SPACE
  BY <1>1, <1>2, <1>3, <1>4, <1>8, MoverWord
<1>10. word.data \in Data /\ word.keep \in 0 .. WORD  BY WordParts
<1>11. at = Place(mp) /\ Place(mp) \in Nat /\ done = z - ms
  <2>1. Place(mp) \in Nat /\ Place(ms) \in Nat  BY <1>2, <1>3, PlaceType, SpaceNat
  <2>2. mover.addr = Place(ms) /\ mover.done = mp - ms /\ front.keep = z - mp
    BY <1>7, <1>9
  <2>3. done = z - ms
    <3> HIDE DEF front
    <3> QED  BY <2>2, <1>3
  <2> QED  BY <2>1, <2>2, <2>3, <1>9
<1>12. MemoryHolds(z)'
  <2>1. PICK len \in 1 .. WORD, a0 \in Nat : len = z - mp /\ len = word.keep /\ a0 = Place(mp) /\ a0 = at
    BY <1>3, <1>9, <1>10, <1>11, WordNat
  <2>2. PICK data \in Data : data = word.data  BY <1>10
  <2>3. mem' = [a \in DOMAIN mem |-> IF a \in a0 .. a0 + len - 1 THEN data[a - a0 + 1] ELSE mem[a]]
    <3> HIDE DEF at, front
    <3> QED  BY <2>1, <2>2, <1>4, <1>7
  <2>4. mem \in [0 .. SPACE - 1 -> Int]  BY DEF MemoryHolds
  <2>5. mem' \in [0 .. SPACE - 1 -> Int]
    <3>1. ASSUME NEW a \in a0 .. a0 + len - 1 PROVE data[a - a0 + 1] \in Int
      <4>1. a - a0 + 1 \in 1 .. WORD  BY WordNat
      <4> QED  BY <4>1 DEF Data
    <3> QED  BY <2>3, <2>4, <3>1
  <2>6. \A a \in 0 .. SPACE - 1 :
           mem'[a] = IF a \in a0 .. a0 + len - 1 THEN data[a - a0 + 1] ELSE mem[a]
    BY <2>3, <2>4
  <2>7. \A j \in 1 .. len : data[j] = mp + j  BY <2>1, <2>2, <1>9
  <2>8. /\ start \in Nat /\ start' = start /\ given' = given /\ Total \in Nat
        /\ mp < z /\ z <= Total /\ Place(mp) + (z - mp) <= SPACE
        /\ len = z - mp /\ a0 = Place(mp)
    BY <2>1, <1>2, <1>9
  <2>9. mem \in [0 .. SPACE - 1 -> Int] /\ \A p \in Left + 1 .. mp : mem[Place(p - 1)] = p
    BY DEF MemoryHolds
  <2>10. SPACE \in Nat \ {0} /\ WORD \in Nat \ {0}  BY SpaceNat, WordNat
  <2>11. Left' = Left /\ Total' = Total  BY <1>2 DEF Left, Before, Total, Kept
  <2>12. ASSUME NEW p \in Left + 1 .. z PROVE mem'[Place(p - 1)'] = p
    <3>1. p \in Nat /\ p - 1 \in Nat /\ Place(p - 1)' = Place(p - 1)
      BY <1>2, PlaceStays
    <3>2. Place(p - 1) \in 0 .. SPACE - 1  BY <3>1, <1>2, PlaceType
    <3>3. CASE p > mp
      <4>1. PICK i \in Nat : i = p - 1 - mp /\ p - 1 = mp + i /\ i < len
        BY <3>1, <3>3, <2>8, <1>3
      <4>2. Place(mp + i) = a0 + i
        <5>1. Place(mp) + i < SPACE  BY <4>1, <2>8, <2>10, <1>3
        <5> QED  BY <5>1, <2>8, <1>2, <1>3, PlaceNext
      <4>3. Place(p - 1) = a0 + i /\ a0 + i \in a0 .. a0 + len - 1 /\ (a0 + i) - a0 + 1 = i + 1
        <5>1. Place(p - 1) = a0 + i  BY <4>1, <4>2
        <5>2. a0 \in Nat /\ i \in Nat /\ i < len /\ len \in Int  BY <4>1, <2>10
        <5>3. a0 + i \in a0 .. a0 + len - 1 /\ (a0 + i) - a0 + 1 = i + 1  BY <5>2
        <5> QED  BY <5>1, <5>3
      <4>4. data[i + 1] = p  BY <4>1, <3>1, <2>7, <1>3
      <4> QED  BY <4>3, <4>4, <3>1, <3>2, <2>6
    <3>4. CASE ~(p > mp)
      <4>1. mem[Place(p - 1)] = p  BY <3>4, <2>9, <1>3
      <4>2. Place(p - 1) \notin a0 .. a0 + len - 1
        <5>1. SUFFICES ASSUME NEW i \in 0 .. len - 1, Place(p - 1) = a0 + i PROVE FALSE
          <6>1. ASSUME Place(p - 1) \in a0 .. a0 + len - 1
                PROVE \E i \in 0 .. len - 1 : Place(p - 1) = a0 + i
            <7>1. Place(p - 1) - a0 \in 0 .. len - 1 /\ Place(p - 1) = a0 + (Place(p - 1) - a0)
              BY <6>1
            <7> QED  BY <7>1
          <6> QED  BY <6>1, <5>1
        <5>2. i \in Nat /\ Place(mp) + i < SPACE  BY <5>1, <2>8, <2>10, <1>3
        <5>3. Place(mp + i) = Place(p - 1)  BY <5>1, <5>2, <2>8, <1>2, <1>3, PlaceNext
        <5>4. PICK d \in Nat : d = mp + i - (p - 1) /\ (p - 1) + d = mp + i /\ d > 0
          BY <5>2, <3>1, <3>4, <1>3
        <5>5. mp + i < z /\ p - 1 >= Left  BY <5>1, <3>1, <2>8, <1>3
        <5>6. d < SPACE
          BY <5>2, <5>4, <5>5, <3>1, <2>8, <2>10, <1>2, <1>3 DEF SpaceKept
        <5>7. Place((p - 1) + d) = Place(p - 1)  BY <5>3, <5>4
        <5> QED  BY <5>4, <5>6, <5>7, <3>1, <1>2, PlaceOnce
      <4> QED  BY <4>1, <4>2, <3>1, <3>2, <2>6
    <3> QED  BY <3>3, <3>4
  <2> QED  BY <2>5, <2>8, <2>11, <2>12 DEF MemoryHolds
<1>13. PushesLeft(np)' /\ DataLeft(n, c)' /\ CommandsLeft(me, cp)'
  BY <1>1, <1>2, <1>5, PushesStay, DataStays, CommandsStay
<1>14. AtWriter(np, n, c, op, cp)'
  <2>1. np \in 0 .. Len(given)  BY <1>1 DEF PushesLeft
  <2> QED  BY <2>1, <1>1, <1>2, WriterStays
<1>15. CASE word.last
  <2>1. mover' = Idle /\ z = me  BY <1>4, <1>7, <1>9, <1>15
  <2>2. AnswersLeft(z)'
    <3>1. PICK bytes \in Nat : bytes = z - ms /\ z = ms + bytes  BY <1>3, <1>9
    <3>2. q'["status"] = q["status"] \o <<bytes>>  BY <3>1, <1>5, <1>7, <1>11, <1>15
    <3> QED  BY <3>1, <3>2, <1>1, <1>2, <1>3, AnswerPut
  <2>3. AtMover(z, z, z)'  BY <2>1 DEF AtMover
  <2>4. CommandsLeft(z, cp)'  BY <2>1, <1>13
  <2>5. ({n, c, op, cp, z, written} \subseteq Nat)'  BY <1>2, <1>3
  <2>6. WriteSide(np, n, c, op, cp, z, z, z)'
    BY <2>2, <2>3, <2>4, <2>5, <1>8, <1>13, <1>14 DEF WriteSide
  <2> QED  BY <2>6, <1>12
<1>16. CASE ~word.last
  <2>1. mover' = [mover EXCEPT !.done = z - ms]  BY <1>4, <1>7, <1>11, <1>16
  <2>2. mover' = [addr |-> Place(ms)', len |-> me - ms, done |-> z - ms]
    <3>1. Place(ms)' = Place(ms)  BY <1>2, PlaceStays
    <3> QED  BY <2>1, <3>1, <1>9
  <2>3. z < me /\ ms <= z  BY <1>3, <1>9, <1>16
  <2>4. CommandStep(Access(mover.addr, mover.len), ms, me)'
    <3>1. PICK a \in Nat, l \in Nat : a = mover.addr /\ l = mover.len /\ Access(a, l) \in ACommand
      <4>1. Place(ms) \in Nat /\ me - ms \in Nat
        BY <1>2, <1>3, <1>9, PlaceType, SpaceNat
      <4> QED  BY <4>1, <1>9 DEF Access, ACommand
    <3>2. <<Access(a, l), ms, me>> \in CommandSteps
      BY <3>1, <1>3, <1>9 DEF CommandSteps
    <3>3. <<Access(a, l), ms, me>> \in CommandSteps'  BY <3>2, <1>2, StepsStay
    <3>4. CommandStep(Access(a, l), ms, me)'  BY <3>3 DEF CommandSteps
    <3>5. mover'.addr = a /\ mover'.len = l  BY <3>1, <2>1, <1>9
    <3> QED  BY <3>4, <3>5
  <2>5. AtMover(ms, z, me)'  BY <2>2, <2>3, <2>4 DEF AtMover
  <2>6. AnswersLeft(ms)'
    <3>1. q'["status"] = q["status"]  BY <1>5, <1>7, <1>16
    <3> QED  BY <3>1, <1>1, <1>2, AnswersStay
  <2>7. ({n, c, op, cp, ms, z, me, written} \subseteq Nat)'  BY <1>2, <1>3
  <2>8. WriteSide(np, n, c, op, cp, ms, z, me)'
    BY <2>5, <2>6, <2>7, <1>8, <1>13, <1>14 DEF WriteSide
  <2> QED  BY <2>8, <1>12
<1> QED  BY <1>15, <1>16

\* Confirm: an answer is counted.
LEMMA ConfirmKeeps ==
    ASSUME GivenStays, given' = given, w' = w, mover' = mover, Sequences,
           NEW np, NEW n, NEW c, NEW op, NEW cp, NEW ms, NEW mp, NEW me,
           WriteSide(np, n, c, op, cp, ms, mp, me), Confirm
    PROVE  /\ WriteSide(np, n, c, op, cp, ms, mp, me)'
           /\ written \in Nat /\ written' \in Nat /\ written <= written'
           /\ \A s \in BufferStreams \ {"status"} : q'[s] = q[s]
<1>1. /\ {n, c, op, cp, ms, mp, me, written} \subseteq Nat
      /\ PushesLeft(np) /\ DataLeft(n, c) /\ AtWriter(np, n, c, op, cp)
      /\ CommandsLeft(me, cp) /\ WordsLeft(mp, op) /\ AtMover(ms, mp, me) /\ AnswersLeft(ms)
  BY DEF WriteSide
<1>2. Transfer({"status"}, Silent) /\ written' = written + Front("status")
  BY DEF Confirm
<1>3. "status" \in BufferStreams  BY DEF BufferStreams
<1>4. /\ q["status"] # <<>> /\ q'["status"] = Tail(q["status"])
      /\ \A s \in BufferStreams \ {"status"} : q'[s] = q[s]
  BY <1>2, <1>3, TakeEffect
<1>5. /\ q'["push"] = q["push"] /\ q'["data"] = q["data"] /\ q'["writeCmd"] = q["writeCmd"]
      /\ q'["writeData"] = q["writeData"]
  BY <1>4 DEF BufferStreams
<1>6. AnswersLeft(ms)' /\ written' \in Nat /\ written <= written'
  BY <1>1, <1>2, <1>4, AnswerTaken
<1>7. PushesLeft(np)' /\ DataLeft(n, c)' /\ CommandsLeft(me, cp)' /\ WordsLeft(mp, op)'
  BY <1>1, <1>5, PushesStay, DataStays, CommandsStay, WordsStay
<1>8. AtWriter(np, n, c, op, cp)'
  <2>1. np \in 0 .. Len(given)  BY <1>1 DEF PushesLeft
  <2> QED  BY <2>1, <1>1, WriterStays
<1>9. AtMover(ms, mp, me)'  BY <1>1, MoverStays
<1>10. ({n, c, op, cp, ms, mp, me, written} \subseteq Nat)'  BY <1>1, <1>6
<1> QED  BY <1>1, <1>4, <1>6, <1>7, <1>8, <1>9, <1>10 DEF WriteSide

\* The memory stays while bytes leave it.
LEMMA MemoryStays ==
    ASSUME GivenStays, mem' = mem, NEW mp \in Nat, MemoryHolds(mp),
           Left \in Nat, Left' \in Nat, Left <= Left'
    PROVE  MemoryHolds(mp)'
<1>1. mp <= Total' /\ start' = start  BY KeptStays DEF MemoryHolds, GivenStays
<1>2. PICK l \in Nat, m \in Nat : l = Left /\ m = Left' /\ l <= m  OBVIOUS
<1>3. \A p \in m + 1 .. mp : p \in l + 1 .. mp
  <2>1. l <= m  BY <1>2
  <2> QED  BY <2>1
<1>4. ASSUME NEW p \in m + 1 .. mp PROVE mem'[Place(p - 1)'] = p
  <2>1. p \in l + 1 .. mp  BY <1>3
  <2>2. Place(p - 1)' = Place(p - 1)  BY <1>1, PlaceStays
  <2> QED  BY <2>1, <2>2, <1>2 DEF MemoryHolds
<1> QED  BY <1>1, <1>4, <1>2 DEF MemoryHolds

-----------------------------------------------------------------------------
(***************************************************************************)
(* The application sends.                                                  *)
(***************************************************************************)
\* The words of a push lead from its first byte to the next push.
LEMMA BurstChain ==
    ASSUME NEW n \in Nat, n \in DOMAIN given', NEW from \in Nat, NEW len \in Nat \ {0},
           given'[n].from = from, given'[n].len = len
    PROVE  Chain(Burst(from + 1, len), AWord, DataSteps', <<n, 0>>, <<n + 1, 0>>)
<1>1. from + 1 \in Nat /\ WORD \in Nat \ {0}  BY WordNat
<1>2. PICK first \in Nat : first = from + 1 /\ WORD \in Nat \ {0}  BY <1>1
<1>3. PICK count \in Nat \ {0} :
         /\ Burst(first, len) \in Seq(AWord) /\ Len(Burst(first, len)) = count
         /\ \A i \in 1 .. count : OfBurst(Burst(first, len)[i], i, count, first, len)
  BY <1>2, BurstOf
<1> DEFINE words == Burst(first, len)
           at == [i \in 1 .. count + 1 |-> IF i <= count THEN <<n, (i - 1) * WORD>> ELSE <<n + 1, 0>>]
<1>4. words \in Seq(AWord) /\ Len(words) = count  BY <1>3
<1>5. at[1] = <<n, 0>> /\ at[Len(words) + 1] = <<n + 1, 0>>
  <2>1. 1 \in 1 .. count + 1 /\ 1 <= count /\ (1 - 1) * WORD = 0  BY <1>2
  <2>2. count + 1 \in 1 .. count + 1 /\ ~(count + 1 <= count)  OBVIOUS
  <2> QED  BY <2>1, <2>2, <1>4
<1>6. ASSUME NEW i \in 1 .. count PROVE <<words[i], at[i], at[i + 1]>> \in DataSteps'
  <2>1. PICK word \in AWord : word = words[i]
    <3>1. words[i] \in AWord  BY <1>4, ElementOfSeq
    <3> QED  BY <3>1
  <2>2. PICK c \in Nat :
           /\ c = (i - 1) * WORD /\ c < len /\ i * WORD = c + WORD
           /\ i = count <=> len - c <= WORD
           /\ word.keep = Least(WORD, len - c)
           /\ word.last <=> len - c <= WORD
           /\ \A j \in 1 .. WORD : word.data[j] = IF j <= word.keep THEN first + c + j - 1 ELSE Junk
    <3>1. OfBurst(word, i, count, first, len)  BY <1>3, <2>1
    <3> QED  BY <3>1 DEF OfBurst
  <2>3. word = words[i]  BY <2>1
  <2>4. /\ word.keep = Least(WORD, len - c) /\ (word.last <=> len - c <= WORD)
        /\ (word.last <=> i = count)
        /\ \A j \in 1 .. WORD : j <= word.keep => word.data[j] = first + c + j - 1
    BY <2>2
  <2>5. \A j \in 1 .. word.keep : word.data[j] = from + c + j
    <3>1. word.keep \in 0 .. WORD  BY WordParts
    <3> QED  BY <3>1, <2>4, <1>2
  <2>6. at[i] = <<n, c>>  BY <2>2
  <2>7. at[i + 1] = IF word.last THEN <<n + 1, 0>> ELSE <<n, c + WORD>>
    <3>1. CASE i = count
      <4>1. i + 1 \in 1 .. count + 1 /\ ~(i + 1 <= count)  BY <3>1
      <4> QED  BY <4>1, <3>1, <2>4
    <3>2. CASE i # count
      <4>1. i + 1 \in 1 .. count + 1 /\ i + 1 <= count /\ (i + 1) - 1 = i  BY <3>2
      <4>2. ((i + 1) - 1) * WORD = c + WORD  BY <4>1, <2>2
      <4>3. at[i + 1] = <<n, ((i + 1) - 1) * WORD>>  BY <4>1
      <4> QED  BY <4>2, <4>3, <3>2, <2>4
    <3> QED  BY <3>1, <3>2
  <2>8. PICK x \in Nat \X Nat, y \in Nat \X Nat :
           x = <<n, c>> /\ y = (IF word.last THEN <<n + 1, 0>> ELSE <<n, c + WORD>>)
    <3>1. <<n, c>> \in Nat \X Nat /\ <<n + 1, 0>> \in Nat \X Nat /\ <<n, c + WORD>> \in Nat \X Nat
      BY <1>2
    <3>2. (IF word.last THEN <<n + 1, 0>> ELSE <<n, c + WORD>>) \in Nat \X Nat  BY <3>1
    <3> QED  BY <3>1, <3>2
  <2>9. DataStep(word, x, y)'
    <3>1. x[1] = n /\ x[2] = c  BY <2>8
    <3> QED  BY <3>1, <2>2, <2>4, <2>5, <2>8 DEF DataStep
  <2>10. <<word, x, y>> \in DataSteps'  BY <2>9 DEF DataSteps
  <2> HIDE DEF at, words
  <2> QED  BY <2>3, <2>6, <2>7, <2>8, <2>10
<1> HIDE DEF words, at
<1>7. \E p : /\ p[1] = <<n, 0>> /\ p[Len(words) + 1] = <<n + 1, 0>>
             /\ \A i \in 1 .. Len(words) : <<words[i], p[i], p[i + 1]>> \in DataSteps'
  BY <1>4, <1>5, <1>6
<1>8. Chain(words, AWord, DataSteps', <<n, 0>>, <<n + 1, 0>>)  BY <1>4, <1>7 DEF Chain
<1> QED  BY <1>2, <1>8 DEF words

\* One more push.
LEMMA GivenGrows ==
    ASSUME start \in Nat, start' = start, GivenInv, NEW len \in Nat \ {0}, NEW drop \in BOOLEAN,
           ~drop => len < SPACE,
           given' = Append(given, [from |-> Total, len |-> len, drop |-> drop])
    PROVE  /\ GivenStays /\ Len(given') = Len(given) + 1
           /\ given'[Len(given) + 1] = [from |-> Total, len |-> len, drop |-> drop]
           /\ Total' = IF drop THEN Total ELSE Total + len
<1> DEFINE push == [from |-> Total, len |-> len, drop |-> drop]
           S == [from : Nat, len : Nat \ {0}, drop : BOOLEAN]
<1>1. push.from = Total /\ push.drop = drop /\ push.len = len  OBVIOUS
<1>2. Total \in Nat /\ Len(given) \in Nat /\ DOMAIN given = 1 .. Len(given)
      /\ \A n \in 0 .. Len(given) : Kept(n) \in Nat /\ Kept(n) <= Total
  BY KeptFacts
<1>3. given \in Seq(S) /\ push \in S  BY <1>2 DEF GivenInv
<1>4. /\ given' \in Seq(S) /\ Len(given') = Len(given) + 1
      /\ \A i \in 1 .. Len(given) : given'[i] = given[i]
      /\ given'[Len(given) + 1] = push
  <2>1. given' = Append(given, push)  OBVIOUS
  <2> HIDE DEF push, S
  <2> QED  BY <2>1, <1>3, AppendProperties
<1>5. push = [from |-> Total, len |-> len, drop |-> drop]  OBVIOUS
<1> HIDE DEF push
<1>6. PICK m \in Nat : m = Len(given)  BY <1>2
<1>7. DOMAIN given' = 1 .. m + 1  BY <1>4, <1>6, LenProperties
<1>8. ASSUME NEW n \in 0 .. m PROVE Kept(n)' = Kept(n)
  <2>1. n # 0 => given'[n] = given[n]  BY <1>4, <1>6
  <2> QED  BY <2>1 DEF Kept
<1>9. Kept(m + 1)' = IF drop THEN Total ELSE Total + len
  <2>1. PICK k \in Nat : k = m + 1 /\ k # 0 /\ given'[k] = push  BY <1>4, <1>6
  <2>2. PICK g : g = given'[k] /\ g.from = Total /\ g.drop = drop /\ g.len = len
    BY <1>1, <2>1
  <2>3. Kept(k)' = g.from + (IF g.drop THEN 0 ELSE g.len)  BY <2>1, <2>2 DEF Kept
  <2>4. Kept(k)' = Total + (IF drop THEN 0 ELSE len)  BY <2>2, <2>3
  <2>5. Kept(k)' = IF drop THEN Total ELSE Total + len  BY <2>4, <1>2
  <2> QED  BY <2>1, <2>5
<1>10. Kept(m) = Total /\ Total' = Kept(m + 1)'  BY <1>4, <1>6 DEF Total
<1>11. PICK u \in Nat : u = Kept(m + 1)' /\ Total <= u  BY <1>2, <1>9
<1>12. ASSUME NEW n \in DOMAIN given'
       PROVE  given'[n].from = Kept(n - 1)' /\ (~given'[n].drop => given'[n].len < SPACE)
  <2>1. CASE n \in 1 .. m
    <3>1. n - 1 \in 0 .. m /\ given'[n] = given[n] /\ n \in DOMAIN given
      BY <2>1, <1>2, <1>4, <1>6
    <3>2. Kept(n - 1)' = Kept(n - 1)  BY <3>1, <1>8
    <3> QED  BY <3>1, <3>2 DEF GivenInv
  <2>2. CASE n = m + 1
    <3>1. n - 1 = m /\ m \in 0 .. m  BY <2>2
    <3>2. Kept(n - 1)' = Total  BY <3>1, <1>8, <1>10
    <3>3. given'[n] = push  BY <2>2, <1>4, <1>6
    <3> QED  BY <1>1, <3>2, <3>3
  <2> QED  BY <2>1, <2>2, <1>7
<1>13. ASSUME NEW x \in 0 .. Len(given'), NEW y \in 0 .. Len(given'), x <= y
       PROVE  Kept(x)' <= Kept(y)'
  <2>1. CASE y <= m
    <3>1. x \in 0 .. m /\ y \in 0 .. m  BY <2>1, <1>13, <1>4, <1>6
    <3>2. Kept(x) <= Kept(y)  BY <3>1, <1>6, <1>13 DEF GivenInv
    <3> QED  BY <3>1, <3>2, <1>8
  <2>2. CASE y = m + 1 /\ x <= m
    <3>1. x \in 0 .. m  BY <2>2
    <3>2. Kept(x)' = Kept(x) /\ Kept(x) \in Nat /\ Kept(x) <= Total
      BY <3>1, <1>2, <1>6, <1>8
    <3> QED  BY <3>2, <2>2, <1>2, <1>11
  <2>3. CASE y = m + 1 /\ x = m + 1  BY <2>3, <1>11
  <2> QED  BY <2>1, <2>2, <2>3, <1>4, <1>6, <1>13
<1>14. GivenInv'  BY <1>4, <1>12, <1>13 DEF GivenInv
<1>15. Len(given) <= Len(given')  BY <1>2, <1>4
<1> QED  BY <1>2, <1>4, <1>6, <1>9, <1>10, <1>14, <1>15, <1>5 DEF GivenStays

\* The new push is put behind the others.
LEMMA PushPut ==
    ASSUME GivenStays, NEW np, PushesLeft(np), NEW m \in Nat, m = Len(given) + 1,
           Len(given') = m, NEW v \in APush, v = PushOf(m)', q'["push"] = q["push"] \o <<v>>
    PROVE  PushesLeft(np)'
<1> DEFINE s == q["push"]
<1>1. /\ np \in 0 .. Len(given) /\ s \in Seq(APush) /\ Len(s) = Len(given) - np
      /\ \A j \in DOMAIN s : s[j] = PushOf(np + j)
  BY DEF PushesLeft
<1>2. Len(given) \in Nat /\ DOMAIN given = 1 .. Len(given)  BY KeptFacts DEF GivenStays
<1> DEFINE z == Append(s, v)
<1>3. /\ z \in Seq(APush) /\ Len(z) = Len(s) + 1
      /\ \A j \in 1 .. Len(s) : z[j] = s[j]
      /\ z[Len(s) + 1] = v /\ z = s \o <<v>>
  <2>1. s \in Seq(APush)  BY <1>1
  <2> HIDE DEF s
  <2>2. /\ z \in Seq(APush) /\ Len(z) = Len(s) + 1
        /\ \A j \in 1 .. Len(s) : z[j] = s[j]
        /\ z[Len(s) + 1] = v
    BY <2>1, AppendProperties
  <2>3. z = s \o <<v>>  BY <2>1, AppendIsConcat
  <2> QED  BY <2>2, <2>3
<1>4. DOMAIN s = 1 .. Len(s) /\ Len(s) \in Nat /\ DOMAIN z = 1 .. Len(z)
  BY <1>1, <1>3, LenProperties
<1>5. q'["push"] = z  BY <1>3
<1> HIDE DEF z, s
<1>6. ASSUME NEW j \in DOMAIN z PROVE z[j] = PushOf(np + j)'
  <2>1. CASE j <= Len(s)
    <3>1. j \in DOMAIN s /\ z[j] = s[j] /\ np + j \in DOMAIN given
      BY <2>1, <1>1, <1>2, <1>3, <1>4
    <3>2. PushOf(np + j)' = PushOf(np + j)  BY <3>1, PartsStay DEF PushOf
    <3> QED  BY <3>1, <3>2, <1>1
  <2>2. CASE j > Len(s)
    <3>1. j = Len(s) + 1 /\ np + j = m  BY <2>2, <1>1, <1>2, <1>3, <1>4
    <3>2. PushOf(np + j)' = v  BY <3>1
    <3> QED  BY <3>1, <3>2, <1>3
  <2> QED  BY <2>1, <2>2, <1>3, <1>4
<1>7. np \in 0 .. Len(given') /\ Len(z) = Len(given') - np  BY <1>1, <1>2, <1>3, <1>4
<1> QED  BY <1>3, <1>6, <1>7, <1>5 DEF PushesLeft

\* Its words are put behind the others.
LEMMA DataPut ==
    ASSUME GivenStays, NEW n, NEW c, DataLeft(n, c), Len(given') = Len(given) + 1, NEW u,
           Chain(u, AWord, DataSteps', <<Len(given) + 1, 0>>, <<Len(given) + 1 + 1, 0>>),
           q'["data"] = q["data"] \o u
    PROVE  DataLeft(n, c)'
<1>1. Chain(q["data"], AWord, DataSteps', <<n, c>>, <<Len(given) + 1, 0>>)
  BY StepsStay, ChainMonotone DEF DataLeft
<1>2. Chain(q["data"] \o u, AWord, DataSteps', <<n, c>>, <<Len(given) + 1 + 1, 0>>)
  BY <1>1, ChainConcat
<1> QED  BY <1>2 DEF DataLeft

\* What has been confirmed has been written, and was given.
LEMMA WriteBounds ==
    ASSUME NEW np, NEW n, NEW c, NEW op, NEW cp, NEW ms, NEW mp, NEW me,
           WriteSide(np, n, c, op, cp, ms, mp, me)
    PROVE  written \in Nat /\ ms \in Nat /\ mp \in Nat /\ written <= ms /\ ms <= mp
<1>1. written \in Nat /\ ms \in Nat /\ mp \in Nat /\ AtMover(ms, mp, me) /\ AnswersLeft(ms)
  BY DEF WriteSide
<1>2. written <= ms  BY <1>1 DEF AnswersLeft
<1>3. ms <= mp  BY <1>1 DEF AtMover
<1> QED  BY <1>1, <1>2, <1>3

\* Send: a push is given when there is space for it.
LEMMA SendKeeps ==
    ASSUME start \in Nat, GivenInv, AskedInv, SpaceKept, Sequences,
           todo \in Seq([len : Nat \ {0}, drop : BOOLEAN]),
           NEW np, NEW n, NEW c, NEW op, NEW cp, NEW ms, NEW mp, NEW me,
           WriteSide(np, n, c, op, cp, ms, mp, me), MemoryHolds(mp), Left \in Nat, Left <= Asked,
           Send, w' = w, mover' = mover, mem' = mem
    PROVE  /\ GivenStays /\ WriteSide(np, n, c, op, cp, ms, mp, me)' /\ MemoryHolds(mp)'
           /\ SpaceKept' /\ todo' \in Seq([len : Nat \ {0}, drop : BOOLEAN])
           /\ DOMAIN q' = BufferStreams
           /\ \A s \in BufferStreams \ {"push", "data"} : q'[s] = q[s]
<1> DEFINE P == [len : Nat \ {0}, drop : BOOLEAN]
<1>1. PICK push \in P, len \in Nat \ {0}, drop \in BOOLEAN :
         push = Head(todo) /\ len = push.len /\ drop = push.drop
  <2>1. todo \in Seq(P) /\ todo # <<>>  BY DEF Send
  <2>2. Head(todo) \in P  BY <2>1, HeadTailProperties
  <2>3. Head(todo).len \in Nat \ {0} /\ Head(todo).drop \in BOOLEAN  BY <2>2
  <2> QED  BY <2>2, <2>3
<1>2. todo' \in Seq(P)
  <2>1. todo \in Seq(P) /\ todo # <<>> /\ todo' = Tail(todo)  BY DEF Send
  <2> QED  BY <2>1, HeadTailProperties
<1> HIDE DEF P
<1>3. /\ drop \/ Total + len - Left < SPACE
      /\ Transfer({}, Both(To("push", [addr |-> Place(Total), len |-> len, drop |-> drop]),
                           All("data", Burst(Total + 1, len))))
      /\ given' = Append(given, [from |-> Total, len |-> len, drop |-> drop])
      /\ start' = start /\ asked' = asked /\ got' = got /\ written' = written
  BY <1>1 DEF Send, useVars, Left
<1>4. /\ Total \in Nat /\ Len(given) \in Nat /\ Place(Total) \in 0 .. SPACE - 1
      /\ SPACE \in Nat \ {0}
  <2>1. Total \in Nat /\ Len(given) \in Nat  BY KeptFacts
  <2> QED  BY <2>1, PlaceType, SpaceNat
<1>5. Left <= Total /\ SPACE \in Nat
  <2>1. written \in Nat /\ mp \in Nat /\ ms \in Nat /\ written <= ms /\ ms <= mp
    BY WriteBounds
  <2>2. mp <= Total  BY DEF MemoryHolds
  <2>3. Asked \in Nat /\ Asked <= written  BY AskedFacts DEF AskedInv
  <2> QED  BY <2>1, <2>2, <2>3, <1>4, SpaceNat
<1>6. ~drop => len < SPACE  BY <1>1, <1>3, <1>4, <1>5
<1>7. /\ GivenStays /\ Len(given') = Len(given) + 1
      /\ given'[Len(given) + 1] = [from |-> Total, len |-> len, drop |-> drop]
      /\ Total' = IF drop THEN Total ELSE Total + len
  BY <1>1, <1>3, <1>6, GivenGrows
<1>8. SpaceKept'
  <2>1. Left' = Left  BY <1>3 DEF Left, Before
  <2>2. CASE drop  BY <2>1, <2>2, <1>7 DEF SpaceKept
  <2>3. CASE ~drop
    <3>1. Total' = Total + len /\ Total + len - Left < SPACE  BY <2>3, <1>3, <1>7
    <3>2. Total' - Left' = Total + len - Left  BY <2>1, <3>1, <1>4
    <3> QED  BY <3>1, <3>2 DEF SpaceKept
  <2> QED  BY <2>2, <2>3
<1>9. PICK v \in APush, u \in Seq(AWord) :
         /\ v = [addr |-> Place(Total), len |-> len, drop |-> drop] /\ u = Burst(Total + 1, len)
  <2>1. [addr |-> Place(Total), len |-> len, drop |-> drop] \in APush  BY <1>4 DEF APush
  <2>2. Total + 1 \in Nat  BY <1>4
  <2>3. Burst(Total + 1, len) \in Seq(AWord)  BY <2>2, BurstOf
  <2> QED  BY <2>1, <2>3
<1>10. /\ q'["push"] = q["push"] \o <<v>> /\ q'["data"] = q["data"] \o u
       /\ DOMAIN q' = BufferStreams
       /\ \A s \in BufferStreams \ {"push", "data"} : q'[s] = q[s]
  <2>1. Transfer({}, Both(To("push", v), All("data", u)))  BY <1>3, <1>9
  <2>2. "push" \in BufferStreams /\ "data" \in BufferStreams /\ "push" # "data"
    BY DEF BufferStreams
  <2> QED  BY <2>1, <2>2, BothPutEffect
<1>11. PICK m \in Nat : m = Len(given) + 1  BY <1>4
<1>12. PICK from \in Nat : from = Total  BY <1>4
<1>13. /\ m \in DOMAIN given' /\ given'[m].from = from /\ given'[m].len = len
       /\ given'[m].drop = drop /\ Len(given') = m
  <2>1. given' \in Seq([from : Nat, len : Nat \ {0}, drop : BOOLEAN])
    BY <1>7 DEF GivenStays, GivenInv
  <2>2. DOMAIN given' = 1 .. Len(given')  BY <2>1, LenProperties
  <2>3. m \in DOMAIN given'  BY <2>2, <1>7, <1>11, <1>4
  <2> QED  BY <2>3, <1>7, <1>11, <1>12
<1>14. v = PushOf(m)'
  <2>1. Place(from)' = Place(from)  BY <1>3, PlaceStays
  <2>2. PushOf(m)' = [addr |-> Place(from), len |-> len, drop |-> drop]
    BY <2>1, <1>13 DEF PushOf
  <2> QED  BY <2>2, <1>9, <1>12
<1>15. PushesLeft(np)'
  <2>1. PushesLeft(np)  BY DEF WriteSide
  <2> QED  BY <2>1, <1>7, <1>10, <1>11, <1>13, <1>14, PushPut
<1>16. DataLeft(n, c)'
  <2>1. DataLeft(n, c)  BY DEF WriteSide
  <2>2. Chain(Burst(from + 1, len), AWord, DataSteps', <<m, 0>>, <<m + 1, 0>>)
    BY <1>13, BurstChain
  <2>3. u = Burst(from + 1, len)  BY <1>9, <1>12
  <2>4. Chain(u, AWord, DataSteps', <<Len(given) + 1, 0>>, <<Len(given) + 1 + 1, 0>>)
    BY <2>2, <2>3, <1>11
  <2> QED  BY <2>1, <2>4, <1>7, <1>10, DataPut
<1>17. AtWriter(np, n, c, op, cp)'
  <2>1. AtWriter(np, n, c, op, cp) /\ np \in 0 .. Len(given)
    BY DEF WriteSide, PushesLeft
  <2> QED  BY <2>1, <1>7, WriterStays
<1>18. /\ \A s \in {"writeCmd", "writeData", "status"} : q'[s] = q[s]
       /\ {ms, mp, me} \subseteq Nat
  <2>1. {"writeCmd", "writeData", "status"} \subseteq BufferStreams \ {"push", "data"}
    BY DEF BufferStreams
  <2>2. {ms, mp, me} \subseteq Nat  BY DEF WriteSide
  <2> QED  BY <2>1, <2>2, <1>10
<1>19. CommandsLeft(me, cp)' /\ WordsLeft(mp, op)' /\ AnswersLeft(ms)' /\ AtMover(ms, mp, me)'
  <2>1. CommandsLeft(me, cp) /\ WordsLeft(mp, op) /\ AnswersLeft(ms) /\ AtMover(ms, mp, me)
    BY DEF WriteSide
  <2>2. CommandsLeft(me, cp)'  BY <2>1, <1>7, <1>18, CommandsStay
  <2>3. WordsLeft(mp, op)'  BY <2>1, <1>7, <1>18, WordsStay
  <2>4. AnswersLeft(ms)'  BY <2>1, <1>3, <1>18, AnswersStay
  <2>5. AtMover(ms, mp, me)'  BY <2>1, <1>7, <1>18, MoverStays
  <2> QED  BY <2>2, <2>3, <2>4, <2>5
<1>20. WriteSide(np, n, c, op, cp, ms, mp, me)'
  <2>1. {n, c, op, cp, ms, mp, me, written'} \subseteq Nat  BY <1>3 DEF WriteSide
  <2> QED  BY <2>1, <1>15, <1>16, <1>17, <1>19 DEF WriteSide
<1>21. MemoryHolds(mp)'
  <2>1. Left' = Left  BY <1>3 DEF Left, Before
  <2>2. Left' \in Nat /\ Left <= Left'  BY <2>1
  <2> QED  BY <2>2, <1>7, <1>18, MemoryStays
<1> QED  BY <1>2, <1>7, <1>8, <1>10, <1>20, <1>21 DEF P

-----------------------------------------------------------------------------
(***************************************************************************)
(* metaLoader asks for a segment.                                          *)
(***************************************************************************)
\* One more burst is asked for.
LEMMA AskedGrows ==
    ASSUME start \in Nat, start' = start, AskedInv, written \in Nat, written' = written,
           NEW last \in Nat, Asked < last, last <= written, asked' = Append(asked, last)
    PROVE  /\ AskedStays /\ Len(asked') = Len(asked) + 1 /\ asked'[Len(asked) + 1] = last
<1>1. /\ Len(asked) \in Nat /\ DOMAIN asked = 1 .. Len(asked) /\ Asked \in Nat
      /\ \A j \in 1 .. Len(asked) + 1 : Before(j) \in Nat /\ Before(j) <= Asked
  BY AskedFacts
<1>2. /\ asked' \in Seq(Nat) /\ Len(asked') = Len(asked) + 1
      /\ \A j \in 1 .. Len(asked) : asked'[j] = asked[j]
      /\ asked'[Len(asked) + 1] = last
  <2>1. asked \in Seq(Nat)  BY DEF AskedInv
  <2> QED  BY <2>1, AppendProperties
<1>3. PICK m \in Nat : m = Len(asked) /\ Len(asked') = m + 1  BY <1>1, <1>2
<1>4. DOMAIN asked' = 1 .. m + 1  BY <1>2, <1>3, LenProperties
<1>5. ASSUME NEW j \in 1 .. m + 1 PROVE Before(j)' = Before(j)
  <2>1. j # 1 => j - 1 \in 1 .. m /\ asked'[j - 1] = asked[j - 1]  BY <1>2, <1>3
  <2> QED  BY <2>1 DEF Before
<1>6. Before(m + 2)' = last
  <2>1. PICK k \in Nat : k = m + 2  OBVIOUS
  <2>2. k # 1 /\ k - 1 = m + 1 /\ asked'[m + 1] = last  BY <2>1, <1>2, <1>3
  <2>3. Before(k)' = last  BY <2>2 DEF Before
  <2> QED  BY <2>1, <2>3
<1>7. Asked = Before(m + 1)  BY <1>3 DEF Asked
<1>8. Asked' = last
  <2>1. PICK k \in Nat : k = m + 2  OBVIOUS
  <2>2. Len(asked') + 1 = k  BY <2>1, <1>3
  <2>3. Asked' = Before(k)'  BY <2>2 DEF Asked
  <2> QED  BY <2>1, <2>3, <1>6
<1>9. ASSUME NEW j \in DOMAIN asked' PROVE Before(j)' < asked'[j]
  <2>1. CASE j \in 1 .. m
    <3>1. j \in 1 .. m + 1 /\ j \in DOMAIN asked /\ asked'[j] = asked[j]
      BY <2>1, <1>1, <1>2, <1>3
    <3>2. Before(j) < asked[j]  BY <3>1 DEF AskedInv
    <3> QED  BY <3>1, <3>2, <1>5
  <2>2. CASE j = m + 1
    <3>1. Before(j)' = Asked /\ asked'[j] = last  BY <2>2, <1>2, <1>3, <1>5, <1>7
    <3> QED  BY <3>1
  <2> QED  BY <2>1, <2>2, <1>4
<1>10. ASSUME NEW x \in 1 .. Len(asked') + 1, NEW y \in 1 .. Len(asked') + 1, x <= y
       PROVE  Before(x)' <= Before(y)'
  <2>1. CASE y <= m + 1
    <3>1. x \in 1 .. m + 1 /\ y \in 1 .. m + 1  BY <2>1, <1>10, <1>3
    <3>2. Before(x) <= Before(y)  BY <3>1, <1>3, <1>10 DEF AskedInv
    <3> QED  BY <3>1, <3>2, <1>5
  <2>2. CASE y = m + 2 /\ x <= m + 1
    <3>1. x \in 1 .. m + 1  BY <2>2
    <3>2. Before(x)' \in Nat /\ Before(x)' <= Asked  BY <3>1, <1>1, <1>3, <1>5
    <3>3. Before(y)' = last  BY <2>2, <1>6
    <3> QED  BY <3>2, <3>3, <1>1
  <2>3. CASE y = m + 2 /\ x = m + 2  BY <2>3, <1>6
  <2> QED  BY <2>1, <2>2, <2>3, <1>3, <1>10
<1>11. AskedInv'  BY <1>2, <1>8, <1>9, <1>10 DEF AskedInv
<1>12. Len(asked) <= Len(asked')  BY <1>1, <1>2
<1> QED  BY <1>1, <1>2, <1>11, <1>12 DEF AskedStays

\* The new burst is put behind the others.
LEMMA ReadAdded ==
    ASSUME AskedStays, NEW b, ReadsLeft(b), NEW m \in Nat, m = Len(asked) + 1, Len(asked') = m,
           NEW v \in ACommand, v = Access(Address(m), Length(m))',
           q'["readCmd"] = q["readCmd"] \o <<v>>
    PROVE  ReadsLeft(b)'
<1> DEFINE s == q["readCmd"]
           z == Append(s, v)
<1>1. /\ b \in 0 .. Len(asked) /\ s \in Seq(ACommand) /\ Len(s) = Len(asked) - b
      /\ \A j \in DOMAIN s : s[j] = Access(Address(b + j), Length(b + j))
  BY DEF ReadsLeft
<1>2. Len(asked) \in Nat /\ DOMAIN asked = 1 .. Len(asked)  BY AskedFacts DEF AskedStays
<1>3. /\ z \in Seq(ACommand) /\ Len(z) = Len(s) + 1
      /\ \A j \in 1 .. Len(s) : z[j] = s[j]
      /\ z[Len(s) + 1] = v /\ z = s \o <<v>>
  <2>1. s \in Seq(ACommand)  BY <1>1
  <2> HIDE DEF s
  <2>2. /\ z \in Seq(ACommand) /\ Len(z) = Len(s) + 1
        /\ \A j \in 1 .. Len(s) : z[j] = s[j]
        /\ z[Len(s) + 1] = v
    BY <2>1, AppendProperties
  <2>3. z = s \o <<v>>  BY <2>1, AppendIsConcat
  <2> QED  BY <2>2, <2>3
<1>4. DOMAIN s = 1 .. Len(s) /\ Len(s) \in Nat /\ DOMAIN z = 1 .. Len(z)
  BY <1>1, <1>3, LenProperties
<1>5. q'["readCmd"] = z  BY <1>3
<1> HIDE DEF z, s
<1>6. ASSUME NEW j \in DOMAIN z PROVE z[j] = Access(Address(b + j), Length(b + j))'
  <2>1. CASE j <= Len(s)
    <3>1. /\ j \in DOMAIN s /\ z[j] = s[j] /\ b + j \in DOMAIN asked
          /\ b + j \in 1 .. Len(asked) + 1
      BY <2>1, <1>1, <1>2, <1>3, <1>4
    <3>2. Address(b + j)' = Address(b + j) /\ Length(b + j)' = Length(b + j)
      BY <3>1, BeforeStays
    <3> QED  BY <3>1, <3>2, <1>1 DEF Access
  <2>2. CASE j > Len(s)
    <3>1. j = Len(s) + 1 /\ b + j = m  BY <2>2, <1>1, <1>2, <1>3, <1>4
    <3>2. Access(Address(b + j), Length(b + j))' = v  BY <3>1
    <3> QED  BY <3>1, <3>2, <1>3
  <2> QED  BY <2>1, <2>2, <1>3, <1>4
<1>7. b \in 0 .. Len(asked') /\ Len(z) = Len(asked') - b  BY <1>1, <1>2, <1>3, <1>4
<1> QED  BY <1>3, <1>5, <1>6, <1>7 DEF ReadsLeft

\* Ask: a burst of bytes that have been confirmed is asked for.
LEMMA AskKeeps ==
    ASSUME start \in Nat, AskedInv, written \in Nat, Sequences,
           NEW b, NEW bp, NEW rp, NEW f, NEW ip, NEW i, NEW k, ReadSide(b, bp, rp, f, ip, i, k),
           Ask, r' = r, breakdown' = breakdown
    PROVE  /\ AskedStays /\ ReadSide(b, bp, rp, f, ip, i, k)' /\ DOMAIN q' = BufferStreams
           /\ \A s \in BufferStreams \ {"readCmd"} : q'[s] = q[s]
<1>1. Asked \in Nat /\ Len(asked) \in Nat /\ DOMAIN asked = 1 .. Len(asked)
  BY AskedFacts
<1>2. PICK last \in Asked + 1 .. written :
         /\ Transfer({}, To("readCmd", Access(Place(Asked), last - Asked)))
         /\ asked' = Append(asked, last)
  BY DEF Ask
<1>3. /\ start' = start /\ written' = written /\ got' = got /\ burst' = burst
  BY DEF Ask
<1>4. last \in Nat /\ Asked < last /\ last <= written  BY <1>1
<1>5. AskedStays /\ Len(asked') = Len(asked) + 1 /\ asked'[Len(asked) + 1] = last
  BY <1>2, <1>3, <1>4, AskedGrows
<1>6. PICK m \in Nat, p \in Nat : m = Len(asked) + 1 /\ p = Asked  BY <1>1
<1>7. Place(p) \in 0 .. SPACE - 1  BY PlaceType
<1>8. PICK v \in ACommand : v = Access(Place(p), last - p)
  <2>1. Place(p) \in Nat /\ last - p \in Nat  BY <1>4, <1>6, <1>7, SpaceNat
  <2> QED  BY <2>1 DEF Access, ACommand
<1>9. /\ q'["readCmd"] = q["readCmd"] \o <<v>> /\ DOMAIN q' = BufferStreams
      /\ \A s \in BufferStreams \ {"readCmd"} : q'[s] = q[s]
  <2>1. Transfer({}, To("readCmd", v))  BY <1>2, <1>6, <1>8
  <2>2. "readCmd" \in BufferStreams  BY DEF BufferStreams
  <2> QED  BY <2>1, <2>2, PutEffect
<1>10. v = Access(Address(m), Length(m))'
  <2>1. m \in 1 .. Len(asked) + 1 /\ Before(m) = p  BY <1>1, <1>6 DEF Asked
  <2>2. Before(m)' = p  BY <2>1, <1>5, BeforeStays
  <2>3. asked'[m] = last  BY <1>5, <1>6
  <2>4. Address(m)' = Place(p) /\ Length(m)' = last - p
    BY <2>2, <2>3, <1>3 DEF Address, Length, Place
  <2> QED  BY <2>4, <1>8 DEF Access
<1>11. /\ {bp, rp, ip} \subseteq Nat
       /\ ReadsLeft(b) /\ AtBreakdown(b, bp) /\ FlagsLeft(f, b) /\ AccessesLeft(rp, bp)
       /\ LoadsLeft(ip, rp) /\ AtStitcher(f, ip, i, k) /\ OutLeft(i, k) /\ AtLeaving
  BY DEF ReadSide
<1>12. ReadsLeft(b)'  BY <1>5, <1>6, <1>9, <1>10, <1>11, ReadAdded
<1>13. b \in 0 .. Len(asked)  BY <1>11 DEF ReadsLeft
<1>14. Len(got) <= Len(asked)
  <2>1. Len(got) + 1 <= i /\ i \in 1 .. Len(asked) + 1  BY <1>11 DEF OutLeft, AtStitcher
  <2>2. Len(got) \in Nat  BY <1>11, LenProperties DEF AtLeaving
  <2> QED  BY <2>1, <2>2, <1>1
<1>15. /\ q'["memCmd"] = q["memCmd"] /\ q'["memData"] = q["memData"]
       /\ q'["accessFlag"] = q["accessFlag"] /\ q'["out"] = q["out"]
  <2>1. {"memCmd", "memData", "accessFlag", "out"} \subseteq BufferStreams \ {"readCmd"}
    BY DEF BufferStreams
  <2> QED  BY <2>1, <1>9
<1>16. AtBreakdown(b, bp)' /\ FlagsLeft(f, b)'
  BY <1>5, <1>11, <1>13, <1>15, BreakdownStays, FlagsStay
<1>17. AccessesLeft(rp, bp)' /\ LoadsLeft(ip, rp)' /\ OutLeft(i, k)'
  BY <1>3, <1>5, <1>11, <1>15, AccessesStay, LoadsStay, OutStays
<1>18. AtStitcher(f, ip, i, k)' /\ AtLeaving'
  BY <1>3, <1>5, <1>11, <1>14, StitcherStays, LeavingStays
<1>19. ReadSide(b, bp, rp, f, ip, i, k)'
  BY <1>11, <1>12, <1>16, <1>17, <1>18 DEF ReadSide
<1> QED  BY <1>5, <1>9, <1>19

-----------------------------------------------------------------------------
(***************************************************************************)
(* The accesses that are made of it, and the memory that answers them.     *)
(***************************************************************************)
\* What has not left is shorter than the buffer.
LengthsFit == \A j \in DOMAIN asked : j > Len(got) => Length(j) < SPACE

LoaderSteps ==
    /\ AskedStays /\ asked' = asked /\ r' = r /\ got' = got /\ burst' = burst
    /\ Sequences /\ LengthsFit

\* How far the functions of the side that is read are.
LEMMA ReadBounds ==
    ASSUME AskedInv, NEW b, NEW bp, NEW rp, NEW f, NEW ip, NEW i, NEW k,
           ReadSide(b, bp, rp, f, ip, i, k)
    PROVE  /\ Len(got) \in Nat /\ Len(got) + 1 <= i /\ i \in 1 .. Len(asked) + 1
           /\ f \in Nat /\ f \in {i - 1, i} /\ f <= b /\ b \in 0 .. Len(asked)
           /\ ip \in Nat /\ rp \in Nat /\ bp \in Nat /\ Before(i) <= ip /\ ip <= rp
<1>1. /\ {bp, rp, ip} \subseteq Nat
      /\ ReadsLeft(b) /\ FlagsLeft(f, b) /\ LoadsLeft(ip, rp)
      /\ AtStitcher(f, ip, i, k) /\ OutLeft(i, k) /\ AtLeaving
  BY DEF ReadSide
<1>2. Len(got) \in Nat  BY <1>1, LenProperties DEF AtLeaving
<1>3. Len(got) + 1 <= i /\ i \in 1 .. Len(asked) + 1 /\ Before(i) <= ip
  BY <1>1 DEF OutLeft, AtStitcher
<1>4. b \in 0 .. Len(asked) /\ f \in 0 .. b /\ ip <= rp
  BY <1>1 DEF ReadsLeft, FlagsLeft, LoadsLeft
<1>5. f \in {i - 1, i}  BY <1>1 DEF AtStitcher, AtStart, AtData, AtMerge, AtRest, Moved
<1>6. Len(asked) \in Nat  BY AskedFacts
<1> QED  BY <1>1, <1>2, <1>3, <1>4, <1>5, <1>6

\* The other parts of the side that is read, where an access is broken down.
LEMMA ReadSideLoads ==
    ASSUME AskedStays, asked' = asked, r' = r, got' = got, burst' = burst,
           NEW b, NEW bp, NEW rp, NEW f, NEW ip, NEW i, NEW k, ReadSide(b, bp, rp, f, ip, i, k),
           q'["out"] = q["out"]
    PROVE  AtStitcher(f, ip, i, k)' /\ OutLeft(i, k)' /\ AtLeaving'
<1>1. AtStitcher(f, ip, i, k) /\ OutLeft(i, k) /\ AtLeaving  BY DEF ReadSide
<1>2. Len(got) \in Nat /\ Len(got) + 1 <= i /\ i \in 1 .. Len(asked) + 1 /\ Len(asked) \in Nat
  BY ReadBounds, AskedFacts DEF AskedStays
<1>3. Len(got) <= Len(asked)  BY <1>2
<1> QED  BY <1>1, <1>3, StitcherStays, OutStays, LeavingStays

\* ReadFirst: a burst is taken, and its first access is made.
LEMMA ReadFirstKeeps ==
    ASSUME LoaderSteps, NEW b, NEW bp, NEW rp, NEW f, NEW ip, NEW i, NEW k,
           ReadSide(b, bp, rp, f, ip, i, k), ReadFirst
    PROVE  /\ \E b2, bp2 : ReadSide(b2, bp2, rp, f, ip, i, k)'
           /\ DOMAIN q' = BufferStreams /\ \A s \in WriteStreams : q'[s] = q[s]
<1>1. AskedStays /\ AskedInv /\ start \in Nat /\ Len(asked') = Len(asked)
  BY DEF LoaderSteps, AskedStays
<1>2. /\ {bp, rp, ip} \subseteq Nat
      /\ ReadsLeft(b) /\ AtBreakdown(b, bp) /\ FlagsLeft(f, b) /\ AccessesLeft(rp, bp)
      /\ LoadsLeft(ip, rp)
  BY DEF ReadSide
<1>3. /\ Len(got) \in Nat /\ Len(got) < b + 1 /\ b \in 0 .. Len(asked) /\ b \in Nat
      /\ Len(asked) \in Nat
  BY <1>1, ReadBounds, AskedFacts
<1>4. bp = Before(b + 1)
  <2>1. CASE b \in DOMAIN asked /\ Crosses(b) /\ breakdown = Access(0, asked[b] - Turn(b))
    <3>1. asked[b] \in Nat /\ Turn(b) \in Nat /\ Turn(b) < asked[b]
      BY <2>1, <1>1, TurnFacts, AskedFacts
    <3>2. breakdown.len # 0  BY <2>1, <3>1 DEF Access
    <3>3. breakdown.len = 0  BY DEF ReadFirst, NoAccess, Access
    <3> QED  BY <3>2, <3>3
  <2> QED  BY <2>1, <1>2 DEF AtBreakdown
<1> DEFINE cmd == Front("readCmd")
           cut == SPACE - cmd.addr
           over == cmd.addr + cmd.len > SPACE
<1>5. PICK access, flag :
         /\ access = (IF over THEN Access(cmd.addr, cut) ELSE cmd)
         /\ flag = (IF over THEN 1 ELSE 0)
         /\ Transfer({"readCmd"}, Both(To("memCmd", access), To("accessFlag", flag)))
         /\ breakdown' = (IF over THEN Access(0, cmd.len - cut) ELSE NoAccess)
  BY DEF ReadFirst
<1>6. /\ q["readCmd"] # <<>> /\ q'["readCmd"] = Tail(q["readCmd"])
      /\ q'["memCmd"] = q["memCmd"] \o <<access>> /\ q'["accessFlag"] = q["accessFlag"] \o <<flag>>
      /\ DOMAIN q' = BufferStreams
      /\ \A s \in BufferStreams \ {"readCmd", "memCmd", "accessFlag"} : q'[s] = q[s]
  <2>1. Sequences  BY DEF LoaderSteps
  <2>2. Transfer({"readCmd"}, Both(To("memCmd", access), To("accessFlag", flag)))
    BY <1>5
  <2> QED  BY <2>1, <2>2, AccessEffect
<1>7. /\ b + 1 \in DOMAIN asked /\ Front("readCmd") = Access(Address(b + 1), Length(b + 1))
      /\ ReadsLeft(b + 1)'
  BY <1>1, <1>2, <1>6, ReadTaken
<1>8. Length(b + 1) < SPACE  BY <1>3, <1>7 DEF LoaderSteps, LengthsFit
<1>9. /\ Length(b + 1) \in Nat \ {0} /\ Length(b + 1) = asked[b + 1] - Before(b + 1)
      /\ asked[b + 1] \in Nat /\ Before(b + 1) \in Nat /\ asked[b + 1] = Before(b + 1 + 1)
  <2>1. b + 1 \in 1 .. Len(asked) + 1  BY <1>3
  <2> QED  BY <2>1, <1>1, <1>7, AskedFacts
<1>10. Address(b + 1) \in 0 .. SPACE - 1 /\ SPACE \in Nat
  BY <1>1, <1>9, PlaceType, SpaceNat DEF Address
<1>11. PICK addr \in Nat, len \in Nat, before \in Nat, end \in Nat :
          /\ addr = Address(b + 1) /\ len = (IF Crosses(b + 1) THEN SPACE - addr ELSE Length(b + 1))
          /\ before = Before(b + 1) /\ end = asked[b + 1] /\ addr < SPACE
          /\ Length(b + 1) = end - before
  <2>1. Address(b + 1) \in Nat /\ SPACE - Address(b + 1) \in Nat /\ Length(b + 1) \in Nat
        /\ Address(b + 1) < SPACE
    BY <1>9, <1>10
  <2>2. (IF Crosses(b + 1) THEN SPACE - Address(b + 1) ELSE Length(b + 1)) \in Nat
    BY <2>1
  <2> QED  BY <2>1, <2>2, <1>9
<1>12. /\ ReadStep(Access(addr, len), before, before + len)
       /\ before + len = IF Crosses(b + 1) THEN Turn(b + 1) ELSE end
  BY <1>1, <1>7, <1>8, <1>11, FirstAccess
<1>13. /\ over <=> Crosses(b + 1)
       /\ access = Access(addr, len)
       /\ breakdown' = IF Crosses(b + 1) THEN Access(0, end - Turn(b + 1)) ELSE NoAccess
  <2>1. cmd.addr = addr /\ cmd.len = end - before  BY <1>7, <1>11 DEF Access
  <2>2. over <=> Crosses(b + 1)
    <3>1. Crosses(b + 1) <=> addr + (end - before) > SPACE  BY <1>11 DEF Crosses
    <3> QED  BY <2>1, <3>1
  <2>3. access = Access(addr, len)  BY <2>1, <2>2, <1>5, <1>7, <1>11
  <2>4. Crosses(b + 1) => (end - before) - (SPACE - addr) = end - Turn(b + 1)
    <3>1. Turn(b + 1) = before + SPACE - addr  BY <1>11 DEF Turn
    <3> QED  BY <3>1, <1>10, <1>11
  <2> QED  BY <2>1, <2>2, <2>3, <2>4, <1>5
<1> HIDE DEF cmd, cut, over
<1>14. PICK bp2 \in Nat : bp2 = before + len  BY <1>11
<1>15. FlagsLeft(f, b + 1)'  BY <1>1, <1>2, <1>3, <1>5, <1>6, <1>7, <1>13, FlagPut
<1>16. AccessesLeft(rp, bp2)'
  <2>1. bp = before  BY <1>4, <1>11
  <2> QED  BY <2>1, <1>1, <1>2, <1>6, <1>11, <1>12, <1>13, <1>14, AccessPut
<1>17. AtBreakdown(b + 1, bp2)'
  <2>1. /\ b + 1 \in DOMAIN asked' /\ asked'[b + 1] = end
        /\ (Crosses(b + 1)' <=> Crosses(b + 1)) /\ Turn(b + 1)' = Turn(b + 1)
        /\ Length(b + 1)' < SPACE
    BY <1>1, <1>8, <1>7, <1>11, BeforeStays
  <2>2. CASE Crosses(b + 1)  BY <2>1, <2>2, <1>12, <1>13, <1>14 DEF AtBreakdown, Access
  <2>3. CASE ~Crosses(b + 1)
    <3>1. b + 1 + 1 \in 1 .. Len(asked) + 1
      <4>1. b + 1 \in 1 .. Len(asked)  BY <1>1, <1>7, AskedFacts
      <4> QED  BY <4>1, <1>3
    <3>2. Before(b + 1 + 1)' = end  BY <3>1, <1>1, <1>9, <1>11, BeforeStays
    <3>3. bp2 = end /\ breakdown' = NoAccess  BY <2>3, <1>12, <1>13, <1>14
    <3> QED  BY <3>2, <3>3 DEF AtBreakdown, NoAccess, Access
  <2> QED  BY <2>2, <2>3
<1>18. /\ q'["memData"] = q["memData"] /\ q'["out"] = q["out"]
       /\ \A s \in WriteStreams : q'[s] = q[s]
  <2>1. /\ "memData" \in BufferStreams \ {"readCmd", "memCmd", "accessFlag"}
        /\ "out" \in BufferStreams \ {"readCmd", "memCmd", "accessFlag"}
        /\ WriteStreams \subseteq BufferStreams \ {"readCmd", "memCmd", "accessFlag"}
    BY DEF BufferStreams, WriteStreams
  <2> QED  BY <2>1, <1>6
<1>19. LoadsLeft(ip, rp)' /\ AtStitcher(f, ip, i, k)' /\ OutLeft(i, k)' /\ AtLeaving'
  <2>1. LoadsLeft(ip, rp)'  BY <1>1, <1>2, <1>18, LoadsStay
  <2> QED  BY <2>1, <1>18, ReadSideLoads DEF LoaderSteps
<1>20. ReadSide(b + 1, bp2, rp, f, ip, i, k)'
  BY <1>2, <1>7, <1>14, <1>15, <1>16, <1>17, <1>19 DEF ReadSide
<1> QED  BY <1>6, <1>18, <1>20

\* ReadSecond: the access at the start of the buffer is made.
LEMMA ReadSecondKeeps ==
    ASSUME LoaderSteps, NEW b, NEW bp, NEW rp, NEW f, NEW ip, NEW i, NEW k,
           ReadSide(b, bp, rp, f, ip, i, k), ReadSecond
    PROVE  /\ \E bp2 : ReadSide(b, bp2, rp, f, ip, i, k)'
           /\ DOMAIN q' = BufferStreams /\ \A s \in WriteStreams : q'[s] = q[s]
<1>1. AskedStays /\ AskedInv /\ start \in Nat /\ Len(asked') = Len(asked)
  BY DEF LoaderSteps, AskedStays
<1>2. /\ {bp, rp, ip} \subseteq Nat
      /\ ReadsLeft(b) /\ AtBreakdown(b, bp) /\ FlagsLeft(f, b) /\ AccessesLeft(rp, bp)
      /\ LoadsLeft(ip, rp) /\ b \in 0 .. Len(asked)
  BY DEF ReadSide, ReadsLeft
<1>3. /\ b \in DOMAIN asked /\ Crosses(b) /\ Length(b) < SPACE
      /\ breakdown = Access(0, asked[b] - Turn(b)) /\ bp = Turn(b)
  BY <1>2 DEF AtBreakdown, ReadSecond
<1>4. /\ asked[b] \in Nat /\ Turn(b) \in Nat /\ Turn(b) < asked[b] /\ asked[b] = Before(b + 1)
      /\ b + 1 \in 1 .. Len(asked) + 1
  BY <1>1, <1>3, TurnFacts, AskedFacts
<1>5. PICK len \in Nat, end \in Nat : end = asked[b] /\ len = end - bp  BY <1>3, <1>4
<1>6. ReadStep(Access(0, len), bp, end)  BY <1>1, <1>3, <1>5, SecondAccess
<1>7. PICK access : access = Access(0, len)  OBVIOUS
<1>8. /\ q'["memCmd"] = q["memCmd"] \o <<access>> /\ DOMAIN q' = BufferStreams
      /\ \A s \in BufferStreams \ {"memCmd"} : q'[s] = q[s]
  <2>1. Transfer({}, To("memCmd", access))  BY <1>3, <1>5, <1>7 DEF ReadSecond
  <2>2. "memCmd" \in BufferStreams /\ Sequences  BY DEF BufferStreams, LoaderSteps
  <2> QED  BY <2>1, <2>2, PutEffect
<1>9. AccessesLeft(rp, end)'  BY <1>1, <1>2, <1>5, <1>6, <1>7, <1>8, AccessPut
<1>10. AtBreakdown(b, end)'
  <2>1. Before(b + 1)' = end  BY <1>1, <1>4, <1>5, BeforeStays
  <2> QED  BY <2>1 DEF AtBreakdown, ReadSecond
<1>11. /\ q'["readCmd"] = q["readCmd"] /\ q'["memData"] = q["memData"] /\ q'["out"] = q["out"]
       /\ q'["accessFlag"] = q["accessFlag"] /\ \A s \in WriteStreams : q'[s] = q[s]
  <2>1. /\ "readCmd" \in BufferStreams \ {"memCmd"} /\ "memData" \in BufferStreams \ {"memCmd"}
        /\ "out" \in BufferStreams \ {"memCmd"} /\ "accessFlag" \in BufferStreams \ {"memCmd"}
        /\ WriteStreams \subseteq BufferStreams \ {"memCmd"}
    BY DEF BufferStreams, WriteStreams
  <2> QED  BY <2>1, <1>8
<1>12. ReadsLeft(b)' /\ FlagsLeft(f, b)' /\ LoadsLeft(ip, rp)'
  BY <1>1, <1>2, <1>11, ReadsStay, FlagsStay, LoadsStay
<1>13. AtStitcher(f, ip, i, k)' /\ OutLeft(i, k)' /\ AtLeaving'
  BY <1>11, ReadSideLoads DEF LoaderSteps
<1>14. ReadSide(b, end, rp, f, ip, i, k)'
  BY <1>2, <1>5, <1>9, <1>10, <1>12, <1>13 DEF ReadSide
<1> QED  BY <1>8, <1>11, <1>14

-----------------------------------------------------------------------------
\* A word of a burst of addresses, counted from 1, with the bytes that are there.
Loaded(word, addr) ==
    [word EXCEPT !.data = [j \in 1 .. WORD |-> IF @[j] = Junk THEN Junk ELSE mem[addr + @[j] - 1]]]

\* Word i of count that bring the bytes behind rp.
LoadedAs(loaded, i, count, rp, len) ==
    \E c \in Nat :
        /\ c = (i - 1) * WORD /\ c < len /\ i * WORD = c + WORD
        /\ i = count <=> len - c <= WORD
        /\ loaded.keep = Least(WORD, len - c)
        /\ loaded.last <=> len - c <= WORD
        /\ \A j \in 1 .. loaded.keep : loaded.data[j] = rp + c + j

\* A word from memory has the bytes of the stream.
LEMMA LoadedWord ==
    ASSUME start \in Nat, NEW mp \in Nat, MemoryHolds(mp), Left \in Nat,
           NEW rp \in Nat, NEW len \in Nat, Left <= rp, rp + len <= mp,
           Place(rp) + len <= SPACE,
           NEW word \in AWord, NEW i, NEW count, OfBurst(word, i, count, 1, len)
    PROVE  /\ Loaded(word, Place(rp)) \in AWord
           /\ LoadedAs(Loaded(word, Place(rp)), i, count, rp, len)
<1>1. PICK c \in Nat :
         /\ c = (i - 1) * WORD /\ c < len /\ i * WORD = c + WORD
         /\ i = count <=> len - c <= WORD
         /\ word.keep = Least(WORD, len - c)
         /\ word.last <=> len - c <= WORD
         /\ \A j \in 1 .. WORD : word.data[j] = IF j <= word.keep THEN 1 + c + j - 1 ELSE Junk
  BY DEF OfBurst
<1>2. PICK keep \in 0 .. WORD, last \in BOOLEAN, data \in Data :
         word.keep = keep /\ word.last = last /\ word.data = data
  BY WordParts
<1>3. WORD \in Nat \ {0} /\ SPACE \in Nat  BY WordNat, SpaceNat
<1>4. \A j \in 1 .. keep : data[j] = c + j /\ data[j] # Junk
  <2>1. \A j \in 1 .. WORD : j <= keep => data[j] = 1 + c + j - 1  BY <1>1, <1>2
  <2> QED  BY <2>1, <1>2, <1>3 DEF Junk
<1>5. \A j \in 1 .. WORD : j > keep => data[j] = Junk
  <2>1. \A j \in 1 .. WORD : ~(j <= keep) => data[j] = Junk  BY <1>1, <1>2
  <2> QED  BY <2>1, <1>2, <1>3
<1>6. keep <= len - c
  BY <1>1, <1>2, <1>3 DEF Least
<1>7. ASSUME NEW j \in 1 .. keep PROVE mem[Place(rp) + data[j] - 1] = rp + c + j
  <2>1. PICK p \in Nat, d \in Nat : p = rp + c + j /\ d = c + j - 1  BY <1>2, <1>3
  <2>2. Place(rp) \in 0 .. SPACE - 1  BY PlaceType
  <2>3. d < len /\ Place(rp) + d < SPACE  BY <2>1, <2>2, <1>1, <1>2, <1>3, <1>6
  <2>4. Place(rp + d) = Place(rp) + d  BY <2>3, PlaceNext
  <2>5. p - 1 = rp + d /\ p \in Left + 1 .. mp /\ Place(rp) + data[j] - 1 = Place(rp) + d
    BY <2>1, <2>2, <2>3, <1>4
  <2>6. mem[Place(p - 1)] = p  BY <2>5 DEF MemoryHolds
  <2> QED  BY <2>1, <2>4, <2>5, <2>6
<1>8. ASSUME NEW j \in 1 .. keep PROVE mem[Place(rp) + data[j] - 1] \in Int
  BY <1>7, <1>2, <1>3
<1> DEFINE bytes == [j \in 1 .. WORD |-> IF data[j] = Junk THEN Junk ELSE mem[Place(rp) + data[j] - 1]]
<1>9. bytes \in Data
  <2>1. ASSUME NEW j \in 1 .. WORD PROVE bytes[j] \in Int
    <3>1. CASE j \in 1 .. keep  BY <3>1, <1>4, <1>8
    <3>2. CASE j \notin 1 .. keep
      <4>1. j > keep  BY <3>2, <1>2, <1>3
      <4> QED  BY <4>1, <1>5 DEF Junk
    <3> QED  BY <3>1, <3>2
  <2> QED  BY <2>1 DEF Data
<1>10. \A j \in 1 .. keep : bytes[j] = rp + c + j
  <2>1. \A j \in 1 .. keep : j \in 1 .. WORD  BY <1>2, <1>3
  <2> QED  BY <2>1, <1>4, <1>7
<1> HIDE DEF bytes
<1>11. Loaded(word, Place(rp)) = [word EXCEPT !.data = bytes]  BY <1>2 DEF Loaded, bytes
<1>12. PICK loaded \in AWord :
          /\ loaded = Loaded(word, Place(rp)) /\ loaded.data = bytes /\ loaded.keep = keep
          /\ loaded.last = last
  <2>1. word = [data |-> data, keep |-> keep, last |-> last]  BY <1>2 DEF AWord
  <2>2. Loaded(word, Place(rp)) = [data |-> bytes, keep |-> keep, last |-> last]
    BY <2>1, <1>11
  <2>3. [data |-> bytes, keep |-> keep, last |-> last] \in AWord
    BY <1>2, <1>9 DEF AWord
  <2> QED  BY <2>2, <2>3
<1>13. /\ loaded.keep = Least(WORD, len - c) /\ (loaded.last <=> len - c <= WORD)
       /\ \A j \in 1 .. loaded.keep : loaded.data[j] = rp + c + j
  BY <1>1, <1>2, <1>10, <1>12
<1>14. LoadedAs(loaded, i, count, rp, len)  BY <1>1, <1>13 DEF LoadedAs
<1> QED  BY <1>12, <1>14

\* The words that an access of the memory brings.
LoadedWords(addr, len) == [i \in DOMAIN Burst(1, len) |-> Loaded(Burst(1, len)[i], addr)]

\* All words of an access together.
LEMMA LoadChain ==
    ASSUME start \in Nat, AskedInv, NEW mp \in Nat, MemoryHolds(mp), Left \in Nat,
           NEW rp \in Nat, NEW z \in Nat, NEW len \in Nat, Left <= rp, z <= mp, z = rp + len,
           NEW cmd, ReadStep(cmd, rp, z)
    PROVE  Chain(LoadedWords(Place(rp), len), AWord, LoadSteps(z), rp, z)
<1>1. /\ rp < z /\ z <= Asked /\ ReadEnd(z) /\ \A p \in rp + 1 .. z - 1 : ~ReadEnd(p)
      /\ Place(rp) + (z - rp) <= SPACE
  BY DEF ReadStep
<1>2. len \in Nat \ {0} /\ 1 \in Nat /\ rp + len <= mp /\ Place(rp) + len <= SPACE
  <2>1. z - rp = len  OBVIOUS
  <2> QED  BY <2>1, <1>1
<1>3. PICK count \in Nat \ {0}, burst1 \in Seq(AWord) :
         /\ burst1 = Burst(1, len) /\ Len(burst1) = count
         /\ \A i \in 1 .. count : OfBurst(burst1[i], i, count, 1, len)
  BY <1>2, BurstOf
<1>4. DOMAIN burst1 = 1 .. count  BY <1>3, LenProperties
<1> DEFINE words == [i \in 1 .. count |-> Loaded(burst1[i], Place(rp))]
           at == [i \in 1 .. count + 1 |-> IF i <= count THEN rp + ((i - 1) * WORD) ELSE z]
<1>5. LoadedWords(Place(rp), len) = words  BY <1>3, <1>4 DEF LoadedWords
<1>6. ASSUME NEW i \in 1 .. count
      PROVE  words[i] \in AWord /\ <<words[i], at[i], at[i + 1]>> \in LoadSteps(z)
  <2>1. PICK word \in AWord : word = burst1[i] /\ OfBurst(word, i, count, 1, len)
    <3>1. burst1[i] \in AWord  BY <1>3, ElementOfSeq
    <3> QED  BY <3>1, <1>3
  <2>2. PICK loaded \in AWord :
           loaded = Loaded(word, Place(rp)) /\ LoadedAs(loaded, i, count, rp, len)
    <3>1. len \in Nat /\ rp + len <= mp /\ Place(rp) + len <= SPACE  BY <1>2
    <3>2. word \in AWord /\ OfBurst(word, i, count, 1, len)  BY <2>1
    <3> HIDE DEF words, at
    <3> QED  BY <3>1, <3>2, LoadedWord
  <2>3. PICK c \in Nat :
           /\ c = (i - 1) * WORD /\ c < len /\ i * WORD = c + WORD
           /\ i = count <=> len - c <= WORD
           /\ loaded.keep = Least(WORD, len - c)
           /\ loaded.last <=> len - c <= WORD
           /\ \A j \in 1 .. loaded.keep : loaded.data[j] = rp + c + j
    BY <2>2 DEF LoadedAs
  <2>4. words[i] = loaded  BY <2>1, <2>2
  <2>5. PICK a \in Nat, e \in Nat :
           a = rp + c /\ e = IF loaded.last THEN z ELSE rp + c + WORD
    BY WordNat
  <2>6. at[i] = a
    <3>1. i \in 1 .. count + 1 /\ i <= count  OBVIOUS
    <3>2. at[i] = rp + ((i - 1) * WORD)  BY <3>1
    <3> QED  BY <3>2, <2>3, <2>5
  <2>7. at[i + 1] = e
    <3>1. CASE i = count
      <4>1. i + 1 \in 1 .. count + 1 /\ ~(i + 1 <= count)  BY <3>1
      <4>2. loaded.last  BY <3>1, <2>3
      <4> QED  BY <4>1, <4>2, <2>5
    <3>2. CASE i # count
      <4>1. i + 1 \in 1 .. count + 1 /\ i + 1 <= count /\ (i + 1) - 1 = i  BY <3>2
      <4>2. at[i + 1] = rp + (((i + 1) - 1) * WORD)  BY <4>1
      <4>3. ((i + 1) - 1) * WORD = c + WORD  BY <4>1, <2>3
      <4>4. PICK m : m = ((i + 1) - 1) * WORD  OBVIOUS
      <4>5. at[i + 1] = rp + m /\ m = c + WORD  BY <4>2, <4>3, <4>4
      <4>6. e = rp + c + WORD
        <5>1. ~loaded.last  BY <3>2, <2>3
        <5> QED  BY <5>1, <2>5
      <4> HIDE DEF at
      <4> QED  BY <4>5, <4>6, WordNat
    <3> QED  BY <3>1, <3>2
  <2>8. loaded.keep = e - a /\ a < e /\ e <= z /\ (loaded.last <=> e = z)
        /\ (loaded.last \/ loaded.keep = WORD)
    <3>1. CASE loaded.last
      <4>1. loaded.keep = len - c
        <5>1. len - c <= WORD /\ loaded.keep = Least(WORD, len - c)  BY <3>1, <2>3
        <5> QED  BY <5>1, WordNat DEF Least
      <4>2. c < len  BY <2>3
      <4> QED  BY <4>1, <4>2, <3>1, <2>5
    <3>2. CASE ~loaded.last
      <4>1. ~(len - c <= WORD) /\ loaded.keep = Least(WORD, len - c)  BY <3>2, <2>3
      <4>2. loaded.keep = WORD /\ len - c > WORD  BY <4>1, WordNat DEF Least
      <4>3. a = rp + c /\ e = rp + c + WORD  BY <3>2, <2>5
      <4> QED  BY <4>2, <4>3, <3>2, WordNat
    <3> QED  BY <3>1, <3>2
  <2>9. /\ \A p \in a + 1 .. e - 1 : ~ReadEnd(p)
        /\ ReadEnd(e) <=> e = z
    <3>1. \A p \in a + 1 .. e - 1 : p \in rp + 1 .. z - 1  BY <2>5, <2>8
    <3>2. e # z => e \in rp + 1 .. z - 1  BY <2>5, <2>8
    <3> QED  BY <3>1, <3>2, <1>1
  <2>10. \A j \in 1 .. e - a : loaded.data[j] = a + j  BY <2>3, <2>5, <2>8
  <2>11. e <= Asked
    <3>1. Asked \in Nat  BY AskedFacts
    <3> QED  BY <1>1, <2>8, <3>1
  <2>12. LoadStep(loaded, a, e)  BY <2>8, <2>9, <2>10, <2>11 DEF LoadStep
  <2>13. <<loaded, a, e>> \in LoadSteps(z)
    <3>1. e \in 0 .. z  BY <2>5, <2>8
    <3> QED  BY <3>1, <2>12 DEF LoadSteps
  <2> HIDE DEF words, at
  <2> QED  BY <2>2, <2>4, <2>6, <2>7, <2>13
<1>7. words \in Seq(AWord) /\ Len(words) = count
  <2>1. words \in [1 .. count -> AWord]  BY <1>6
  <2>2. words \in Seq(AWord)  BY <2>1, SeqDef
  <2>3. DOMAIN words = 1 .. count /\ DOMAIN words = 1 .. Len(words) /\ Len(words) \in Nat
    BY <2>1, <2>2, LenProperties
  <2> QED  BY <2>2, <2>3
<1>8. at[1] = rp /\ at[Len(words) + 1] = z
  <2>1. 1 \in 1 .. count + 1 /\ 1 <= count /\ rp + ((1 - 1) * WORD) = rp  BY WordNat
  <2>2. count + 1 \in 1 .. count + 1 /\ ~(count + 1 <= count)  OBVIOUS
  <2> QED  BY <2>1, <2>2, <1>7
<1> HIDE DEF words, at
<1>9. \E p : /\ p[1] = rp /\ p[Len(words) + 1] = z
             /\ \A i \in 1 .. Len(words) : <<words[i], p[i], p[i + 1]>> \in LoadSteps(z)
  BY <1>6, <1>7, <1>8
<1> QED  BY <1>5, <1>7, <1>9 DEF Chain

\* MemRead: the memory answers an access.
LEMMA MemReadKeeps ==
    ASSUME LoaderSteps, breakdown' = breakdown,
           NEW b, NEW bp, NEW rp, NEW f, NEW ip, NEW i, NEW k,
           ReadSide(b, bp, rp, f, ip, i, k), MemRead,
           NEW mp \in Nat, MemoryHolds(mp), written \in Nat, written <= mp
    PROVE  /\ \E rp2 : ReadSide(b, bp, rp2, f, ip, i, k)'
           /\ DOMAIN q' = BufferStreams /\ \A s \in WriteStreams : q'[s] = q[s]
<1>1. AskedStays /\ AskedInv /\ start \in Nat /\ Len(asked') = Len(asked)
  BY DEF LoaderSteps, AskedStays
<1>2. /\ {bp, rp, ip} \subseteq Nat
      /\ ReadsLeft(b) /\ AtBreakdown(b, bp) /\ FlagsLeft(f, b) /\ AccessesLeft(rp, bp)
      /\ LoadsLeft(ip, rp) /\ b \in 0 .. Len(asked)
  BY DEF ReadSide, ReadsLeft
<1>3. /\ Left \in Nat /\ Left <= rp
  <2>1. /\ Len(got) \in Nat /\ Len(got) + 1 <= i /\ i \in 1 .. Len(asked) + 1
        /\ ip \in Nat /\ rp \in Nat /\ Before(i) <= ip /\ ip <= rp
    BY <1>1, ReadBounds
  <2>2. Len(got) + 1 \in 1 .. Len(asked) + 1  BY <2>1, <1>1, AskedFacts
  <2>3. Left \in Nat /\ Before(i) \in Nat  BY <2>1, <2>2, <1>1, AskedFacts DEF Left
  <2>4. Left <= Before(i)  BY <2>1, <2>2, <1>1 DEF AskedInv, Left
  <2> QED  BY <2>1, <2>3, <2>4
<1> DEFINE cmd == Front("memCmd")
           words == [x \in DOMAIN Burst(1, cmd.len) |->
                        [Burst(1, cmd.len)[x] EXCEPT !.data =
                            [j \in 1 .. WORD |-> IF @[j] = Junk THEN Junk ELSE mem[cmd.addr + @[j] - 1]]]]
<1>4. Transfer({"memCmd"}, All("memData", words))  BY DEF MemRead
<1>5. words = LoadedWords(cmd.addr, cmd.len)  BY DEF LoadedWords, Loaded
<1> HIDE DEF words, cmd
<1>6. /\ q["memCmd"] # <<>> /\ q'["memCmd"] = Tail(q["memCmd"])
      /\ q'["memData"] = q["memData"] \o words /\ DOMAIN q' = BufferStreams
      /\ \A s \in BufferStreams \ {"memCmd", "memData"} : q'[s] = q[s]
  <2>1. "memCmd" \in BufferStreams /\ "memData" \in BufferStreams /\ "memCmd" # "memData"
    BY DEF BufferStreams
  <2>2. Sequences  BY DEF LoaderSteps
  <2> QED  BY <2>1, <2>2, <1>4, TakeAllEffect
<1>7. PICK z \in Nat : ReadStep(cmd, rp, z) /\ AccessesLeft(z, bp)'
  <2>1. \E z \in Nat : ReadStep(Front("memCmd"), rp, z) /\ AccessesLeft(z, bp)'
    BY <1>1, <1>2, <1>6, AccessTaken
  <2> QED  BY <2>1 DEF cmd
<1>8. rp \in Nat /\ rp < z /\ z <= Asked /\ cmd = Access(Place(rp), z - rp)
  BY <1>2, <1>7 DEF ReadStep
<1>9. z <= mp
  <2>1. Asked \in Nat /\ Asked <= written  BY <1>1, AskedFacts DEF AskedInv
  <2> QED  BY <2>1, <1>8
<1>10. PICK len \in Nat : len = z - rp /\ z = rp + len  BY <1>8
<1>11. words = LoadedWords(Place(rp), len)
  <2>1. cmd.addr = Place(rp) /\ cmd.len = len  BY <1>8, <1>10 DEF Access
  <2> QED  BY <2>1, <1>5
<1>12. Chain(words, AWord, LoadSteps(z), rp, z)
  <2>1. Chain(LoadedWords(Place(rp), len), AWord, LoadSteps(z), rp, z)
    BY <1>1, <1>3, <1>7, <1>8, <1>9, <1>10, LoadChain
  <2> QED  BY <2>1, <1>11
<1>13. LoadsLeft(ip, z)'
  <2>1. ip \in Nat /\ rp \in Nat /\ rp <= z /\ LoadsLeft(ip, rp)  BY <1>2, <1>8
  <2> QED  BY <2>1, <1>1, <1>6, <1>12, LoadsPut
<1>14. /\ q'["readCmd"] = q["readCmd"] /\ q'["out"] = q["out"]
       /\ q'["accessFlag"] = q["accessFlag"] /\ \A s \in WriteStreams : q'[s] = q[s]
  <2>1. /\ "readCmd" \in BufferStreams \ {"memCmd", "memData"}
        /\ "out" \in BufferStreams \ {"memCmd", "memData"}
        /\ "accessFlag" \in BufferStreams \ {"memCmd", "memData"}
        /\ WriteStreams \subseteq BufferStreams \ {"memCmd", "memData"}
    BY DEF BufferStreams, WriteStreams
  <2> QED  BY <2>1, <1>6
<1>15. ReadsLeft(b)' /\ FlagsLeft(f, b)' /\ AtBreakdown(b, bp)'
  BY <1>1, <1>2, <1>14, ReadsStay, FlagsStay, BreakdownStays
<1>16. AtStitcher(f, ip, i, k)' /\ OutLeft(i, k)' /\ AtLeaving'
  BY <1>14, ReadSideLoads DEF LoaderSteps
<1>17. ReadSide(b, bp, z, f, ip, i, k)'
  BY <1>2, <1>7, <1>13, <1>15, <1>16 DEF ReadSide
<1> QED  BY <1>6, <1>14, <1>17

-----------------------------------------------------------------------------
(***************************************************************************)
(* tcpPkgStitcher: each state of it leaves the chains around it whole.     *)
(***************************************************************************)
StitchSteps ==
    /\ AskedStays /\ asked' = asked /\ breakdown' = breakdown /\ got' = got /\ burst' = burst
    /\ Sequences /\ LengthsFit

\* What of the side that is read a step of the stitcher has to keep.
LEMMA StitchMoves ==
    ASSUME StitchSteps,
           NEW b, NEW bp, NEW rp, NEW f, NEW ip, NEW i, NEW k, ReadSide(b, bp, rp, f, ip, i, k),
           q'["readCmd"] = q["readCmd"], q'["memCmd"] = q["memCmd"],
           NEW f2, NEW ip2 \in Nat, NEW i2, NEW k2,
           FlagsLeft(f2, b)', LoadsLeft(ip2, rp)', AtStitcher(f2, ip2, i2, k2)', OutLeft(i2, k2)'
    PROVE  ReadSide(b, bp, rp, f2, ip2, i2, k2)'
<1>1. AskedStays /\ Len(asked') = Len(asked) /\ got' = got /\ burst' = burst
      /\ breakdown' = breakdown
  BY DEF StitchSteps
<1>2. /\ {bp, rp, ip} \subseteq Nat
      /\ ReadsLeft(b) /\ AtBreakdown(b, bp) /\ AccessesLeft(rp, bp) /\ AtLeaving
      /\ b \in 0 .. Len(asked)
  BY DEF ReadSide, ReadsLeft
<1>3. ReadsLeft(b)' /\ AtBreakdown(b, bp)' /\ AccessesLeft(rp, bp)'
  BY <1>1, <1>2, ReadsStay, BreakdownStays, AccessesStay
<1>4. Len(got) <= Len(asked)
  <2>1. Len(got) \in Nat /\ Len(got) + 1 <= i /\ i \in 1 .. Len(asked) + 1 /\ Len(asked) \in Nat
    BY <1>1, ReadBounds, AskedFacts DEF AskedStays
  <2> QED  BY <2>1
<1>5. AtLeaving'  BY <1>1, <1>2, <1>4, LeavingStays
<1> QED  BY <1>2, <1>3, <1>5 DEF ReadSide

\* The next word of a burst starts one word further on.
LEMMA PointNext ==
    ASSUME NEW i, NEW k \in Nat, Before(i) \in Nat
    PROVE  Point(i, 1) = Before(i) /\ Point(i, k + 1) = Point(i, k) + WORD /\ Point(i, k) \in Int
<1>1. WORD \in Nat  BY WordNat
<1>2. PICK p \in Nat : p = Before(i)  OBVIOUS
<1>3. (1 - 1) * WORD = 0 /\ ((k + 1) - 1) * WORD \in Int /\ ((k + 1) - 1) * WORD = ((k - 1) * WORD) + WORD /\ (k - 1) * WORD \in Int
  BY <1>1
<1>4. Point(i, 1) = p + ((1 - 1) * WORD) /\ Point(i, k + 1) = p + (((k + 1) - 1) * WORD)
      /\ Point(i, k) = p + ((k - 1) * WORD)
  BY <1>2 DEF Point
<1>5. PICK x \in Int, y \in Int : x = (k - 1) * WORD /\ y = ((k + 1) - 1) * WORD /\ y = x + WORD
  BY <1>3
<1>6. Point(i, k + 1) = p + y /\ Point(i, k) = p + x  BY <1>4, <1>5
<1>7. p + y = (p + x) + WORD /\ p + x \in Int  BY <1>1, <1>5
<1>8. Point(i, 1) = Before(i)  BY <1>2, <1>3, <1>4
<1> QED  BY <1>6, <1>7, <1>8

\* A burst that is whole words long, or ends with whole words.
LEMMA WholeWords ==
    ASSUME AskedInv, NEW i \in DOMAIN asked, NEW k \in Nat \ {0}, Point(i, k) = asked[i]
    PROVE  Length(i) % WORD = 0
<1>1. Length(i) \in Nat \ {0} /\ Length(i) = asked[i] - Before(i) /\ Before(i) \in Nat
      /\ asked[i] \in Nat
  BY AskedFacts
<1>2. PICK m \in Nat : m = k - 1  OBVIOUS
<1>3. m * WORD \in Nat  BY WordNat
<1>4. Point(i, k) = Before(i) + (m * WORD)  BY <1>2 DEF Point
<1>5. PICK x \in Nat : x = m * WORD  BY <1>3
<1>6. Length(i) = x  BY <1>1, <1>4, <1>5
<1>7. Length(i) = m * WORD  BY <1>5, <1>6
<1> QED  BY <1>1, <1>2, <1>7, Multiple, WordNat

\* The next word that is read, of burst i from behind ip.
NextLoad(word, z, end, ip, i) ==
    /\ end = asked[i]
    /\ word.data \in Data /\ word.keep \in 1 .. WORD /\ word.last \in BOOLEAN
    /\ ip < z /\ z <= end /\ word.keep = z - ip
    /\ word.last \/ word.keep = WORD
    /\ \A j \in 1 .. word.keep : word.data[j] = ip + j
    /\ word.last <=> z = end \/ (Crosses(i) /\ z = Turn(i))
    /\ Crosses(i) => /\ Turn(i) \in Nat /\ Before(i) < Turn(i) /\ Turn(i) < end
                     /\ ip < Turn(i) => z <= Turn(i)

\* The next word the stitcher takes, of the burst it works on.
LEMMA LoadComes ==
    ASSUME AskedStays, LengthsFit, NEW rp \in Nat, NEW ip \in Nat, LoadsLeft(ip, rp),
           q["memData"] # <<>>, q'["memData"] = Tail(q["memData"]),
           NEW i \in DOMAIN asked, i > Len(got), Before(i) <= ip, ip < asked[i]
    PROVE  \E word \in AWord, z \in Nat, end \in Nat :
              /\ word = Front("memData") /\ LoadsLeft(z, rp)' /\ NextLoad(word, z, end, ip, i)
<1>1. AskedInv /\ start \in Nat  BY DEF AskedStays
<1>2. PICK word \in AWord, z \in Nat :
         word = Front("memData") /\ LoadStep(word, ip, z) /\ LoadsLeft(z, rp)'
  BY LoadTaken
<1>3. /\ ip < z /\ z <= Asked /\ \A p \in ip + 1 .. z - 1 : ~ReadEnd(p)
      /\ (word.last <=> ReadEnd(z)) /\ (word.last \/ word.keep = WORD)
      /\ word.keep = z - ip /\ \A j \in 1 .. z - ip : word.data[j] = ip + j
  BY <1>2 DEF LoadStep
<1>4. PICK end \in Nat, before \in Nat :
         end = asked[i] /\ before = Before(i) /\ before < end /\ before <= ip /\ ip < end
  <2>1. asked[i] \in Nat /\ Before(i) \in Nat /\ Before(i) < asked[i]
    BY <1>1, AskedFacts DEF AskedInv
  <2> QED  BY <2>1
<1>5. Length(i) < SPACE  BY DEF LengthsFit
<1>6. ASSUME NEW p \in Nat, before < p, p <= end
      PROVE  ReadEnd(p) <=> p = end \/ (Crosses(i) /\ p = Turn(i))
  BY <1>1, <1>4, <1>5, <1>6, BurstEnds
<1>7. Crosses(i) => Turn(i) \in Nat /\ before < Turn(i) /\ Turn(i) < end
  BY <1>1, <1>4, TurnFacts
<1>8. z <= end
  <2>1. SUFFICES ASSUME z > end PROVE FALSE  BY <1>4
  <2>2. end \in ip + 1 .. z - 1  BY <2>1, <1>4
  <2>3. ReadEnd(end)  BY <1>4, <1>6
  <2> QED  BY <2>2, <2>3, <1>3
<1>9. word.last <=> z = end \/ (Crosses(i) /\ z = Turn(i))
  <2>1. before < z  BY <1>3, <1>4
  <2>2. ReadEnd(z) <=> z = end \/ (Crosses(i) /\ z = Turn(i))  BY <2>1, <1>6, <1>8
  <2> QED  BY <2>2, <1>3
<1>10. ASSUME Crosses(i), ip < Turn(i) PROVE z <= Turn(i)
  <2>1. PICK turn \in Nat : turn = Turn(i) /\ before < turn /\ turn < end
    BY <1>7, <1>10
  <2>2. ReadEnd(turn)  BY <2>1, <1>6, <1>10
  <2>3. SUFFICES ASSUME z > turn PROVE FALSE  BY <2>1
  <2>4. turn \in ip + 1 .. z - 1  BY <2>1, <2>3, <1>10
  <2> QED  BY <2>2, <2>4, <1>3
<1>11. word.data \in Data /\ word.keep \in 0 .. WORD /\ word.last \in BOOLEAN
  BY WordParts
<1>12. word.keep \in 1 .. WORD  BY <1>3, <1>11, WordNat
<1>13. NextLoad(word, z, end, ip, i)
  BY <1>3, <1>4, <1>7, <1>8, <1>9, <1>10, <1>11, <1>12 DEF NextLoad
<1> QED  BY <1>2, <1>13

\* What StitchData does to the streams.
LEMMA DataEffect ==
    ASSUME Sequences, NEW unread \in BOOLEAN, NEW silent \in BOOLEAN, NEW v,
           Transfer({"memData"} \cup (IF unread THEN {"accessFlag"} ELSE {}),
                    IF silent THEN Silent ELSE To("out", v))
    PROVE  /\ q["memData"] # <<>> /\ q'["memData"] = Tail(q["memData"])
           /\ unread => q["accessFlag"] # <<>> /\ q'["accessFlag"] = Tail(q["accessFlag"])
           /\ ~unread => q'["accessFlag"] = q["accessFlag"]
           /\ silent => q'["out"] = q["out"]
           /\ ~silent => q'["out"] = q["out"] \o <<v>>
           /\ DOMAIN q' = BufferStreams
           /\ \A s \in BufferStreams \ {"memData", "accessFlag", "out"} : q'[s] = q[s]
<1>1. /\ "memData" \in BufferStreams /\ "accessFlag" \in BufferStreams /\ "out" \in BufferStreams
      /\ "memData" # "accessFlag" /\ "memData" # "out" /\ "accessFlag" # "out"
  BY DEF BufferStreams
<1>2. {"memData"} \cup {"accessFlag"} = {"memData", "accessFlag"} /\ {"memData"} \cup {} = {"memData"}
  OBVIOUS
<1>3. CASE unread /\ silent
  <2>1. Transfer({"memData", "accessFlag"}, Silent)  BY <1>2, <1>3
  <2>2. /\ q["memData"] # <<>> /\ q'["memData"] = Tail(q["memData"])
        /\ q["accessFlag"] # <<>> /\ q'["accessFlag"] = Tail(q["accessFlag"])
        /\ DOMAIN q' = BufferStreams
        /\ \A s \in BufferStreams \ {"memData", "accessFlag"} : q'[s] = q[s]
    BY <1>1, <2>1, TakeTwoEffect
  <2> QED  BY <1>1, <1>3, <2>2
<1>4. CASE unread /\ ~silent
  <2>1. Transfer({"memData", "accessFlag"}, To("out", v))  BY <1>2, <1>4
  <2>2. /\ q["memData"] # <<>> /\ q'["memData"] = Tail(q["memData"])
        /\ q["accessFlag"] # <<>> /\ q'["accessFlag"] = Tail(q["accessFlag"])
        /\ q'["out"] = q["out"] \o <<v>> /\ DOMAIN q' = BufferStreams
        /\ \A s \in BufferStreams \ {"memData", "accessFlag", "out"} : q'[s] = q[s]
    BY <2>1, FlaggedEffect
  <2> QED  BY <1>1, <1>4, <2>2
<1>5. CASE ~unread /\ silent
  <2>1. Transfer({"memData"}, Silent)  BY <1>2, <1>5
  <2>2. /\ q["memData"] # <<>> /\ q'["memData"] = Tail(q["memData"])
        /\ DOMAIN q' = BufferStreams
        /\ \A s \in BufferStreams \ {"memData"} : q'[s] = q[s]
    BY <1>1, <2>1, TakeEffect
  <2> QED  BY <1>1, <1>5, <2>2
<1>6. CASE ~unread /\ ~silent
  <2>1. Transfer({"memData"}, To("out", v))  BY <1>2, <1>6
  <2>2. /\ q["memData"] # <<>> /\ q'["memData"] = Tail(q["memData"])
        /\ q'["out"] = q["out"] \o <<v>> /\ DOMAIN q' = BufferStreams
        /\ \A s \in BufferStreams \ {"memData", "out"} : q'[s] = q[s]
    BY <1>1, <2>1, TakePutEffect
  <2> QED  BY <1>1, <1>6, <2>2
<1> QED  BY <1>3, <1>4, <1>5, <1>6

\* The stitcher puts word k of burst i.
LEMMA WordLeaves ==
    ASSUME StitchSteps,
           NEW b, NEW bp, NEW rp, NEW f, NEW ip, NEW i, NEW k, ReadSide(b, bp, rp, f, ip, i, k),
           i \in DOMAIN asked,
           NEW word \in AWord, Filled(i) \/ SegmentWord(word, i, Point(i, k)),
           q'["out"] = q["out"] \o <<word>>
    PROVE  /\ word.last => OutLeft(i + 1, 1)'
           /\ ~word.last => OutLeft(i, k + 1)'
<1>1. /\ AskedStays /\ AskedInv /\ got' = got /\ burst' = burst /\ OutLeft(i, k)
      /\ i \in Nat /\ k \in Nat /\ Len(got) \in Nat
  <2>1. AskedStays /\ AskedInv /\ got' = got /\ burst' = burst
    BY DEF StitchSteps, AskedStays
  <2>2. OutLeft(i, k) /\ k \in Nat  BY DEF ReadSide, AtStitcher
  <2>3. Len(got) \in Nat /\ i \in Nat  BY <2>1, ReadBounds
  <2> QED  BY <2>1, <2>2, <2>3
<1>2. CASE word.last
  <2>1. PICK i2 \in Nat, k2 \in Nat : i2 = i + 1 /\ k2 = 1  BY <1>1
  <2>2. OutStep(word, <<i, k>>, <<i2, k2>>)  BY <1>2, <2>1 DEF OutStep
  <2>3. i <= i2  BY <1>1, <2>1
  <2>4. OutLeft(i2, k2)'  BY <1>1, <2>2, <2>3, OutPut
  <2> QED  BY <1>2, <2>1, <2>4
<1>3. CASE ~word.last
  <2>1. PICK k2 \in Nat : k2 = k + 1  BY <1>1
  <2>2. OutStep(word, <<i, k>>, <<i, k2>>)  BY <1>3, <2>1 DEF OutStep
  <2>3. i <= i  BY <1>1
  <2>4. OutLeft(i, k2)'  BY <1>1, <2>2, <2>3, OutPut
  <2> QED  BY <1>3, <2>1, <2>4
<1> QED  BY <1>2, <1>3

\* In state "data": the burst, and its flag.
LEMMA FlagKnown ==
    ASSUME StitchSteps, r.state = "data",
           NEW b, NEW bp, NEW rp, NEW f, NEW ip, NEW i, NEW k, ReadSide(b, bp, rp, f, ip, i, k),
           r.flag = Unread =>
              q["accessFlag"] # <<>> /\ q'["accessFlag"] = Tail(q["accessFlag"]),
           r.flag # Unread => q'["accessFlag"] = q["accessFlag"]
    PROVE  /\ i \in DOMAIN asked /\ i > Len(got) /\ Before(i) <= ip /\ ip < asked[i]
           /\ ip = Point(i, k) /\ FlagsLeft(i, b)'
           /\ (IF r.flag = Unread THEN Front("accessFlag") ELSE r.flag)
                 = IF Crosses(i) /\ ip < Turn(i) THEN 1 ELSE 0
<1>1. /\ AskedStays /\ AskedInv /\ start \in Nat /\ b \in 0 .. Len(asked) /\ FlagsLeft(f, b)
      /\ AtStitcher(f, ip, i, k)
  BY DEF StitchSteps, AskedStays, ReadSide, ReadsLeft
<1>2. Len(got) \in Nat /\ Len(got) + 1 <= i /\ i \in 1 .. Len(asked) + 1 /\ Before(i) <= ip
      /\ ip \in Nat /\ Len(asked) \in Nat
  BY <1>1, ReadBounds, AskedFacts
<1>3. i > Len(got)  BY <1>2
<1>4. AtStart(f, ip, i, k) \/ AtData(f, ip, i, k)
  <2>1. ~AtMerge(f, ip, i, k) /\ ~AtRest(f, ip, i, k)  BY DEF AtMerge, AtRest
  <2> QED  BY <1>1, <2>1 DEF AtStitcher
<1>5. CASE AtStart(f, ip, i, k)
  <2>1. r.flag = Unread /\ f = i - 1 /\ k = 1 /\ ip = Before(i)  BY <1>5 DEF AtStart
  <2>2. /\ f \in Nat /\ f + 1 \in DOMAIN asked
        /\ Front("accessFlag") = IF Crosses(f + 1) THEN 1 ELSE 0
        /\ FlagsLeft(f + 1, b)'
    BY <1>1, <2>1, FlagTaken
  <2>3. f + 1 = i  BY <1>2, <2>1, <2>2
  <2>4. i \in DOMAIN asked /\ Before(i) < asked[i] /\ Before(i) \in Nat
    BY <1>1, <2>2, <2>3, AskedFacts DEF AskedInv
  <2>5. ip = Point(i, k)  BY <2>1, <2>4, PointNext
  <2>6. Crosses(i) => ip < Turn(i)  BY <1>1, <2>1, <2>4, TurnFacts
  <2>7. Front("accessFlag") = IF Crosses(i) /\ ip < Turn(i) THEN 1 ELSE 0
    BY <2>2, <2>3, <2>6
  <2> QED  BY <1>2, <1>3, <2>1, <2>2, <2>3, <2>4, <2>5, <2>7
<1>6. CASE AtData(f, ip, i, k)
  <2>1. /\ r.flag = (IF Crosses(i) /\ ip < Turn(i) THEN 1 ELSE 0)
        /\ f = i /\ i \in DOMAIN asked /\ ip = Point(i, k) /\ ip < asked[i]
    BY <1>6 DEF AtData
  <2>2. r.flag # Unread  BY <2>1 DEF Unread
  <2>3. FlagsLeft(i, b)'  BY <1>1, <2>1, <2>2, FlagsStay
  <2> QED  BY <1>2, <1>3, <2>1, <2>2, <2>3
<1> QED  BY <1>4, <1>5, <1>6

\* What the stitcher leaves alone.
LEMMA UseSame ==
    ASSUME StitchSteps
    PROVE  /\ \A j : /\ Before(j)' = Before(j) /\ Address(j)' = Address(j) /\ Length(j)' = Length(j)
                     /\ (Crosses(j)' <=> Crosses(j)) /\ Turn(j)' = Turn(j)
                     /\ \A n : Point(j, n)' = Point(j, n)
           /\ asked' = asked /\ AskedInv /\ start \in Nat
<1>1. asked' = asked /\ start' = start /\ AskedInv /\ start \in Nat
  BY DEF StitchSteps, AskedStays
<1>2. ASSUME NEW j
      PROVE  /\ Before(j)' = Before(j) /\ Address(j)' = Address(j) /\ Length(j)' = Length(j)
             /\ (Crosses(j)' <=> Crosses(j)) /\ Turn(j)' = Turn(j)
             /\ \A n : Point(j, n)' = Point(j, n)
  <2>1. Before(j)' = Before(j)  BY <1>1 DEF Before
  <2>2. Address(j)' = Address(j) /\ Length(j)' = Length(j)
    BY <1>1, <2>1 DEF Address, Length, Place
  <2> QED  BY <2>1, <2>2 DEF Crosses, Turn, Point
<1> QED  BY <1>1, <1>2

\* The four places the stitcher can come to: between two bursts,
LEMMA ToStart ==
    ASSUME StitchSteps, NEW i \in DOMAIN asked, NEW z, z = asked[i],
           NEW word \in AWord, NEW shift \in 0 .. WORD,
           r' = [state |-> "data", flag |-> Unread, word |-> word, shift |-> shift]
    PROVE  AtStitcher(i, z, i + 1, 1)'
<1>1. /\ \A j : Before(j)' = Before(j)
      /\ asked' = asked /\ AskedInv /\ start \in Nat
  BY UseSame
<1>2. asked[i] = Before(i + 1) /\ i + 1 \in 1 .. Len(asked) + 1 /\ asked[i] \in Nat /\ i \in Nat
  BY <1>1, AskedFacts
<1>3. StitcherTyped'  BY DEF StitcherTyped
<1>4. AtStart(i, z, i + 1, 1)'
  <2>1. r'.state = "data" /\ r'.flag = Unread  OBVIOUS
  <2>2. i = (i + 1) - 1 /\ z = Before(i + 1)'  BY <1>1, <1>2
  <2> QED  BY <2>1, <2>2 DEF AtStart
<1>5. Before(i + 1)' <= z /\ i + 1 \in 1 .. Len(asked') + 1  BY <1>1, <1>2
<1> QED  BY <1>3, <1>4, <1>5 DEF AtStitcher

\* within a burst whose words it passes on,
LEMMA ToData ==
    ASSUME StitchSteps, NEW i \in DOMAIN asked, NEW k \in Nat, NEW z, z = Point(i, k),
           Before(i) <= z, z < asked[i], NEW flag, flag = IF Crosses(i) /\ z < Turn(i) THEN 1 ELSE 0,
           NEW word \in AWord, NEW shift \in 0 .. WORD,
           r' = [state |-> "data", flag |-> flag, word |-> word, shift |-> shift]
    PROVE  AtStitcher(i, z, i, k)'
<1>1. /\ \A j : /\ Before(j)' = Before(j) /\ (Crosses(j)' <=> Crosses(j)) /\ Turn(j)' = Turn(j)
                /\ \A n : Point(j, n)' = Point(j, n)
      /\ asked' = asked /\ AskedInv /\ start \in Nat
  BY UseSame
<1>2. i \in 1 .. Len(asked) + 1  BY <1>1, AskedFacts
<1>3. StitcherTyped'
  <2>1. flag \in {0, 1, Unread}  OBVIOUS
  <2> QED  BY <2>1 DEF StitcherTyped
<1>4. AtData(i, z, i, k)'
  <2>1. r'.state = "data" /\ r'.flag = flag  OBVIOUS
  <2>2. flag = IF Crosses(i)' /\ z < Turn(i)' THEN 1 ELSE 0  BY <1>1
  <2>3. i \in DOMAIN asked' /\ z = Point(i, k)' /\ z < asked'[i]  BY <1>1
  <2> QED  BY <2>1, <2>2, <2>3 DEF AtData
<1>5. Before(i)' <= z /\ i \in 1 .. Len(asked') + 1  BY <1>1, <1>2
<1> QED  BY <1>3, <1>4, <1>5 DEF AtStitcher

MergeTyped == r \in [state : {"join", "merged"}, flag : {0, 1, Unread}, word : AWord, shift : 1 .. WORD - 1]

\* within one whose words it has to move,
LEMMA ToMerge ==
    ASSUME StitchSteps, NEW i \in DOMAIN asked, NEW k \in Nat, NEW z \in Nat,
           Crosses(i), Address(i) % WORD # 0, Before(i) <= z, Turn(i) <= z, z < asked[i],
           MergeTyped', Point(i, k) = z - r'.shift,
           Keeps(IF r.state = "join" THEN 0 ELSE WORD - r.shift, r.shift, z - r.shift)'
    PROVE  AtStitcher(i, z, i, k)'
<1>1. /\ \A j : /\ Before(j)' = Before(j) /\ (Crosses(j)' <=> Crosses(j)) /\ Turn(j)' = Turn(j)
                /\ Address(j)' = Address(j)
                /\ \A n : Point(j, n)' = Point(j, n)
      /\ asked' = asked /\ AskedInv /\ start \in Nat
  BY UseSame
<1>2. i \in 1 .. Len(asked) + 1  BY <1>1, AskedFacts
<1>3. StitcherTyped'
  <2>1. \A shift \in 1 .. WORD - 1 : shift \in 0 .. WORD  BY WordNat
  <2> QED  BY <2>1 DEF StitcherTyped, MergeTyped
<1>4. r'.state \in {"join", "merged"} /\ r'.shift \in 1 .. WORD - 1  BY DEF MergeTyped
<1>5. Moved(i, i)'  BY <1>1, <1>4 DEF Moved
<1>6. AtMerge(i, z, i, k)'
  <2>1. Turn(i)' <= z /\ z < asked'[i] /\ Point(i, k)' = z - r'.shift  BY <1>1
  <2> QED  BY <1>4, <1>5, <2>1 DEF AtMerge
<1>7. Before(i)' <= z /\ i \in 1 .. Len(asked') + 1  BY <1>1, <1>2
<1> QED  BY <1>3, <1>6, <1>7 DEF AtStitcher

RestTyped == r \in [state : {"residue"}, flag : {0, 1, Unread}, word : AWord, shift : 1 .. WORD - 1]

\* and at the end of one, where bytes are left.
LEMMA ToRest ==
    ASSUME StitchSteps, NEW i \in DOMAIN asked, NEW k \in Nat, NEW z \in Nat,
           Crosses(i), Address(i) % WORD # 0, Before(i) <= z, z = asked[i], RestTyped',
           NEW over \in Nat, over = (r'.word.keep + r'.shift) - WORD,
           Point(i, k) = z - over, Keeps(WORD - r.shift, over, z - over)'
    PROVE  AtStitcher(i, z, i, k)'
<1>1. /\ \A j : /\ Before(j)' = Before(j) /\ (Crosses(j)' <=> Crosses(j)) /\ Turn(j)' = Turn(j)
                /\ Address(j)' = Address(j)
                /\ \A n : Point(j, n)' = Point(j, n)
      /\ asked' = asked /\ AskedInv /\ start \in Nat
  BY UseSame
<1>2. i \in 1 .. Len(asked) + 1  BY <1>1, AskedFacts
<1>3. StitcherTyped'
  <2>1. \A shift \in 1 .. WORD - 1 : shift \in 0 .. WORD  BY WordNat
  <2> QED  BY <2>1 DEF StitcherTyped, RestTyped
<1>4. r'.state = "residue" /\ r'.shift \in 1 .. WORD - 1 /\ r'.word \in AWord
  BY DEF RestTyped
<1>5. Moved(i, i)'  BY <1>1, <1>4 DEF Moved
<1>6. AtRest(i, z, i, k)'
  <2>1. PICK keep \in Nat, shift \in 1 .. WORD - 1 : keep = r'.word.keep /\ shift = r'.shift
    BY <1>4, WordParts, WordNat
  <2>2. over = keep + shift - WORD /\ keep >= WORD - shift  BY <2>1, WordNat
  <2>3. over = r'.word.keep + r'.shift - WORD /\ r'.word.keep >= WORD - r'.shift
    BY <2>1, <2>2
  <2>4. z = asked'[i] /\ Point(i, k)' = z - over  BY <1>1
  <2>5. \A j \in 1 .. over : r'.word.data[WORD - r'.shift + j] = Point(i, k)' + j
    BY <2>4 DEF Keeps
  <2> QED  BY <1>4, <1>5, <2>3, <2>4, <2>5 DEF AtRest, Keeps
<1>7. Before(i)' <= z /\ i \in 1 .. Len(asked') + 1  BY <1>1, <1>2
<1> QED  BY <1>3, <1>6, <1>7 DEF AtStitcher

\* Where the first access ends within a word, the second has to be moved.
LEMMA EndsWithin ==
    ASSUME AskedInv, start \in Nat, NEW i \in DOMAIN asked, Crosses(i), NEW k \in Nat,
           NEW shift \in 1 .. WORD - 1, Turn(i) = Point(i, k) + shift
    PROVE  Address(i) % WORD # 0
<1>1. /\ Turn(i) \in Nat /\ Turn(i) - Before(i) = SPACE - Address(i)
      /\ Address(i) \in 0 .. SPACE - 1 /\ Before(i) \in Nat /\ SPACE \in Nat
  BY TurnFacts, AskedFacts, SpaceNat
<1>2. PICK before \in Nat, x \in Int, o \in 0 .. SPACE - 1 :
         before = Before(i) /\ x = (k - 1) * WORD /\ o = Address(i)
  BY <1>1, WordNat
<1>3. Point(i, k) = before + x  BY <1>2 DEF Point
<1>4. SPACE - o = x + shift  BY <1>1, <1>2, <1>3
<1>5. ASSUME NEW m \in Nat, SPACE - o = m * WORD PROVE FALSE
  <2>1. m * WORD + 0 = (k - 1) * WORD + shift
    <3>1. PICK y \in Int : y = m * WORD  BY WordNat
    <3>2. y + 0 = x + shift  BY <3>1, <1>4, <1>5
    <3> QED  BY <3>1, <3>2, <1>2
  <2>2. m \in Int /\ k - 1 \in Int /\ 0 \in 0 .. WORD - 1 /\ shift \in 0 .. WORD - 1
        /\ WORD \in Nat \ {0}
    BY WordNat
  <2>3. 0 = shift  BY <2>1, <2>2, Unique
  <2> QED  BY <2>3
<1> QED  BY <1>2, <1>5, EndAligned

\* StitchData: a word is passed on, cut where the first access ends.
LEMMA StitchDataKeeps ==
    ASSUME StitchSteps,
           NEW b, NEW bp, NEW rp, NEW f, NEW ip, NEW i, NEW k, ReadSide(b, bp, rp, f, ip, i, k),
           StitchData
    PROVE  /\ \E f2, ip2, i2, k2 : ReadSide(b, bp, rp, f2, ip2, i2, k2)'
           /\ DOMAIN q' = BufferStreams /\ \A s \in WriteStreams : q'[s] = q[s]
<1> DEFINE Flag == IF r.flag = Unread THEN Front("accessFlag") ELSE r.flag
           Word == Front("memData")
           Kept0 == [Word EXCEPT !.last = @ /\ Flag = 0]
           Joins == Word.last /\ Flag = 1
           Quiet == Joins /\ Word.keep < WORD
<1>1. /\ r.state = "data"
      /\ Transfer({"memData"} \cup (IF r.flag = Unread THEN {"accessFlag"} ELSE {}),
                  IF Quiet THEN Silent ELSE To("out", Kept0))
      /\ r' = IF Joins THEN [r EXCEPT !.flag = 0, !.word = Kept0, !.shift = Word.keep,
                                      !.state = IF Word.keep < WORD THEN "join" ELSE @]
              ELSE IF Word.last THEN [Ended EXCEPT !.word = Word]
              ELSE [r EXCEPT !.flag = Flag, !.word = Word]
  BY DEF StitchData
<1>2. PICK unread \in BOOLEAN, silent \in BOOLEAN : (unread <=> r.flag = Unread) /\ (silent <=> Quiet)
  OBVIOUS
<1>3. PICK kept, flag, first : kept = Kept0 /\ flag = Flag /\ first = Word  OBVIOUS
<1>4. /\ (unread <=> r.flag = Unread) /\ (silent <=> Quiet) /\ kept = Kept0 /\ flag = Flag
      /\ first = Word
  BY <1>2, <1>3
<1>5. Transfer({"memData"} \cup (IF unread THEN {"accessFlag"} ELSE {}),
               IF silent THEN Silent ELSE To("out", kept))
  BY <1>1, <1>4
<1>6. kept = [first EXCEPT !.last = @ /\ flag = 0]  BY <1>4
<1>7. silent <=> first.last /\ flag = 1 /\ first.keep < WORD  BY <1>4
<1>8. r' = IF first.last /\ flag = 1
           THEN [r EXCEPT !.flag = 0, !.word = kept, !.shift = first.keep,
                          !.state = IF first.keep < WORD THEN "join" ELSE @]
           ELSE IF first.last THEN [Ended EXCEPT !.word = first]
           ELSE [r EXCEPT !.flag = flag, !.word = first]
  BY <1>1, <1>4
<1>9. flag = Flag /\ first = Front("memData")  BY <1>4
<1>10. flag = IF r.flag = Unread THEN Front("accessFlag") ELSE r.flag  BY <1>9
<1> HIDE DEF Flag, Word, Kept0, Joins, Quiet
<1>11. /\ q["memData"] # <<>> /\ q'["memData"] = Tail(q["memData"])
       /\ unread => q["accessFlag"] # <<>> /\ q'["accessFlag"] = Tail(q["accessFlag"])
       /\ ~unread => q'["accessFlag"] = q["accessFlag"]
       /\ silent => q'["out"] = q["out"]
       /\ ~silent => q'["out"] = q["out"] \o <<kept>>
       /\ DOMAIN q' = BufferStreams
       /\ \A s \in BufferStreams \ {"memData", "accessFlag", "out"} : q'[s] = q[s]
  <2>1. Sequences  BY DEF StitchSteps
  <2> QED  BY <2>1, <1>5, DataEffect
<1>12. /\ q'["readCmd"] = q["readCmd"] /\ q'["memCmd"] = q["memCmd"]
       /\ \A s \in WriteStreams : q'[s] = q[s]
  <2>1. /\ "readCmd" \in BufferStreams \ {"memData", "accessFlag", "out"}
        /\ "memCmd" \in BufferStreams \ {"memData", "accessFlag", "out"}
        /\ WriteStreams \subseteq BufferStreams \ {"memData", "accessFlag", "out"}
    BY DEF BufferStreams, WriteStreams
  <2> QED  BY <2>1, <1>11
<1>13. /\ i \in DOMAIN asked /\ i > Len(got) /\ Before(i) <= ip /\ ip < asked[i]
       /\ ip = Point(i, k) /\ FlagsLeft(i, b)'
       /\ flag = IF Crosses(i) /\ ip < Turn(i) THEN 1 ELSE 0
  <2>1. r.flag = Unread => q["accessFlag"] # <<>> /\ q'["accessFlag"] = Tail(q["accessFlag"])
    BY <1>4, <1>11
  <2>2. r.flag # Unread => q'["accessFlag"] = q["accessFlag"]  BY <1>4, <1>11
  <2> QED  BY <2>1, <2>2, <1>1, <1>10, FlagKnown
<1>14. /\ AskedStays /\ AskedInv /\ start \in Nat /\ LengthsFit
       /\ StitcherTyped /\ k \in Nat /\ OutLeft(i, k) /\ LoadsLeft(ip, rp)
       /\ ip \in Nat /\ rp \in Nat /\ Before(i) \in Nat /\ i \in Nat
  <2>1. AskedStays /\ AskedInv /\ start \in Nat /\ LengthsFit
    BY DEF StitchSteps, AskedStays
  <2>2. AtStitcher(f, ip, i, k) /\ OutLeft(i, k) /\ LoadsLeft(ip, rp)  BY DEF ReadSide
  <2>3. StitcherTyped /\ k \in Nat  BY <2>2 DEF AtStitcher
  <2>4. ip \in Nat /\ rp \in Nat /\ i \in 1 .. Len(asked) + 1  BY <2>1, ReadBounds
  <2>5. Before(i) \in Nat /\ i \in Nat  BY <2>1, <2>4, AskedFacts
  <2> QED  BY <2>1, <2>2, <2>3, <2>4, <2>5
<1>15. PICK word \in AWord, z \in Nat, end \in Nat :
          word = Front("memData") /\ LoadsLeft(z, rp)' /\ NextLoad(word, z, end, ip, i)
  <2>1. q["memData"] # <<>> /\ q'["memData"] = Tail(q["memData"])  BY <1>11
  <2> QED  BY <2>1, <1>13, <1>14, LoadComes
<1>16. /\ word = Front("memData") /\ LoadsLeft(z, rp)' /\ end = asked[i]
       /\ word.data \in Data /\ word.keep \in 1 .. WORD /\ word.last \in BOOLEAN
       /\ ip < z /\ z <= end /\ word.keep = z - ip
       /\ word.last \/ word.keep = WORD
       /\ \A j \in 1 .. word.keep : word.data[j] = ip + j
       /\ word.last <=> z = end \/ (Crosses(i) /\ z = Turn(i))
       /\ Crosses(i) => /\ Turn(i) \in Nat /\ Before(i) < Turn(i) /\ Turn(i) < end
                        /\ ip < Turn(i) => z <= Turn(i)
  BY <1>15 DEF NextLoad
<1>17. first = word  BY <1>9, <1>16
<1>18. PICK data \in Data, keep \in 1 .. WORD, last \in BOOLEAN :
          word = [data |-> data, keep |-> keep, last |-> last]
          /\ data = word.data /\ keep = word.keep /\ last = word.last
  BY <1>16 DEF AWord
<1>19. PICK ends \in BOOLEAN : ends <=> last /\ flag = 0  OBVIOUS
<1>20. /\ kept = [data |-> data, keep |-> keep, last |-> ends]
       /\ kept \in AWord /\ kept.keep = keep /\ kept.last = ends /\ kept.data = data
  <2>1. kept = [data |-> data, keep |-> keep, last |-> ends]
    BY <1>6, <1>17, <1>18, <1>19
  <2>2. keep \in 0 .. WORD  BY WordNat
  <2> QED  BY <2>1, <2>2 DEF AWord
<1>21. PICK f0 \in {0, 1, Unread}, w0 \in AWord, s0 \in 0 .. WORD :
          r = [state |-> "data", flag |-> f0, word |-> w0, shift |-> s0]
  BY <1>1, <1>14 DEF StitcherTyped
<1>22. /\ Point(i, k) = ip /\ Point(i, k + 1) = ip + WORD /\ k + 1 \in Nat /\ WORD \in Nat \ {0}
  BY <1>13, <1>14, PointNext, WordNat
<1>23. /\ keep = z - ip /\ ip < z /\ z <= end /\ ip < end /\ (last \/ keep = WORD)
       /\ \A j \in 1 .. keep : data[j] = ip + j
  BY <1>13, <1>16, <1>18
<1>24. /\ last <=> z = end \/ (Crosses(i) /\ z = Turn(i))
       /\ Crosses(i) => /\ Turn(i) \in Nat /\ Before(i) < Turn(i) /\ Turn(i) < end
                        /\ ip < Turn(i) => z <= Turn(i)
  BY <1>16, <1>18
<1>25. flag \in {0, 1}  BY <1>13
<1>26. Point(i, k + 1) = ip + WORD => (keep = WORD => Point(i, k + 1) = z)
  BY <1>14, <1>22, <1>23
<1>27. CASE last /\ flag = 1 /\ keep < WORD
  <2>1. Crosses(i) /\ ip < Turn(i) /\ z = Turn(i) /\ z < end
    <3>1. Crosses(i) /\ ip < Turn(i)  BY <1>13, <1>27
    <3>2. z <= Turn(i) /\ Turn(i) < end /\ Turn(i) \in Nat  BY <3>1, <1>24
    <3>3. z # end  BY <3>2
    <3>4. z = Turn(i)  BY <3>3, <1>24, <1>27
    <3> QED  BY <3>1, <3>2, <3>4
  <2>2. keep \in 1 .. WORD - 1 /\ z - keep = ip  BY <1>14, <1>22, <1>23, <1>27
  <2>3. Address(i) % WORD # 0
    <3>1. Turn(i) = Point(i, k) + keep  BY <2>1, <2>2, <1>14, <1>22, <1>23
    <3> QED  BY <3>1, <2>1, <2>2, <1>13, <1>14, EndsWithin
  <2>4. r' = [state |-> "join", flag |-> 0, word |-> kept, shift |-> keep]
    BY <1>8, <1>17, <1>18, <1>21, <1>27
  <2>5. AtStitcher(i, z, i, k)'
    <3>1. \A j \in 1 .. keep : kept.data[0 + j] = (z - keep) + j
      <4>1. \A j \in 1 .. keep : 0 + j = j  BY <2>2
      <4> QED  BY <4>1, <2>2, <1>20, <1>23
    <3>2. z < asked[i] /\ Point(i, k) = z - keep  BY <2>1, <2>2, <1>16, <1>22
    <3>3. Turn(i) <= z  BY <2>1
    <3>4. Before(i) <= z  BY <1>13, <1>14, <1>23
    <3>5. r'.state = "join" /\ r'.shift = keep /\ r'.word = kept  BY <2>4
    <3>6. MergeTyped'
      <4>1. keep \in 1 .. WORD - 1 /\ kept \in AWord  BY <2>2, <1>20
      <4> QED  BY <4>1, <2>4 DEF MergeTyped
    <3>7. Keeps(IF r.state = "join" THEN 0 ELSE WORD - r.shift, r.shift, z - r.shift)'
      BY <3>1, <3>5 DEF Keeps
    <3>8. Point(i, k) = z - r'.shift  BY <3>2, <3>5
    <3> QED  BY <2>1, <2>3, <3>2, <3>3, <3>4, <3>6, <3>7, <3>8, <1>13, <1>14, ToMerge
  <2>6. OutLeft(i, k)'
    <3>1. silent  BY <1>7, <1>17, <1>18, <1>27
    <3> QED  BY <3>1, <1>11, <1>14, OutStays DEF StitchSteps
  <2>7. ReadSide(b, bp, rp, i, z, i, k)'
    BY <2>5, <2>6, <1>12, <1>13, <1>16, StitchMoves
  <2> QED  BY <2>7, <1>11, <1>12
<1>28. CASE last /\ flag = 1 /\ keep = WORD
  <2>1. Crosses(i) /\ ip < Turn(i) /\ z = Turn(i) /\ z < end
    <3>1. Crosses(i) /\ ip < Turn(i)  BY <1>13, <1>28
    <3>2. z <= Turn(i) /\ Turn(i) < end /\ Turn(i) \in Nat  BY <3>1, <1>24
    <3>3. z # end  BY <3>2
    <3>4. z = Turn(i)  BY <3>3, <1>24, <1>28
    <3> QED  BY <3>1, <3>2, <3>4
  <2>2. r' = [state |-> "data", flag |-> 0, word |-> kept, shift |-> keep]
    <3>1. ~(keep < WORD)  BY <1>22, <1>28
    <3> QED  BY <3>1, <1>8, <1>17, <1>18, <1>21, <1>28
  <2>3. AtStitcher(i, z, i, k + 1)'
    <3>1. z = Point(i, k + 1)  BY <1>22, <1>26, <1>28
    <3>2. Before(i) <= z /\ z < asked[i]  BY <2>1, <1>13, <1>14, <1>16, <1>23
    <3>3. 0 = IF Crosses(i) /\ z < Turn(i) THEN 1 ELSE 0  BY <2>1
    <3>4. keep \in 0 .. WORD  BY <1>22
    <3> QED  BY <2>2, <3>1, <3>2, <3>3, <3>4, <1>13, <1>20, <1>22, ToData
  <2>4. SegmentWord(kept, i, Point(i, k))
    <3>1. end - ip > WORD  BY <2>1, <1>14, <1>22, <1>23, <1>28
    <3>2. keep = Least(WORD, end - ip) /\ ~(end - ip <= WORD)
      BY <3>1, <1>14, <1>22, <1>28 DEF Least
    <3>3. ~ends  BY <1>19, <1>28
    <3> QED  BY <3>2, <3>3, <1>13, <1>16, <1>20, <1>22, <1>23 DEF SegmentWord
  <2>5. ~silent /\ ~kept.last
    <3>1. ~(keep < WORD)  BY <1>22, <1>28
    <3> QED  BY <3>1, <1>7, <1>17, <1>18, <1>19, <1>20, <1>28
  <2>6. OutLeft(i, k + 1)'  BY <2>4, <2>5, <1>11, <1>13, <1>20, WordLeaves
  <2>7. ReadSide(b, bp, rp, i, z, i, k + 1)'
    BY <2>3, <2>6, <1>12, <1>13, <1>16, StitchMoves
  <2> QED  BY <2>7, <1>11, <1>12
<1>29. CASE last /\ flag = 0
  <2>1. z = end
    <3>1. ~(Crosses(i) /\ ip < Turn(i))  BY <1>13, <1>29
    <3>2. ~(Crosses(i) /\ z = Turn(i))  BY <3>1, <1>23
    <3> QED  BY <3>2, <1>24, <1>29
  <2>2. r' = [state |-> "data", flag |-> Unread, word |-> word, shift |-> s0]
    <3>1. flag # 1  BY <1>29
    <3> QED  BY <3>1, <1>8, <1>17, <1>18, <1>21, <1>29 DEF Ended
  <2>3. AtStitcher(i, z, i + 1, 1)'  BY <2>1, <2>2, <1>13, <1>16, ToStart
  <2>4. SegmentWord(kept, i, Point(i, k))
    <3>1. end - ip = keep /\ end - ip <= WORD  BY <2>1, <1>14, <1>22, <1>23
    <3>2. keep = Least(WORD, end - ip)  BY <3>1, <1>22 DEF Least
    <3>3. ends  BY <1>19, <1>29
    <3> QED  BY <3>1, <3>2, <3>3, <1>13, <1>16, <1>20, <1>22, <1>23 DEF SegmentWord
  <2>5. ~silent /\ kept.last
    <3>1. flag # 1  BY <1>29
    <3> QED  BY <3>1, <1>7, <1>19, <1>20, <1>29
  <2>6. OutLeft(i + 1, 1)'  BY <2>4, <2>5, <1>11, <1>13, <1>20, WordLeaves
  <2>7. ReadSide(b, bp, rp, i, z, i + 1, 1)'
    BY <2>3, <2>6, <1>12, <1>13, <1>16, StitchMoves
  <2> QED  BY <2>7, <1>11, <1>12
<1>30. CASE ~last
  <2>1. keep = WORD /\ z # end /\ z < end /\ ~(Crosses(i) /\ z = Turn(i))
    BY <1>14, <1>23, <1>24, <1>30
  <2>2. r' = [state |-> "data", flag |-> flag, word |-> word, shift |-> s0]
    BY <1>8, <1>17, <1>18, <1>21, <1>30
  <2>3. AtStitcher(i, z, i, k + 1)'
    <3>1. z = Point(i, k + 1)  BY <2>1, <1>22, <1>26
    <3>2. Before(i) <= z /\ z < asked[i]  BY <2>1, <1>13, <1>14, <1>16, <1>23
    <3>3. flag = IF Crosses(i) /\ z < Turn(i) THEN 1 ELSE 0
      <4>1. CASE Crosses(i)
        <5>1. PICK turn \in Nat : turn = Turn(i) /\ (ip < turn => z <= turn) /\ z # turn
          BY <4>1, <2>1, <1>24
        <5>2. ip < turn <=> z < turn  BY <5>1, <1>14, <1>23
        <5> QED  BY <4>1, <5>1, <5>2, <1>13
      <4>2. CASE ~Crosses(i)  BY <4>2, <1>13
      <4> QED  BY <4>1, <4>2
    <3> QED  BY <2>2, <3>1, <3>2, <3>3, <1>13, <1>16, <1>22, ToData
  <2>4. SegmentWord(kept, i, Point(i, k))
    <3>1. end - ip > WORD  BY <2>1, <1>14, <1>22, <1>23
    <3>2. keep = Least(WORD, end - ip) /\ ~(end - ip <= WORD)
      BY <3>1, <2>1, <1>14, <1>22 DEF Least
    <3>3. ~ends  BY <1>19, <1>30
    <3> QED  BY <3>2, <3>3, <1>13, <1>16, <1>20, <1>22, <1>23 DEF SegmentWord
  <2>5. ~silent /\ ~kept.last  BY <1>7, <1>17, <1>18, <1>19, <1>20, <1>30
  <2>6. OutLeft(i, k + 1)'  BY <2>4, <2>5, <1>11, <1>13, <1>20, WordLeaves
  <2>7. ReadSide(b, bp, rp, i, z, i, k + 1)'
    BY <2>3, <2>6, <1>12, <1>13, <1>16, StitchMoves
  <2> QED  BY <2>7, <1>11, <1>12
<1>31. keep < WORD \/ keep = WORD  BY <1>22
<1> QED  BY <1>25, <1>27, <1>28, <1>29, <1>30, <1>31

\* The n bytes behind p.
Numbers(bytes, n, p) == \A j \in 1 .. n : bytes[j] = p + j

\* Of two words.
LEMMA Joined ==
    ASSUME NEW p \in Nat, NEW shift \in 1 .. WORD - 1, NEW low \in Seq(Int), Len(low) = shift,
           NEW data \in Data, NEW keep \in 1 .. WORD,
           Numbers(low, shift, p), Numbers(data, keep, p + shift),
           NEW n \in 0 .. WORD, n <= keep + shift
    PROVE  Join(low, data) \in Data /\ \A j \in 1 .. n : Join(low, data)[j] = p + j
<1>1. WORD \in Nat \ {0} /\ Len(low) <= WORD  BY WordNat
<1>2. /\ Join(low, data) \in Data
      /\ \A j \in 1 .. WORD : Join(low, data)[j] = IF j <= Len(low) THEN low[j]
                                                   ELSE data[j - Len(low)]
  BY <1>1, JoinOf
<1>3. /\ \A j \in 1 .. shift : low[j] = p + j
      /\ \A j \in 1 .. keep : data[j] = (p + shift) + j
  BY DEF Numbers
<1>4. ASSUME NEW j \in 1 .. n PROVE Join(low, data)[j] = p + j
  <2>1. Join(low, data)[j] = IF j <= shift THEN low[j] ELSE data[j - shift]
    BY <1>1, <1>2
  <2>2. CASE j <= shift
    <3>1. j \in 1 .. shift  BY <2>2
    <3> QED  BY <2>1, <2>2, <3>1, <1>3
  <2>3. CASE j > shift
    <3>1. j - shift \in 1 .. keep /\ (p + shift) + (j - shift) = p + j  BY <2>3, <1>1
    <3>2. data[j - shift] = (p + shift) + (j - shift)  BY <3>1, <1>3
    <3> QED  BY <2>1, <2>3, <3>1, <3>2
  <2> QED  BY <2>2, <2>3
<1> QED  BY <1>2, <1>4

\* The bytes the stitcher holds.
LEMMA HeldFirst ==
    ASSUME NEW data \in Data, NEW shift \in 1 .. WORD - 1, NEW p \in Nat,
           \A j \in 1 .. shift : data[0 + j] = p + j
    PROVE  /\ First(data, shift) \in Seq(Int) /\ Len(First(data, shift)) = shift
           /\ \A j \in 1 .. shift : First(data, shift)[j] = p + j
<1>1. shift \in 0 .. WORD  BY WordNat
<1>2. /\ First(data, shift) \in Seq(Int) /\ Len(First(data, shift)) = shift
      /\ \A j \in 1 .. shift : First(data, shift)[j] = data[j]
  BY <1>1, FirstOf
<1>3. \A j \in 1 .. shift : 0 + j = j  OBVIOUS
<1> QED  BY <1>2, <1>3

\* The bytes at the high end of the word it holds.
LEMMA HeldRest ==
    ASSUME NEW data \in Data, NEW shift \in 1 .. WORD - 1, NEW p \in Nat,
           \A j \in 1 .. shift : data[(WORD - shift) + j] = p + j
    PROVE  /\ Rest(data, WORD - shift) \in Seq(Int) /\ Len(Rest(data, WORD - shift)) = shift
           /\ \A j \in 1 .. shift : Rest(data, WORD - shift)[j] = p + j
<1>1. WORD - shift \in 0 .. WORD /\ WORD - (WORD - shift) = shift  BY WordNat
<1>2. /\ Rest(data, WORD - shift) \in Seq(Int) /\ Len(Rest(data, WORD - shift)) = WORD - (WORD - shift)
      /\ \A j \in 1 .. WORD - (WORD - shift) : Rest(data, WORD - shift)[j] = data[(WORD - shift) + j]
  BY <1>1, RestOf
<1> QED  BY <1>1, <1>2

\* What the stitcher has taken and holds when it moves a word of burst i.
Moving(shift, p, low, f, ip, i, k) ==
    /\ f = i /\ i \in DOMAIN asked /\ Crosses(i) /\ Address(i) % WORD # 0
    /\ r.shift = shift /\ Turn(i) <= ip /\ ip < asked[i] /\ Point(i, k) = p /\ ip = p + shift
    /\ low = (IF r.state = "join" THEN First(r.word.data, shift) ELSE Rest(r.word.data, WORD - shift))
    /\ low \in Seq(Int) /\ Len(low) = shift /\ \A j \in 1 .. shift : low[j] = p + j

\* What is known where words are moved.
LEMMA MoveKnown ==
    ASSUME AskedInv, start \in Nat, NEW f, NEW ip \in Nat, NEW i, NEW k, AtStitcher(f, ip, i, k),
           r.state \in {"join", "merged"}
    PROVE  \E shift \in 1 .. WORD - 1, p \in Nat, low \in Seq(Int) : Moving(shift, p, low, f, ip, i, k)
<1>1. StitcherTyped /\ AtMerge(f, ip, i, k)
  <2>1. ~AtStart(f, ip, i, k) /\ ~AtData(f, ip, i, k) /\ ~AtRest(f, ip, i, k)
    BY DEF AtStart, AtData, AtRest
  <2> QED  BY <2>1 DEF AtStitcher
<1>2. PICK shift \in 1 .. WORD - 1, data \in Data : shift = r.shift /\ data = r.word.data
  <2>1. r.shift \in 1 .. WORD - 1  BY <1>1 DEF AtMerge, Moved
  <2>2. r.word.data \in Data  BY <1>1, WordParts DEF StitcherTyped
  <2> QED  BY <2>1, <2>2
<1>3. /\ f = i /\ i \in DOMAIN asked /\ Crosses(i) /\ Address(i) % WORD # 0
      /\ Turn(i) <= ip /\ ip < asked[i] /\ Point(i, k) = ip - shift
      /\ \A j \in 1 .. shift : data[(IF r.state = "join" THEN 0 ELSE WORD - shift) + j] = (ip - shift) + j
  BY <1>1, <1>2 DEF AtMerge, Moved, Keeps
<1>4. PICK p \in Nat : p = ip - shift /\ ip = p + shift
  <2>1. PICK turn \in Nat, before \in Nat, o \in 0 .. SPACE - 1 :
           turn = Turn(i) /\ before = Before(i) /\ o = Address(i)
    BY <1>3, TurnFacts, AskedFacts
  <2>2. k \in Nat /\ WORD \in Nat \ {0} /\ SPACE \in Nat
    BY WordNat, SpaceNat DEF AtStitcher
  <2>3. PICK x \in Int : x = (k - 1) * WORD  BY <2>2
  <2>4. before + x = ip - shift  BY <1>3, <2>1, <2>3 DEF Point
  <2>5. k # 0
    <3>1. SUFFICES ASSUME k = 0 PROVE FALSE  OBVIOUS
    <3>2. x = -WORD  BY <2>2, <2>3, <3>1
    <3>3. before < turn /\ turn <= ip  BY <1>3, <2>1, TurnFacts
    <3>4. before - WORD = ip - shift  BY <2>1, <2>2, <2>4, <3>2
    <3>5. shift < WORD  BY <2>2
    <3> QED  BY <2>1, <2>2, <3>3, <3>4, <3>5
  <2>6. x \in Nat
    <3>1. PICK m \in Nat : m = k - 1  BY <2>2, <2>5
    <3>2. m * WORD \in Nat  BY <2>2
    <3> QED  BY <2>3, <3>1, <3>2
  <2>7. ip - shift \in Nat  BY <2>1, <2>4, <2>6
  <2> QED  BY <2>7
<1>5. PICK low : low = IF r.state = "join" THEN First(data, shift) ELSE Rest(data, WORD - shift)
  OBVIOUS
<1>6. shift \in 1 .. WORD - 1 /\ data \in Data /\ p \in Nat  BY <1>2, <1>4
<1>7. low \in Seq(Int) /\ Len(low) = shift /\ \A j \in 1 .. shift : low[j] = p + j
  <2>1. CASE r.state = "join"
    <3>1. \A j \in 1 .. shift : data[0 + j] = p + j  BY <1>3, <1>4, <2>1
    <3> QED  BY <3>1, <2>1, <1>5, <1>6, HeldFirst
  <2>2. CASE r.state # "join"
    <3>1. \A j \in 1 .. shift : data[(WORD - shift) + j] = p + j  BY <1>3, <1>4, <2>2
    <3> QED  BY <3>1, <2>2, <1>5, <1>6, HeldRest
  <2> QED  BY <2>1, <2>2
<1>8. Moving(shift, p, low, f, ip, i, k)
  BY <1>2, <1>3, <1>4, <1>5, <1>7 DEF Moving
<1> QED  BY <1>7, <1>8

\* StitchMerged: a word is made of the bytes it holds and of the next word.
LEMMA StitchMergedKeeps ==
    ASSUME StitchSteps,
           NEW b, NEW bp, NEW rp, NEW f, NEW ip, NEW i, NEW k, ReadSide(b, bp, rp, f, ip, i, k),
           StitchMerged
    PROVE  /\ \E f2, ip2, i2, k2 : ReadSide(b, bp, rp, f2, ip2, i2, k2)'
           /\ DOMAIN q' = BufferStreams /\ \A s \in WriteStreams : q'[s] = q[s]
<1>1. /\ AskedStays /\ AskedInv /\ start \in Nat /\ LengthsFit /\ Sequences
      /\ r.state \in {"join", "merged"}
  BY DEF StitchSteps, AskedStays, StitchMerged
<1>2. /\ AtStitcher(f, ip, i, k) /\ OutLeft(i, k) /\ LoadsLeft(ip, rp) /\ FlagsLeft(f, b)
      /\ ip \in Nat /\ rp \in Nat /\ b \in 0 .. Len(asked) /\ Len(got) \in Nat /\ Len(got) + 1 <= i
  BY <1>1, ReadBounds DEF ReadSide
<1>3. k \in Nat /\ Before(i) <= ip /\ StitcherTyped  BY <1>2 DEF AtStitcher
<1>4. PICK shift \in 1 .. WORD - 1, p \in Nat, low \in Seq(Int) : Moving(shift, p, low, f, ip, i, k)
  BY <1>1, <1>2, MoveKnown
<1>5. /\ f = i /\ i \in DOMAIN asked /\ Crosses(i) /\ Address(i) % WORD # 0
      /\ r.shift = shift /\ Turn(i) <= ip /\ ip < asked[i] /\ Point(i, k) = p /\ ip = p + shift
      /\ low = (IF r.state = "join" THEN First(r.word.data, shift) ELSE Rest(r.word.data, WORD - shift))
      /\ low \in Seq(Int) /\ Len(low) = shift /\ \A j \in 1 .. shift : low[j] = p + j
      /\ shift \in 1 .. WORD - 1 /\ p \in Nat
  BY <1>4 DEF Moving
<1>6. PICK put : put = AxiWord(Join(low, Front("memData").data),
                               IF Within(Front("memData").keep)
                               THEN Front("memData").keep + r.shift ELSE WORD,
                               Within(Front("memData").keep))
  OBVIOUS
<1>7. /\ Transfer({"memData"}, To("out", put))
      /\ r' = IF Within(Front("memData").keep) THEN [Ended EXCEPT !.word = Front("memData")]
              ELSE [r EXCEPT !.word = Front("memData"),
                             !.state = IF Front("memData").last THEN "residue" ELSE "merged"]
  BY <1>5, <1>6 DEF StitchMerged
<1>8. /\ q["memData"] # <<>> /\ q'["memData"] = Tail(q["memData"])
      /\ q'["out"] = q["out"] \o <<put>> /\ DOMAIN q' = BufferStreams
      /\ \A s \in BufferStreams \ {"memData", "out"} : q'[s] = q[s]
  <2>1. "memData" \in BufferStreams /\ "out" \in BufferStreams /\ "memData" # "out"
    BY DEF BufferStreams
  <2> QED  BY <2>1, <1>1, <1>7, TakePutEffect
<1>9. /\ q'["readCmd"] = q["readCmd"] /\ q'["memCmd"] = q["memCmd"]
      /\ q'["accessFlag"] = q["accessFlag"] /\ \A s \in WriteStreams : q'[s] = q[s]
  <2>1. /\ {"readCmd", "memCmd", "accessFlag"} \subseteq BufferStreams \ {"memData", "out"}
        /\ WriteStreams \subseteq BufferStreams \ {"memData", "out"}
    BY DEF BufferStreams, WriteStreams
  <2> QED  BY <2>1, <1>8
<1>10. FlagsLeft(i, b)'  BY <1>1, <1>2, <1>5, <1>9, FlagsStay
<1>11. i > Len(got) /\ Before(i) \in Nat /\ i \in Nat
  <2>1. i \in 1 .. Len(asked) + 1 /\ Before(i) \in Nat  BY <1>1, <1>5, AskedFacts
  <2>2. i \in Nat  BY <2>1
  <2> QED  BY <2>1, <2>2, <1>2
<1>12. PICK word \in AWord, z \in Nat, end \in Nat :
          word = Front("memData") /\ LoadsLeft(z, rp)' /\ NextLoad(word, z, end, ip, i)
  BY <1>1, <1>2, <1>3, <1>5, <1>8, <1>11, LoadComes
<1>13. /\ end = asked[i]
       /\ word.data \in Data /\ word.keep \in 1 .. WORD /\ word.last \in BOOLEAN
       /\ ip < z /\ z <= end /\ word.keep = z - ip
       /\ word.last \/ word.keep = WORD
       /\ \A j \in 1 .. word.keep : word.data[j] = ip + j
       /\ word.last <=> z = end \/ (Crosses(i) /\ z = Turn(i))
       /\ Turn(i) \in Nat /\ z \in Nat /\ end \in Nat
  BY <1>12, <1>5 DEF NextLoad
<1>14. PICK data \in Data, keep \in 1 .. WORD, last \in BOOLEAN :
          data = word.data /\ keep = word.keep /\ last = word.last
  BY <1>13
<1>15. PICK done \in BOOLEAN : done <=> keep < WORD - shift  OBVIOUS
<1>16. Within(Front("memData").keep) = done
  BY <1>5, <1>12, <1>14, <1>15 DEF Within
<1>17. PICK n \in 0 .. WORD : n = IF done THEN keep + shift ELSE WORD
  BY <1>5, <1>14, <1>15, WordNat
<1>18. put = AxiWord(Join(low, data), n, done)
  BY <1>5, <1>6, <1>12, <1>14, <1>16, <1>17
<1>19. /\ keep = z - ip /\ ip = p + shift /\ ip < z /\ z <= end /\ (last \/ keep = WORD)
       /\ \A j \in 1 .. keep : data[j] = (p + shift) + j
       /\ WORD \in Nat \ {0} /\ keep \in 1 .. WORD /\ shift \in 1 .. WORD - 1 /\ p \in Nat
       /\ z \in Nat /\ end \in Nat /\ z = p + keep + shift
  <2>1. WORD \in Nat \ {0}  BY WordNat
  <2>2. ip = p + shift /\ shift \in 1 .. WORD - 1 /\ p \in Nat  BY <1>5
  <2>3. keep = z - ip /\ ip < z /\ z <= end /\ (last \/ keep = WORD) /\ z \in Nat /\ end \in Nat
        /\ \A j \in 1 .. keep : data[j] = ip + j /\ keep \in 1 .. WORD
    BY <1>13, <1>14
  <2>4. keep \in 1 .. WORD  BY <1>14
  <2> QED  BY <2>1, <2>2, <2>3, <2>4
<1>20. last <=> z = end
  <2>1. PICK turn \in Nat : turn = Turn(i) /\ turn <= ip  BY <1>5, <1>13
  <2>2. z # turn  BY <2>1, <1>2, <1>19
  <2> QED  BY <2>1, <2>2, <1>13, <1>14
<1>21. /\ put \in AWord /\ put.keep = n /\ put.last = done
       /\ \A j \in 1 .. n : put.data[j] = p + j
  <2>1. n <= keep + shift /\ n \in 0 .. WORD  BY <1>15, <1>17, <1>19
  <2>2. /\ low \in Seq(Int) /\ Len(low) = shift /\ \A j \in 1 .. shift : low[j] = p + j
        /\ data \in Data /\ done \in BOOLEAN
    BY <1>5, <1>14, <1>15
  <2>3. /\ \A j \in 1 .. keep : data[j] = (p + shift) + j
        /\ keep \in 1 .. WORD /\ shift \in 1 .. WORD - 1 /\ p \in Nat
    BY <1>19
  <2>4. Join(low, data) \in Data /\ \A j \in 1 .. n : Join(low, data)[j] = p + j
    <3>1. Numbers(low, shift, p) /\ Numbers(data, keep, p + shift)
      BY <2>2, <2>3 DEF Numbers
    <3> QED  BY <2>1, <2>2, <2>3, <3>1, Joined
  <2>5. PICK d \in Data : d = Join(low, data)  BY <2>4
  <2>6. put = AxiWord(d, n, done)  BY <2>5, <1>18
  <2>7. put \in AWord /\ put.data = d /\ put.keep = n /\ put.last = done
    BY <2>1, <2>2, <2>5, <2>6, AxiWordOf
  <2> QED  BY <2>4, <2>5, <2>7
<1>22. PICK s0 \in {"join", "merged"}, f0 \in {0, 1, Unread}, w0 \in AWord :
          r = [state |-> s0, flag |-> f0, word |-> w0, shift |-> shift]
  BY <1>1, <1>3, <1>5 DEF StitcherTyped
<1>23. r' = IF done THEN [state |-> "data", flag |-> Unread, word |-> word, shift |-> shift]
            ELSE [state |-> IF last THEN "residue" ELSE "merged", flag |-> f0,
                  word |-> word, shift |-> shift]
  <2>1. r' = IF done THEN [Ended EXCEPT !.word = word]
             ELSE [r EXCEPT !.word = word, !.state = IF last THEN "residue" ELSE "merged"]
    BY <1>7, <1>12, <1>14, <1>16
  <2>2. CASE done
    <3>1. r' = [Ended EXCEPT !.word = word]  BY <2>1, <2>2
    <3>2. r' = [[r EXCEPT !.state = "data", !.flag = Unread] EXCEPT !.word = word]
      BY <3>1 DEF Ended
    <3>3. r' = [state |-> "data", flag |-> Unread, word |-> word, shift |-> shift]
      BY <3>2, <1>22
    <3> QED  BY <2>2, <3>3
  <2>3. CASE ~done
    <3>1. PICK s1 : s1 = IF last THEN "residue" ELSE "merged"  OBVIOUS
    <3>2. r' = [r EXCEPT !.word = word, !.state = s1]  BY <2>1, <2>3, <3>1
    <3>3. r' = [state |-> s1, flag |-> f0, word |-> word, shift |-> shift]
      BY <3>2, <1>22
    <3> QED  BY <2>3, <3>1, <3>3
  <2> QED  BY <2>2, <2>3
<1>24. Point(i, k) = p /\ Point(i, k + 1) = p + WORD /\ k + 1 \in Nat
  BY <1>3, <1>5, <1>11, PointNext
<1>25. Before(i) <= z /\ Turn(i) <= z
  <2>1. PICK turn \in Nat, before \in Nat :
           turn = Turn(i) /\ before = Before(i) /\ turn <= ip /\ before <= ip
    BY <1>3, <1>5, <1>11, <1>13
  <2>2. turn <= z /\ before <= z  BY <2>1, <1>2, <1>19
  <2> QED  BY <2>1, <2>2
<1>26. CASE done
  <2>1. last /\ z = end /\ end - p = keep + shift /\ n = end - p /\ n <= WORD
    BY <1>15, <1>17, <1>19, <1>20, <1>26
  <2>2. r' = [state |-> "data", flag |-> Unread, word |-> word, shift |-> shift]
    BY <1>23, <1>26
  <2>3. shift \in 0 .. WORD  BY <1>19
  <2>4. AtStitcher(i, z, i + 1, 1)'  BY <2>1, <2>2, <2>3, <1>5, <1>12, <1>13, ToStart
  <2>5. SegmentWord(put, i, Point(i, k))
    <3>1. n = Least(WORD, end - p) /\ p < end  BY <2>1, <1>19 DEF Least
    <3> QED  BY <3>1, <2>1, <1>13, <1>21, <1>24, <1>26 DEF SegmentWord
  <2>6. OutLeft(i + 1, 1)'  BY <2>5, <1>5, <1>8, <1>21, <1>26, WordLeaves
  <2>7. ReadSide(b, bp, rp, i, z, i + 1, 1)'
    BY <2>4, <2>6, <1>9, <1>10, <1>12, StitchMoves
  <2> QED  BY <2>7, <1>8, <1>9
<1>27. CASE ~done /\ last
  <2>1. z = end /\ end - p = keep + shift /\ n = WORD /\ WORD <= end - p
    BY <1>15, <1>17, <1>19, <1>20, <1>27
  <2>2. r' = [state |-> "residue", flag |-> f0, word |-> word, shift |-> shift]
    BY <1>23, <1>27
  <2>3. PICK over \in Nat : over = (keep + shift) - WORD  BY <2>1, <1>19
  <2>4. AtStitcher(i, z, i, k + 1)'
    <3>1. over = (word.keep + shift) - WORD  BY <2>3, <1>14
    <3>2. Point(i, k + 1) = z - over  BY <2>1, <2>3, <1>19, <1>24
    <3>3. \A j \in 1 .. over : word.data[(WORD - shift) + j] = (z - over) + j
      <4>1. ASSUME NEW j \in 1 .. over PROVE data[(WORD - shift) + j] = (z - over) + j
        <5>1. (WORD - shift) + j \in 1 .. keep  BY <2>3, <1>19
        <5>2. data[(WORD - shift) + j] = (p + shift) + ((WORD - shift) + j)
          BY <5>1, <1>19
        <5>3. (p + shift) + ((WORD - shift) + j) = (z - over) + j  BY <2>1, <2>3, <1>19
        <5> QED  BY <5>2, <5>3
      <4> QED  BY <4>1, <1>14
    <3>4. Before(i) <= z /\ z = asked[i]  BY <2>1, <1>13, <1>25
    <3>5. r'.state = "residue" /\ r'.shift = shift /\ r'.word = word  BY <2>2
    <3>6. RestTyped'  BY <2>2, <1>5, <1>12, <1>22 DEF RestTyped
    <3>7. over = (r'.word.keep + r'.shift) - WORD  BY <3>1, <3>5
    <3>8. Keeps(WORD - r.shift, over, z - over)'  BY <3>3, <3>5 DEF Keeps
    <3> QED  BY <2>3, <3>2, <3>4, <3>6, <3>7, <3>8, <1>5, <1>12, <1>24, ToRest
  <2>5. Filled(i) \/ SegmentWord(put, i, Point(i, k))
    <3>1. CASE end - p = WORD
      <4>1. Point(i, k + 1) = asked[i] /\ k + 1 \in Nat \ {0}
        <5>1. p + WORD = end  BY <3>1, <1>19
        <5>2. k + 1 \in Nat \ {0}  BY <1>3
        <5> QED  BY <5>1, <5>2, <1>13, <1>24
      <4>2. Length(i) % WORD = 0  BY <4>1, <1>1, <1>5, WholeWords
      <4> QED  BY <4>2, <1>5 DEF Filled, Crosses
    <3>2. CASE end - p # WORD
      <4>1. n = Least(WORD, end - p) /\ p < end /\ ~(end - p <= WORD)
        BY <3>2, <2>1, <1>19 DEF Least
      <4> QED  BY <4>1, <1>13, <1>21, <1>24, <1>27 DEF SegmentWord
    <3> QED  BY <3>1, <3>2
  <2>6. OutLeft(i, k + 1)'  BY <2>5, <1>5, <1>8, <1>21, <1>27, WordLeaves
  <2>7. ReadSide(b, bp, rp, i, z, i, k + 1)'
    BY <2>4, <2>6, <1>9, <1>10, <1>12, StitchMoves
  <2> QED  BY <2>7, <1>8, <1>9
<1>28. CASE ~done /\ ~last
  <2>1. z < end /\ keep = WORD /\ n = WORD /\ end - p > WORD
    BY <1>15, <1>17, <1>19, <1>20, <1>28
  <2>2. r' = [state |-> "merged", flag |-> f0, word |-> word, shift |-> shift]
    BY <1>23, <1>28
  <2>3. AtStitcher(i, z, i, k + 1)'
    <3>1. r'.state = "merged" /\ r'.shift = shift /\ r'.word = word  BY <2>2
    <3>2. MergeTyped'  BY <2>2, <1>5, <1>12, <1>22 DEF MergeTyped
    <3>3. Point(i, k + 1) = z - r'.shift
      <4>1. Point(i, k + 1) = z - shift  BY <2>1, <1>19, <1>24
      <4> QED  BY <3>1, <4>1
    <3>4. \A j \in 1 .. shift : word.data[(WORD - shift) + j] = (z - shift) + j
      <4>1. ASSUME NEW j \in 1 .. shift PROVE data[(WORD - shift) + j] = (z - shift) + j
        <5>1. (WORD - shift) + j \in 1 .. keep  BY <2>1, <1>19
        <5>2. data[(WORD - shift) + j] = (p + shift) + ((WORD - shift) + j)
          BY <5>1, <1>19
        <5>3. (p + shift) + ((WORD - shift) + j) = (z - shift) + j  BY <2>1, <1>19
        <5> QED  BY <5>2, <5>3
      <4> QED  BY <4>1, <1>14
    <3>5. Keeps(IF r.state = "join" THEN 0 ELSE WORD - r.shift, r.shift, z - r.shift)'
      BY <3>1, <3>4 DEF Keeps
    <3>6. Before(i) <= z /\ z < asked[i] /\ Turn(i) <= z
      BY <2>1, <1>13, <1>25
    <3> QED  BY <3>2, <3>3, <3>5, <3>6, <1>5, <1>12, <1>24, ToMerge
  <2>4. SegmentWord(put, i, Point(i, k))
    <3>1. n = Least(WORD, end - p) /\ p < end /\ ~(end - p <= WORD)
      BY <2>1, <1>19 DEF Least
    <3> QED  BY <3>1, <1>13, <1>21, <1>24, <1>28 DEF SegmentWord
  <2>5. OutLeft(i, k + 1)'  BY <2>4, <1>5, <1>8, <1>21, <1>28, WordLeaves
  <2>6. ReadSide(b, bp, rp, i, z, i, k + 1)'
    BY <2>3, <2>5, <1>9, <1>10, <1>12, StitchMoves
  <2> QED  BY <2>6, <1>8, <1>9
<1> QED  BY <1>26, <1>27, <1>28

\* What is left of the last word of burst i, from behind p.
Resting(shift, over, data, p, f, ip, i, k) ==
    /\ f = i /\ i \in DOMAIN asked /\ Crosses(i) /\ Address(i) % WORD # 0
    /\ r.shift = shift /\ r.word.data = data /\ ip = asked[i] /\ Point(i, k) = p /\ ip = p + over
    /\ r.word.keep - (WORD - shift) = over /\ over <= shift
    /\ Numbers(Rest(data, WORD - shift), over, p)
    /\ over = 0 => Filled(i)

\* What is known where bytes are left.
LEMMA RestKnown ==
    ASSUME AskedInv, start \in Nat, NEW f, NEW ip \in Nat, NEW i, NEW k, AtStitcher(f, ip, i, k),
           r.state = "residue"
    PROVE  \E shift \in 1 .. WORD - 1, over \in 0 .. WORD - 1, data \in Data, p \in Int :
              Resting(shift, over, data, p, f, ip, i, k)
<1>1. StitcherTyped /\ AtRest(f, ip, i, k) /\ k \in Nat
  <2>1. ~AtStart(f, ip, i, k) /\ ~AtData(f, ip, i, k) /\ ~AtMerge(f, ip, i, k)
    BY DEF AtStart, AtData, AtMerge
  <2> QED  BY <2>1 DEF AtStitcher
<1>2. PICK shift \in 1 .. WORD - 1, keep \in 0 .. WORD, data \in Data :
         shift = r.shift /\ keep = r.word.keep /\ data = r.word.data
  <2>1. r.shift \in 1 .. WORD - 1  BY <1>1 DEF AtRest, Moved
  <2>2. r.word.data \in Data /\ r.word.keep \in 0 .. WORD
    BY <1>1, WordParts DEF StitcherTyped
  <2> QED  BY <2>1, <2>2
<1>3. /\ f = i /\ i \in DOMAIN asked /\ Crosses(i) /\ Address(i) % WORD # 0
      /\ ip = asked[i] /\ keep >= WORD - shift /\ Point(i, k) = ip - (keep + shift - WORD)
      /\ \A j \in 1 .. keep + shift - WORD : data[(WORD - shift) + j] = Point(i, k) + j
  BY <1>1, <1>2 DEF AtRest, Moved, Keeps
<1>4. WORD \in Nat \ {0} /\ shift \in 1 .. WORD - 1 /\ keep \in 0 .. WORD
  BY <1>2, WordNat
<1>5. PICK over \in 0 .. WORD - 1 : over = keep + shift - WORD /\ keep - (WORD - shift) = over
  <2>1. keep + shift - WORD \in 0 .. WORD - 1 /\ keep - (WORD - shift) = keep + shift - WORD
    BY <1>3, <1>4
  <2> QED  BY <2>1
<1>6. PICK p \in Int : p = Point(i, k) /\ ip = p + over /\ p = ip - over
  <2>1. ip - over \in Int /\ ip = (ip - over) + over /\ Point(i, k) = ip - over
    BY <1>3, <1>5
  <2> QED  BY <2>1
<1>7. over <= shift  BY <1>4, <1>5
<1>8. Numbers(Rest(data, WORD - shift), over, p)
  <2>1. WORD - shift \in 0 .. WORD /\ WORD - (WORD - shift) = shift  BY <1>4
  <2>2. \A j \in 1 .. WORD - (WORD - shift) : Rest(data, WORD - shift)[j] = data[(WORD - shift) + j]
    BY <2>1, <1>2, RestOf
  <2>3. ASSUME NEW j \in 1 .. over PROVE Rest(data, WORD - shift)[j] = p + j
    <3>1. j \in 1 .. shift /\ j \in 1 .. keep + shift - WORD  BY <1>4, <1>5, <1>7
    <3> QED  BY <3>1, <2>1, <2>2, <1>3, <1>6
  <2> QED  BY <2>3 DEF Numbers
<1>9. ASSUME over = 0 PROVE Filled(i)
  <2>1. Before(i) \in Nat /\ asked[i] \in Nat /\ Before(i) < asked[i]
    BY <1>3, AskedFacts DEF AskedInv
  <2>2. k # 0
    <3>1. SUFFICES ASSUME k = 0 PROVE FALSE  OBVIOUS
    <3>2. (0 - 1) * WORD = -WORD  BY <1>4
    <3>3. Point(i, k) = Before(i) + (-WORD)  BY <3>1, <3>2 DEF Point
    <3>4. Point(i, k) = asked[i]  BY <1>3, <1>6, <1>9
    <3> QED  BY <3>3, <3>4, <2>1, <1>4
  <2>3. Length(i) % WORD = 0
    <3>1. k \in Nat \ {0} /\ Point(i, k) = asked[i]  BY <2>2, <1>1, <1>3, <1>6, <1>9
    <3> QED  BY <3>1, <1>3, WholeWords
  <2> QED  BY <2>3, <1>3 DEF Filled, Crosses
<1>10. Resting(shift, over, data, p, f, ip, i, k)
  <2>1. r.word.keep - (WORD - shift) = over  BY <1>2, <1>5
  <2> QED  BY <2>1, <1>2, <1>3, <1>6, <1>7, <1>8, <1>9 DEF Resting
<1> QED  BY <1>2, <1>5, <1>6, <1>10

\* StitchResidue: the bytes that are left are the last word.
LEMMA StitchResidueKeeps ==
    ASSUME StitchSteps,
           NEW b, NEW bp, NEW rp, NEW f, NEW ip, NEW i, NEW k, ReadSide(b, bp, rp, f, ip, i, k),
           StitchResidue
    PROVE  /\ \E f2, ip2, i2, k2 : ReadSide(b, bp, rp, f2, ip2, i2, k2)'
           /\ DOMAIN q' = BufferStreams /\ \A s \in WriteStreams : q'[s] = q[s]
<1>1. /\ AskedStays /\ AskedInv /\ start \in Nat /\ LengthsFit /\ Sequences
      /\ r.state = "residue"
  BY DEF StitchSteps, AskedStays, StitchResidue
<1>2. /\ AtStitcher(f, ip, i, k) /\ LoadsLeft(ip, rp) /\ FlagsLeft(f, b)
      /\ ip \in Nat /\ b \in 0 .. Len(asked)
  BY <1>1, ReadBounds DEF ReadSide
<1>3. StitcherTyped /\ k \in Nat  BY <1>2 DEF AtStitcher
<1>4. PICK shift \in 1 .. WORD - 1, over \in 0 .. WORD - 1, data \in Data, p \in Int :
         Resting(shift, over, data, p, f, ip, i, k)
  BY <1>1, <1>2, RestKnown
<1>5. /\ f = i /\ i \in DOMAIN asked
      /\ r.shift = shift /\ r.word.data = data /\ ip = asked[i] /\ Point(i, k) = p /\ ip = p + over
      /\ r.word.keep - (WORD - shift) = over /\ over <= shift
      /\ Numbers(Rest(data, WORD - shift), over, p)
      /\ over = 0 => Filled(i)
      /\ shift \in 1 .. WORD - 1 /\ over \in 0 .. WORD - 1 /\ data \in Data /\ p \in Int
  BY <1>4 DEF Resting
<1>6. WORD \in Nat \ {0}  BY WordNat
<1>7. over % (2 * WORD) = over
  <2>1. PICK m \in Nat \ {0} : m = 2 * WORD /\ over \in 0 .. m - 1  BY <1>5, <1>6
  <2>2. over = 0 * m + over /\ over \in Nat /\ 0 \in Int  BY <2>1
  <2>3. over % m = over  BY <2>1, <2>2, Modulus
  <2> QED  BY <2>1, <2>3
<1>8. PICK rest : rest = Rest(data, WORD - shift)  OBVIOUS
<1>9. PICK keep \in IF over = 0 THEN 0 .. WORD ELSE {over} :
         Transfer({}, To("out", AxiWord(Pad(rest), keep, TRUE)))
  <2>1. \E keep \in IF (r.word.keep - (WORD - r.shift)) % (2 * WORD) = 0 THEN 0 .. WORD
                    ELSE {(r.word.keep - (WORD - r.shift)) % (2 * WORD)} :
           Transfer({}, To("out", AxiWord(Pad(Rest(r.word.data, WORD - r.shift)), keep, TRUE)))
    BY DEF StitchResidue
  <2>2. (r.word.keep - (WORD - r.shift)) % (2 * WORD) = over  BY <1>5, <1>7
  <2> QED  BY <2>1, <2>2, <1>5, <1>8
<1>10. PICK put : put = AxiWord(Pad(rest), keep, TRUE)  OBVIOUS
<1>11. /\ rest \in Seq(Int) /\ Len(rest) = shift
  <2>1. WORD - shift \in 0 .. WORD /\ WORD - (WORD - shift) = shift  BY <1>5, <1>6
  <2> QED  BY <2>1, <1>5, <1>8, RestOf
<1>12. PICK d \in Data : d = Pad(rest) /\ Numbers(d, over, p)
  <2>1. /\ Pad(rest) \in Data
        /\ \A j \in 1 .. WORD : Pad(rest)[j] = IF j <= shift THEN rest[j] ELSE Junk
    BY <1>11, PadOf
  <2>2. ASSUME NEW j \in 1 .. over PROVE Pad(rest)[j] = p + j
    <3>1. j \in 1 .. WORD /\ j <= shift  BY <1>5, <1>6
    <3>2. rest[j] = p + j  BY <1>5, <1>8 DEF Numbers
    <3> QED  BY <3>1, <3>2, <2>1
  <2> QED  BY <2>1, <2>2 DEF Numbers
<1>13. put \in AWord /\ put.data = d /\ put.keep = keep /\ put.last
  <2>1. keep \in 0 .. WORD /\ TRUE \in BOOLEAN  BY <1>5, <1>6, <1>9
  <2>2. put = AxiWord(d, keep, TRUE)  BY <1>10, <1>12
  <2> QED  BY <2>1, <2>2, <1>12, AxiWordOf
<1>14. /\ q'["out"] = q["out"] \o <<put>> /\ DOMAIN q' = BufferStreams
       /\ \A s \in BufferStreams \ {"out"} : q'[s] = q[s]
  <2>1. "out" \in BufferStreams /\ Transfer({}, To("out", put))
    BY <1>9, <1>10 DEF BufferStreams
  <2> QED  BY <2>1, <1>1, PutEffect
<1>15. /\ q'["readCmd"] = q["readCmd"] /\ q'["memCmd"] = q["memCmd"]
       /\ q'["accessFlag"] = q["accessFlag"] /\ q'["memData"] = q["memData"]
       /\ \A s \in WriteStreams : q'[s] = q[s]
  <2>1. /\ {"readCmd", "memCmd", "accessFlag", "memData"} \subseteq BufferStreams \ {"out"}
        /\ WriteStreams \subseteq BufferStreams \ {"out"}
    BY DEF BufferStreams, WriteStreams
  <2> QED  BY <2>1, <1>14
<1>16. FlagsLeft(i, b)' /\ LoadsLeft(ip, rp)'
  BY <1>1, <1>2, <1>5, <1>15, FlagsStay, LoadsStay
<1>17. AtStitcher(i, ip, i + 1, 1)'
  <2>1. PICK s0 \in {"residue"}, f0 \in {0, 1, Unread}, w0 \in AWord :
           r = [state |-> s0, flag |-> f0, word |-> w0, shift |-> shift]
    BY <1>1, <1>3, <1>5 DEF StitcherTyped
  <2>2. r' = [r EXCEPT !.state = "data", !.flag = Unread]  BY DEF StitchResidue, Ended
  <2>3. r' = [state |-> "data", flag |-> Unread, word |-> w0, shift |-> shift]
    BY <2>1, <2>2
  <2>4. shift \in 0 .. WORD  BY <1>5, <1>6
  <2> QED  BY <2>1, <2>3, <2>4, <1>5, ToStart
<1>18. Filled(i) \/ SegmentWord(put, i, Point(i, k))
  <2>1. CASE over = 0  BY <2>1, <1>5
  <2>2. CASE over # 0
    <3>1. keep = over  BY <2>2, <1>9
    <3>2. ip - p = over /\ p < ip /\ over <= WORD /\ keep = Least(WORD, ip - p)
      BY <3>1, <2>2, <1>2, <1>5, <1>6 DEF Least
    <3>3. \A j \in 1 .. keep : put.data[j] = p + j  BY <3>1, <1>12, <1>13 DEF Numbers
    <3> QED  BY <3>2, <3>3, <1>5, <1>13 DEF SegmentWord
  <2> QED  BY <2>1, <2>2
<1>19. OutLeft(i + 1, 1)'  BY <1>18, <1>5, <1>13, <1>14, WordLeaves
<1>20. ReadSide(b, bp, rp, i, ip, i + 1, 1)'
  BY <1>2, <1>15, <1>16, <1>17, <1>19, StitchMoves
<1> QED  BY <1>14, <1>15, <1>20

\* Every step of the stitcher.
LEMMA StitcherKeeps ==
    ASSUME StitchSteps,
           NEW b, NEW bp, NEW rp, NEW f, NEW ip, NEW i, NEW k, ReadSide(b, bp, rp, f, ip, i, k),
           Stitcher
    PROVE  /\ \E f2, ip2, i2, k2 : ReadSide(b, bp, rp, f2, ip2, i2, k2)'
           /\ DOMAIN q' = BufferStreams /\ \A s \in WriteStreams : q'[s] = q[s]
<1>1. CASE StitchData  BY <1>1, StitchDataKeeps
<1>2. CASE StitchMerged  BY <1>2, StitchMergedKeeps
<1>3. CASE StitchResidue  BY <1>3, StitchResidueKeeps
<1> QED  BY <1>1, <1>2, <1>3 DEF Stitcher

-----------------------------------------------------------------------------
(***************************************************************************)
(* The words that leave, and the segments they make.                       *)
(***************************************************************************)
\* Only the valid bytes of a word count.
LEMMA SameValid ==
    ASSUME NEW a \in AWord, NEW e \in AWord, a.keep = e.keep,
           \A j \in 1 .. a.keep : a.data[j] = e.data[j]
    PROVE  Valid(a) = Valid(e)
<1>1. a.data \in Data /\ e.data \in Data /\ a.keep \in 0 .. WORD  BY WordParts
<1>2. PICK x \in Data, y \in Data, n \in 0 .. WORD : x = a.data /\ y = e.data /\ n = a.keep
  BY <1>1
<1>3. /\ First(x, n) \in Seq(Int) /\ Len(First(x, n)) = n
      /\ \A j \in 1 .. n : First(x, n)[j] = x[j]
  BY <1>2, FirstOf
<1>4. /\ First(y, n) \in Seq(Int) /\ Len(First(y, n)) = n
      /\ \A j \in 1 .. n : First(y, n)[j] = y[j]
  BY <1>2, FirstOf
<1>5. First(x, n) = First(y, n)
  <2>1. \A j \in 1 .. n : First(x, n)[j] = First(y, n)[j]  BY <1>2, <1>3, <1>4
  <2>2. Len(First(x, n)) = Len(First(y, n))  BY <1>3, <1>4
  <2> QED  BY <1>3, <1>4, <2>1, <2>2, SeqEqual
<1> QED  BY <1>2, <1>5 DEF Valid

\* Word m of a burst of len bytes from byte p + 1 on.
BurstWord(word, m, p, len) ==
    \E c \in Nat :
        /\ c = (m - 1) * WORD /\ c < len
        /\ word.keep = Least(WORD, len - c) /\ (word.last <=> len - c <= WORD)
        /\ \A j \in 1 .. word.keep : word.data[j] = p + c + j

\* A burst whose words are all right is the burst.
LEMMA BurstSame ==
    ASSUME NEW p \in Nat, NEW len \in Nat \ {0}, NEW words \in Seq(AWord), words # <<>>,
           \A m \in DOMAIN words : BurstWord(words[m], m, p, len) /\ (words[m].last <=> m = Len(words))
    PROVE  Same(words, Burst(p + 1, len))
<1>1. PICK n \in Nat \ {0} : n = Len(words) /\ DOMAIN words = 1 .. n
  BY LenProperties, EmptySeq
<1>2. PICK count \in Nat \ {0} :
         /\ Burst(p + 1, len) \in Seq(AWord) /\ Len(Burst(p + 1, len)) = count
         /\ \A m \in 1 .. count : OfBurst(Burst(p + 1, len)[m], m, count, p + 1, len)
  <2>1. p + 1 \in Nat  OBVIOUS
  <2> QED  BY <2>1, BurstOf
<1>3. PICK other \in Seq(AWord) : other = Burst(p + 1, len)  BY <1>2
<1>4. Len(other) = count /\ DOMAIN other = 1 .. count
      /\ \A m \in 1 .. count : OfBurst(other[m], m, count, p + 1, len)
  BY <1>2, <1>3, LenProperties
<1>5. WORD \in Nat \ {0}  BY WordNat
<1>6. n = count
  <2>1. PICK c \in Nat : c = (n - 1) * WORD /\ c < len /\ len - c <= WORD
    <3>1. BurstWord(words[n], n, p, len) /\ words[n].last  BY <1>1
    <3> QED  BY <3>1 DEF BurstWord
  <2>2. PICK e \in Nat : e = (count - 1) * WORD /\ e < len /\ len - e <= WORD
    <3>1. OfBurst(other[count], count, count, p + 1, len)  BY <1>2, <1>4
    <3> QED  BY <3>1 DEF OfBurst
  <2>3. PICK x \in 0 .. WORD - 1, y \in 0 .. WORD - 1 : x = len - c - 1 /\ y = len - e - 1
    BY <2>1, <2>2, <1>5
  <2>4. c + x = e + y
    <3>1. c \in Nat /\ e \in Nat /\ x = len - c - 1 /\ y = len - e - 1
      BY <2>1, <2>2, <2>3
    <3> QED  BY <3>1
  <2>5. (n - 1) * WORD + x = (count - 1) * WORD + y  BY <2>1, <2>2, <2>4
  <2>6. PICK l \in Int, m \in Int : l = n - 1 /\ m = count - 1
    <3>1. n \in Nat /\ count \in Nat  BY <1>1, <1>2
    <3> QED  BY <3>1
  <2>7. l * WORD + x = m * WORD + y  BY <2>5, <2>6
  <2>8. l = m  BY <2>3, <2>7, <1>5, <2>6, Unique
  <2> QED  BY <2>6, <2>8, <1>1, <1>2
<1>7. ASSUME NEW m \in 1 .. n
      PROVE  /\ words[m].keep = other[m].keep /\ words[m].last = other[m].last
             /\ Valid(words[m]) = Valid(other[m])
  <2>1. PICK a \in AWord, e \in AWord : a = words[m] /\ e = other[m]
    <3>1. words[m] \in AWord /\ other[m] \in AWord
      BY <1>1, <1>4, <1>6, <1>7, ElementOfSeq
    <3> QED  BY <3>1
  <2>2. BurstWord(a, m, p, len) /\ OfBurst(e, m, count, p + 1, len)
    BY <2>1, <1>1, <1>4, <1>6, <1>7
  <2>3. PICK c \in Nat : /\ c = (m - 1) * WORD /\ c < len
                         /\ a.keep = Least(WORD, len - c) /\ (a.last <=> len - c <= WORD)
                         /\ \A j \in 1 .. a.keep : a.data[j] = p + c + j
    BY <2>2 DEF BurstWord
  <2>4. /\ e.keep = Least(WORD, len - c)
        /\ e.last <=> len - c <= WORD
        /\ \A j \in 1 .. WORD : e.data[j] = IF j <= e.keep THEN (p + 1) + c + j - 1 ELSE Junk
    BY <2>2, <2>3 DEF OfBurst
  <2>5. a.keep = e.keep  BY <2>3, <2>4
  <2>6. a.last \in BOOLEAN /\ e.last \in BOOLEAN /\ a.keep \in 0 .. WORD
    BY <2>1, WordParts
  <2>7. a.last = e.last  BY <2>3, <2>4, <2>6
  <2>8. ASSUME NEW j \in 1 .. a.keep PROVE a.data[j] = e.data[j]
    <3>1. PICK keep \in 0 .. WORD : keep = a.keep /\ keep = e.keep  BY <2>5, <2>6
    <3>2. j \in 1 .. keep /\ j \in 1 .. WORD /\ j <= keep  BY <3>1, <1>5
    <3>3. e.data[j] = (p + 1) + c + j - 1  BY <3>1, <3>2, <2>4
    <3>4. a.data[j] = p + c + j  BY <2>3
    <3>5. (p + 1) + c + j - 1 = p + c + j  BY <2>3, <3>2
    <3> QED  BY <3>3, <3>4, <3>5
  <2>9. Valid(a) = Valid(e)  BY <2>1, <2>5, <2>8, SameValid
  <2> QED  BY <2>1, <2>5, <2>7, <2>9
<1>8. Same(words, other)
  BY <1>1, <1>4, <1>6, <1>7 DEF Same
<1> QED  BY <1>3, <1>8

\* As it is put.
LEMMA SegmentBurst ==
    ASSUME AskedInv, NEW i \in DOMAIN asked, NEW k \in Nat \ {0}, NEW word \in AWord,
           SegmentWord(word, i, Point(i, k))
    PROVE  BurstWord(word, k, Before(i), Length(i))
<1>1. PICK before \in Nat, end \in Nat, len \in Nat \ {0} :
         before = Before(i) /\ end = asked[i] /\ len = Length(i) /\ len = end - before
  BY AskedFacts
<1>2. PICK c \in Nat : c = (k - 1) * WORD
  <2>1. PICK m \in Nat : m = k - 1  OBVIOUS
  <2>2. m * WORD \in Nat  BY WordNat
  <2> QED  BY <2>1, <2>2
<1>3. PICK p \in Nat : p = Point(i, k) /\ p = before + c
  <2>1. Point(i, k) = before + c /\ before + c \in Nat  BY <1>1, <1>2 DEF Point
  <2> QED  BY <2>1
<1>4. /\ p < end
      /\ word.keep = Least(WORD, end - p) /\ (word.last <=> end - p <= WORD)
      /\ \A j \in 1 .. word.keep : word.data[j] = p + j
  BY <1>1, <1>3 DEF SegmentWord
<1>5. end - p = len - c /\ c < len  BY <1>1, <1>2, <1>3, <1>4
<1>6. \A j \in 1 .. word.keep : word.data[j] = before + c + j  BY <1>3, <1>4
<1>7. BurstWord(word, k, before, len)  BY <1>2, <1>4, <1>5, <1>6 DEF BurstWord
<1> QED  BY <1>1, <1>7

\* The next word that leaves.
LEMMA OutTaken ==
    ASSUME AskedStays, NEW i \in Nat, NEW k \in Nat, OutLeft(i, k), Len(got) \in Nat, Len(burst) \in Nat,
           q["out"] # <<>>, q'["out"] = Tail(q["out"])
    PROVE  /\ Front("out") \in AWord /\ Len(got) + 1 \in DOMAIN asked
           /\ \/ Filled(Len(got) + 1)
              \/ SegmentWord(Front("out"), Len(got) + 1, Point(Len(got) + 1, Len(burst) + 1))
           /\ Front("out").last => /\ Len(got) + 2 <= i
                                   /\ Chain(q'["out"], AWord, OutSteps(i)', <<Len(got) + 2, 1>>, <<i, k>>)
           /\ ~Front("out").last =>
                 Chain(q'["out"], AWord, OutSteps(i)', <<Len(got) + 1, Len(burst) + 2>>, <<i, k>>)
<1>1. PICK g \in Nat, n \in Nat : g = Len(got) + 1 /\ n = Len(burst) + 1
      /\ g + 1 = Len(got) + 2 /\ n + 1 = Len(burst) + 2
  OBVIOUS
<1>2. Chain(q["out"], AWord, OutSteps(i), <<g, n>>, <<i, k>>)  BY <1>1 DEF OutLeft
<1>3. OutSteps(i) \subseteq OutSteps(i)'  BY ReadStepsStay
<1>4. PICK word, z : /\ word = Front("out") /\ word \in AWord
                     /\ <<word, <<g, n>>, z>> \in OutSteps(i)
                     /\ Chain(q'["out"], AWord, OutSteps(i)', z, <<i, k>>)
  <2>1. PICK s, x, y, S : s = q["out"] /\ x = <<g, n>> /\ y = <<i, k>> /\ S = OutSteps(i)'
    OBVIOUS
  <2>2. Chain(s, AWord, OutSteps(i), x, y) /\ s # <<>> /\ OutSteps(i) \subseteq S
    BY <2>1, <1>2, <1>3
  <2>3. Head(s) \in AWord /\ \E z : <<Head(s), x, z>> \in OutSteps(i) /\ Chain(Tail(s), AWord, S, z, y)
    BY <2>2, ChainTake
  <2> QED  BY <2>1, <2>3 DEF Front
<1>5. /\ z \in (0 .. i) \X Nat /\ OutStep(word, <<g, n>>, z)
  BY <1>4 DEF OutSteps
<1>6. /\ g \in DOMAIN asked /\ (Filled(g) \/ SegmentWord(word, g, Point(g, n)))
      /\ z = IF word.last THEN <<g + 1, 1>> ELSE <<g, n + 1>>
  BY <1>5 DEF OutStep
<1>7. word.last => g + 1 <= i
  <2>1. SUFFICES ASSUME word.last PROVE g + 1 <= i  OBVIOUS
  <2>2. z = <<g + 1, 1>> /\ z[1] \in 0 .. i  BY <2>1, <1>5, <1>6
  <2>3. z[1] = g + 1  BY <2>2
  <2> QED  BY <2>2, <2>3
<1> QED  BY <1>1, <1>4, <1>6, <1>7

\* A word leaves that is not the last of its burst.
LEMMA LeavingWord ==
    ASSUME AskedStays, asked' = asked, AtLeaving, Len(got) + 1 \in DOMAIN asked,
           NEW word \in AWord, ~word.last,
           Filled(Len(got) + 1) \/ SegmentWord(word, Len(got) + 1, Point(Len(got) + 1, Len(burst) + 1)),
           got' = got, burst' = Append(burst, word)
    PROVE  AtLeaving' /\ Len(burst') = Len(burst) + 1
<1>1. /\ got \in Seq(Seq(AWord)) /\ \A i \in DOMAIN got : Filled(i) \/ Intact(i)
      /\ burst \in Seq(AWord)
      /\ \A k \in DOMAIN burst :
            /\ ~burst[k].last
            /\ Filled(Len(got) + 1) \/ SegmentWord(burst[k], Len(got) + 1, Point(Len(got) + 1, k))
  BY DEF AtLeaving
<1>2. PICK g \in Nat, n \in Nat : g = Len(got) + 1 /\ n = Len(burst)
  <2>1. Len(got) \in Nat /\ Len(burst) \in Nat  BY <1>1, LenProperties
  <2> QED  BY <2>1
<1>3. PICK words \in Seq(AWord) : words = Append(burst, word)
  <2>1. Append(burst, word) \in Seq(AWord)  BY <1>1, AppendProperties
  <2> QED  BY <2>1
<1>4. /\ Len(words) = n + 1 /\ words[n + 1] = word /\ \A m \in 1 .. n : words[m] = burst[m]
      /\ DOMAIN words = 1 .. n + 1 /\ DOMAIN burst = 1 .. n
  BY <1>1, <1>2, <1>3, AppendProperties, LenProperties
<1>5. ASSUME NEW m \in DOMAIN words
      PROVE  ~words[m].last /\ (Filled(g) \/ SegmentWord(words[m], g, Point(g, m)))
  <2>1. m \in 1 .. n \/ m = n + 1  BY <1>4
  <2>2. CASE m \in 1 .. n  BY <2>2, <1>1, <1>2, <1>4
  <2>3. CASE m = n + 1  BY <2>3, <1>2, <1>4
  <2> QED  BY <2>1, <2>2, <2>3
<1>6. AskedInv /\ start' = start /\ asked' = asked  BY DEF AskedStays
<1>7. \A i : (Filled(i)' <=> Filled(i)) /\ Before(i)' = Before(i) /\ Length(i)' = Length(i)
  BY <1>6 DEF Filled, Address, Place, Before, Length
<1>8. \A i, m : Point(i, m)' = Point(i, m)  BY <1>7 DEF Point
<1>9. \A i \in DOMAIN got' : Filled(i)' \/ Intact(i)'  BY <1>1, <1>7 DEF Intact
<1>10. burst' = words /\ g = Len(got') + 1  BY <1>2, <1>3
<1>11. \A m \in DOMAIN burst' :
          /\ Len(got') + 1 \in DOMAIN asked' /\ ~burst'[m].last
          /\ Filled(Len(got) + 1)' \/ SegmentWord(burst[m], Len(got) + 1, Point(Len(got) + 1, m))'
  <2>1. ASSUME NEW m \in DOMAIN words
        PROVE  Filled(g)' \/ SegmentWord(words[m], g, Point(g, m))'
    BY <1>5, <1>6, <1>7, <1>8 DEF SegmentWord
  <2>2. ASSUME NEW m \in DOMAIN words
        PROVE  Filled(Len(got) + 1)' \/ SegmentWord(burst[m], Len(got) + 1, Point(Len(got) + 1, m))'
    BY <2>1, <1>10
  <2> QED  BY <2>2, <1>2, <1>5, <1>6, <1>10
<1> QED  BY <1>1, <1>2, <1>3, <1>4, <1>9, <1>10, <1>11 DEF AtLeaving

\* The last word of a burst leaves: one more segment.
LEMMA LeavingLast ==
    ASSUME AskedStays, asked' = asked, AtLeaving, Len(got) + 1 \in DOMAIN asked,
           NEW word \in AWord, word.last,
           Filled(Len(got) + 1) \/ SegmentWord(word, Len(got) + 1, Point(Len(got) + 1, Len(burst) + 1)),
           got' = Append(got, Append(burst, word)), burst' = <<>>
    PROVE  AtLeaving' /\ Len(got') = Len(got) + 1
<1>1. /\ got \in Seq(Seq(AWord)) /\ \A i \in DOMAIN got : Filled(i) \/ Intact(i)
      /\ burst \in Seq(AWord)
      /\ \A k \in DOMAIN burst :
            /\ ~burst[k].last
            /\ Filled(Len(got) + 1) \/ SegmentWord(burst[k], Len(got) + 1, Point(Len(got) + 1, k))
  BY DEF AtLeaving
<1>2. PICK g \in Nat, n \in Nat : g = Len(got) + 1 /\ n = Len(burst) /\ DOMAIN got = 1 .. g - 1
  <2>1. Len(got) \in Nat /\ Len(burst) \in Nat /\ DOMAIN got = 1 .. Len(got)
    BY <1>1, LenProperties
  <2>2. Len(got) + 1 \in Nat /\ Len(got) + 1 - 1 = Len(got)  BY <2>1
  <2> QED  BY <2>1, <2>2
<1>3. PICK words \in Seq(AWord) : words = Append(burst, word)
  <2>1. Append(burst, word) \in Seq(AWord)  BY <1>1, AppendProperties
  <2> QED  BY <2>1
<1>4. /\ Len(words) = n + 1 /\ words[n + 1] = word /\ \A m \in 1 .. n : words[m] = burst[m]
      /\ DOMAIN words = 1 .. n + 1 /\ DOMAIN burst = 1 .. n
  BY <1>1, <1>2, <1>3, AppendProperties, LenProperties
<1>5. ASSUME NEW m \in DOMAIN words
      PROVE  /\ words[m].last <=> m = Len(words)
             /\ Filled(g) \/ SegmentWord(words[m], g, Point(g, m))
             /\ words[m] \in AWord /\ m \in Nat \ {0}
  <2>1. m \in 1 .. n \/ m = n + 1  BY <1>4
  <2>2. words[m] \in AWord /\ m \in Nat \ {0}  BY <1>3, <1>4, <1>5, ElementOfSeq
  <2>3. CASE m \in 1 .. n
    <3>1. m # Len(words)  BY <2>3, <1>2, <1>4
    <3> QED  BY <2>2, <2>3, <3>1, <1>1, <1>2, <1>4
  <2>4. CASE m = n + 1  BY <2>2, <2>4, <1>2, <1>4
  <2> QED  BY <2>1, <2>3, <2>4
<1>6. AskedInv /\ start' = start /\ asked' = asked  BY DEF AskedStays
<1>7. \A i : (Filled(i)' <=> Filled(i)) /\ Before(i)' = Before(i) /\ Length(i)' = Length(i)
  BY <1>6 DEF Filled, Address, Place, Before, Length
<1>8. PICK all \in Seq(Seq(AWord)) : all = Append(got, words)
  <2>1. Append(got, words) \in Seq(Seq(AWord))  BY <1>1, <1>3, AppendProperties
  <2> QED  BY <2>1
<1>9. /\ Len(all) = g /\ all[g] = words /\ DOMAIN all = 1 .. g
      /\ \A i \in 1 .. g - 1 : all[i] = got[i]
  <2>1. Len(got) \in Nat /\ Len(got) = g - 1 /\ Len(got) + 1 = g
    BY <1>1, <1>2, LenProperties
  <2>2. Len(all) = Len(got) + 1 /\ all[Len(got) + 1] = words
        /\ \A i \in 1 .. Len(got) : all[i] = got[i]
    BY <1>1, <1>3, <1>8, AppendProperties
  <2>3. DOMAIN all = 1 .. Len(all)  BY <1>8, LenProperties
  <2> QED  BY <2>1, <2>2, <2>3
<1>10. got' = all  BY <1>3, <1>8
<1>11. Filled(g) \/ Same(words, Burst(Before(g) + 1, Length(g)))
  <2>1. SUFFICES ASSUME ~Filled(g) PROVE Same(words, Burst(Before(g) + 1, Length(g)))
    OBVIOUS
  <2>2. g \in DOMAIN asked  BY <1>2
  <2>3. PICK p \in Nat, len \in Nat \ {0} : p = Before(g) /\ len = Length(g)
    BY <2>2, <1>6, AskedFacts
  <2>4. ASSUME NEW m \in DOMAIN words
        PROVE  BurstWord(words[m], m, p, len) /\ (words[m].last <=> m = Len(words))
    <3>1. PICK one \in AWord : one = words[m]  BY <1>5
    <3>2. SegmentWord(one, g, Point(g, m)) /\ m \in Nat \ {0}  BY <3>1, <2>1, <1>5
    <3>3. BurstWord(one, m, p, len)  BY <3>2, <2>2, <2>3, <1>6, SegmentBurst
    <3> QED  BY <3>1, <3>3, <1>5
  <2>5. words # <<>>
    <3>1. Len(words) # 0  BY <1>2, <1>4
    <3> QED  BY <3>1, <1>3, EmptySeq
  <2>6. Same(words, Burst(p + 1, len))  BY <2>3, <2>4, <2>5, <1>3, BurstSame
  <2> QED  BY <2>3, <2>6
<1>12. ASSUME NEW i \in DOMAIN got' PROVE Filled(i)' \/ Intact(i)'
  <2>1. i \in 1 .. g /\ (i \in 1 .. g - 1 \/ i = g)  BY <1>2, <1>9, <1>10
  <2>2. CASE i \in 1 .. g - 1
    <3>1. got'[i] = got[i] /\ (Filled(i) \/ Intact(i))  BY <2>2, <1>1, <1>2, <1>9, <1>10
    <3> QED  BY <3>1, <1>7 DEF Intact
  <2>3. CASE i = g
    <3>1. got'[i] = words  BY <2>3, <1>9, <1>10
    <3>2. Filled(i) \/ Same(words, Burst(Before(i) + 1, Length(i)))  BY <2>3, <1>11
    <3> QED  BY <3>1, <3>2, <1>7 DEF Intact
  <2> QED  BY <2>1, <2>2, <2>3
<1>13. burst' \in Seq(AWord) /\ DOMAIN burst' = {}  BY EmptySeq
<1>14. Len(got') = Len(got) + 1  BY <1>2, <1>9, <1>10
<1>15. AtLeaving'  BY <1>8, <1>10, <1>12, <1>13 DEF AtLeaving
<1> QED  BY <1>14, <1>15

\* Leave: a word goes out.
LEMMA LeaveKeeps ==
    ASSUME start \in Nat, AskedInv, written \in Nat, written' = written, Sequences,
           NEW b, NEW bp, NEW rp, NEW f, NEW ip, NEW i, NEW k, ReadSide(b, bp, rp, f, ip, i, k),
           Leave, r' = r, breakdown' = breakdown
    PROVE  /\ AskedStays /\ ReadSide(b, bp, rp, f, ip, i, k)'
           /\ Left \in Nat /\ Left' \in Nat /\ Left <= Left'
           /\ DOMAIN q' = BufferStreams /\ \A s \in BufferStreams \ {"out"} : q'[s] = q[s]
<1>1. /\ q["out"] # <<>> /\ q'["out"] = Tail(q["out"]) /\ DOMAIN q' = BufferStreams
      /\ \A s \in BufferStreams \ {"out"} : q'[s] = q[s]
  <2>1. Transfer({"out"}, Silent) /\ "out" \in BufferStreams
    BY DEF Leave, BufferStreams
  <2> QED  BY <2>1, TakeEffect
<1>2. start' = start /\ asked' = asked  BY DEF Leave
<1>3. AskedStays
  <2>1. written <= written' /\ written' \in Nat  OBVIOUS
  <2> QED  BY <2>1, <1>2, AskedSame
<1>4. /\ q'["readCmd"] = q["readCmd"] /\ q'["accessFlag"] = q["accessFlag"]
      /\ q'["memCmd"] = q["memCmd"] /\ q'["memData"] = q["memData"]
  <2>1. {"readCmd", "accessFlag", "memCmd", "memData"} \subseteq BufferStreams \ {"out"}
    BY DEF BufferStreams
  <2> QED  BY <2>1, <1>1
<1>5. /\ {bp, rp, ip} \subseteq Nat
      /\ ReadsLeft(b) /\ AtBreakdown(b, bp) /\ FlagsLeft(f, b) /\ AccessesLeft(rp, bp)
      /\ LoadsLeft(ip, rp) /\ AtStitcher(f, ip, i, k) /\ OutLeft(i, k) /\ AtLeaving
      /\ b \in 0 .. Len(asked) /\ k \in Nat
  BY DEF ReadSide, ReadsLeft, AtStitcher
<1>6. /\ ReadsLeft(b)' /\ AtBreakdown(b, bp)' /\ FlagsLeft(f, b)' /\ AccessesLeft(rp, bp)'
      /\ LoadsLeft(ip, rp)' /\ AtStitcher(f, ip, i, k)'
  <2>1. Len(asked') = Len(asked)  BY <1>2
  <2> QED
    BY <2>1, <1>3, <1>4, <1>5, ReadsStay, BreakdownStays, FlagsStay, AccessesStay,
       LoadsStay,
           StitcherStays
<1>7. Len(got) \in Nat /\ Len(burst) \in Nat /\ i \in Nat /\ Len(got) + 1 <= i
  <2>1. Len(got) \in Nat /\ Len(got) + 1 <= i /\ i \in 1 .. Len(asked) + 1
    BY ReadBounds
  <2>2. Len(burst) \in Nat  BY <1>5, LenProperties DEF AtLeaving
  <2> QED  BY <2>1, <2>2
<1>8. PICK word \in AWord : word = Front("out")  BY <1>1, <1>3, <1>5, <1>7, OutTaken
<1>9. /\ Len(got) + 1 \in DOMAIN asked
      /\ Filled(Len(got) + 1) \/ SegmentWord(word, Len(got) + 1, Point(Len(got) + 1, Len(burst) + 1))
      /\ word.last => /\ Len(got) + 2 <= i
                      /\ Chain(q'["out"], AWord, OutSteps(i)', <<Len(got) + 2, 1>>, <<i, k>>)
      /\ ~word.last => Chain(q'["out"], AWord, OutSteps(i)', <<Len(got) + 1, Len(burst) + 2>>, <<i, k>>)
  BY <1>1, <1>3, <1>5, <1>7, <1>8, OutTaken
<1>10. IF word.last THEN got' = Append(got, Append(burst, word)) /\ burst' = <<>>
       ELSE burst' = Append(burst, word) /\ got' = got
  BY <1>8 DEF Leave
<1>11. PICK g \in Nat, n \in Nat : g = Len(got) /\ n = Len(burst) /\ g + 1 \in DOMAIN asked
          /\ g + 1 \in 1 .. Len(asked) + 1 /\ g + 2 \in 1 .. Len(asked) + 1 /\ g + 1 + 1 = g + 2
          /\ n + 1 + 1 = n + 2
  <2>1. PICK g \in Nat, n \in Nat, l \in Nat : g = Len(got) /\ n = Len(burst) /\ l = Len(asked) /\ g + 1 \in 1 .. l
    BY <1>7, <1>9, AskedFacts
  <2>2. g + 1 \in 1 .. l + 1 /\ g + 2 \in 1 .. l + 1 /\ g + 1 + 1 = g + 2 /\ n + 1 + 1 = n + 2
    BY <2>1
  <2> QED  BY <2>1, <2>2, <1>9
<1>12. \A j : Before(j)' = Before(j)  BY <1>2 DEF Before
<1>13. /\ Before(g + 1) \in Nat /\ Before(g + 2) \in Nat /\ Before(g + 1) <= Before(g + 2)
  <2>1. g + 1 <= g + 2  BY <1>11
  <2> QED  BY <2>1, <1>11, AskedFacts DEF AskedInv
<1>14. CASE word.last
  <2>1. AtLeaving' /\ Len(got') = g + 1
    BY <1>3, <1>2, <1>5, <1>8, <1>9, <1>10, <1>11, <1>14, LeavingLast
  <2>2. OutLeft(i, k)'
    <3>1. Len(burst') + 1 = 1  BY <1>10, <1>14, EmptySeq
    <3>2. Len(got') + 1 = g + 2 /\ Len(got') + 1 <= i  BY <2>1, <1>9, <1>11, <1>14
    <3>3. Chain(q'["out"], AWord, OutSteps(i)', <<Len(got') + 1, Len(burst') + 1>>, <<i, k>>)
      BY <3>1, <3>2, <1>9, <1>11, <1>14
    <3> QED  BY <3>2, <3>3 DEF OutLeft
  <2>3. Left = Before(g + 1) /\ Left' = Before(g + 2)
    <3>1. Left = Before(g + 1)  BY <1>11 DEF Left
    <3>2. Len(got') + 1 = g + 2  BY <2>1, <1>11
    <3>3. Left' = IF Len(got') + 1 = 1 THEN 0 ELSE asked'[Len(got') + 1 - 1]
      BY DEF Left, Before
    <3>4. Left' = IF g + 2 = 1 THEN 0 ELSE asked'[g + 2 - 1]  BY <3>2, <3>3
    <3> QED  BY <3>1, <3>4, <1>2 DEF Before
  <2>4. ReadSide(b, bp, rp, f, ip, i, k)'  BY <2>1, <2>2, <1>5, <1>6 DEF ReadSide
  <2> QED  BY <2>3, <2>4, <1>1, <1>3, <1>13
<1>15. CASE ~word.last
  <2>1. AtLeaving' /\ Len(burst') = n + 1
    BY <1>3, <1>2, <1>5, <1>8, <1>9, <1>10, <1>11, <1>15, LeavingWord
  <2>2. OutLeft(i, k)'
    <3>1. Len(burst') + 1 = n + 2 /\ got' = got  BY <2>1, <1>10, <1>11, <1>15
    <3>2. Chain(q'["out"], AWord, OutSteps(i)', <<Len(got') + 1, Len(burst') + 1>>, <<i, k>>)
      BY <3>1, <1>9, <1>11, <1>15
    <3> QED  BY <3>1, <3>2, <1>7 DEF OutLeft
  <2>3. Left = Before(g + 1) /\ Left' = Before(g + 1)
    <3>1. Left = Before(g + 1)  BY <1>11 DEF Left
    <3>2. Len(got') + 1 = g + 1  BY <1>10, <1>11, <1>15
    <3>3. Left' = IF Len(got') + 1 = 1 THEN 0 ELSE asked'[Len(got') + 1 - 1]
      BY DEF Left, Before
    <3>4. Left' = IF g + 1 = 1 THEN 0 ELSE asked'[g + 1 - 1]  BY <3>2, <3>3
    <3> QED  BY <3>1, <3>4, <1>2 DEF Before
  <2>4. ReadSide(b, bp, rp, f, ip, i, k)'  BY <2>1, <2>2, <1>5, <1>6 DEF ReadSide
  <2> QED  BY <2>3, <2>4, <1>1, <1>3, <1>13
<1> QED  BY <1>14, <1>15

-----------------------------------------------------------------------------
(***************************************************************************)
(* The two sides together: a step of one leaves the other as it is.        *)
(***************************************************************************)
\* A step that reads and writes streams of one side leaves the others.
LEMMA ElsewhereStays ==
    ASSUME Sequences, NEW R, NEW W, Transfer(R, W), R \subseteq WriteStreams, DOMAIN W \subseteq WriteStreams
    PROVE  DOMAIN q' = BufferStreams /\ \A s \in ReadStreams : q'[s] = q[s]
<1>1. \A s \in ReadStreams : s \in BufferStreams /\ s \notin WriteStreams
  BY DEF ReadStreams, WriteStreams, BufferStreams
<1>2. /\ DOMAIN q' = BufferStreams
      /\ \A s \in BufferStreams : s \notin R /\ s \notin DOMAIN W => q'[s] = q[s]
  BY StreamEffect
<1> QED  BY <1>1, <1>2

\* Of the writer, for the streams of the side that is read.
LEMMA WriterElsewhere ==
    ASSUME Sequences, Writer
    PROVE  DOMAIN q' = BufferStreams /\ \A s \in ReadStreams : q'[s] = q[s]
<1>1. /\ {"push"} \subseteq WriteStreams /\ {"data"} \subseteq WriteStreams /\ {} \subseteq WriteStreams
      /\ "writeCmd" \in WriteStreams /\ "writeData" \in WriteStreams
  BY DEF WriteStreams
<1>2. DOMAIN Silent \subseteq WriteStreams  BY WritesOf
<1>3. \A v : DOMAIN To("writeCmd", v) \subseteq WriteStreams /\ DOMAIN To("writeData", v) \subseteq WriteStreams
  <2>1. ASSUME NEW v
        PROVE  DOMAIN To("writeCmd", v) \subseteq WriteStreams /\ DOMAIN To("writeData", v) \subseteq WriteStreams
    <3>1. DOMAIN To("writeCmd", v) = {"writeCmd"} /\ DOMAIN To("writeData", v) = {"writeData"}
      BY DEF To
    <3> QED  BY <3>1, <1>1
  <2> QED  BY <2>1
<1>4. CASE WriteCommand
  <2>1. CASE Front("push").drop
    <3>1. Transfer({"push"}, Silent)  BY <1>4, <2>1 DEF WriteCommand
    <3> QED  BY <3>1, <1>1, <1>2, ElsewhereStays
  <2>2. CASE ~Front("push").drop
    <3>1. PICK v, over : Transfer({"push"}, Both(To("writeCmd", v), DoubleAccess(over)))
      BY <1>4, <2>2 DEF WriteCommand
    <3>2. DOMAIN Both(To("writeCmd", v), DoubleAccess(over)) \subseteq WriteStreams
      <4>1. DOMAIN Both(To("writeCmd", v), DoubleAccess(over))
               = DOMAIN To("writeCmd", v) \cup DOMAIN DoubleAccess(over)
        BY WritesOf
      <4>2. DOMAIN DoubleAccess(over) \subseteq WriteStreams  BY <1>2, WritesOf
      <4> QED  BY <4>1, <4>2, <1>3
    <3> QED  BY <3>1, <3>2, <1>1, ElsewhereStays
  <2> QED  BY <2>1, <2>2
<1>5. CASE WriteFirst
  <2>1. CASE w.drop
    <3>1. Transfer({"data"}, Silent)  BY <1>5, <2>1 DEF WriteFirst
    <3> QED  BY <3>1, <1>1, <1>2, ElsewhereStays
  <2>2. CASE ~w.drop
    <3>1. PICK v : Transfer({"data"}, To("writeData", v))  BY <1>5, <2>2 DEF WriteFirst
    <3> QED  BY <3>1, <1>1, <1>3, ElsewhereStays
  <2> QED  BY <2>1, <2>2
<1>6. CASE WriteSecond
  <2>1. PICK v : Transfer({}, To("writeCmd", v))  BY <1>6 DEF WriteSecond
  <2> QED  BY <2>1, <1>1, <1>3, ElsewhereStays
<1>7. CASE WriteAligned
  <2>1. PICK v : Transfer({"data"}, To("writeData", v))  BY <1>7 DEF WriteAligned
  <2> QED  BY <2>1, <1>1, <1>3, ElsewhereStays
<1>8. CASE WriteRealigned
  <2>1. PICK v : Transfer({"data"}, To("writeData", v))  BY <1>8 DEF WriteRealigned
  <2> QED  BY <2>1, <1>1, <1>3, ElsewhereStays
<1>9. CASE WriteResidue
  <2>1. PICK v : Transfer({}, To("writeData", v))  BY <1>9 DEF WriteResidue
  <2> QED  BY <2>1, <1>1, <1>3, ElsewhereStays
<1> QED  BY <1>4, <1>5, <1>6, <1>7, <1>8, <1>9 DEF Writer

\* Of the data mover, likewise.
LEMMA MoverElsewhere ==
    ASSUME Sequences, MemCommand \/ MemWrite
    PROVE  DOMAIN q' = BufferStreams /\ \A s \in ReadStreams : q'[s] = q[s]
<1>1. {"writeCmd"} \subseteq WriteStreams /\ {"writeData"} \subseteq WriteStreams
      /\ "status" \in WriteStreams
  BY DEF WriteStreams
<1>2. DOMAIN Silent \subseteq WriteStreams  BY WritesOf
<1>3. CASE MemCommand
  <2>1. Transfer({"writeCmd"}, Silent)  BY <1>3 DEF MemCommand
  <2> QED  BY <2>1, <1>1, <1>2, ElsewhereStays
<1>4. CASE MemWrite
  <2>1. PICK v, last : Transfer({"writeData"}, IF last THEN To("status", v) ELSE Silent)
    BY <1>4 DEF MemWrite
  <2>2. DOMAIN (IF last THEN To("status", v) ELSE Silent) \subseteq WriteStreams
    <3>1. CASE last
      <4>1. DOMAIN To("status", v) = {"status"}  BY DEF To
      <4>2. (IF last THEN To("status", v) ELSE Silent) = To("status", v)  BY <3>1
      <4> QED  BY <4>1, <4>2, <1>1
    <3>2. CASE ~last
      <4>1. (IF last THEN To("status", v) ELSE Silent) = Silent  BY <3>2
      <4> QED  BY <4>1, <1>2
    <3> QED  BY <3>1, <3>2
  <2> QED  BY <2>1, <2>2, <1>1, ElsewhereStays
<1> QED  BY <1>3, <1>4

-----------------------------------------------------------------------------
\* What the invariant says that all steps need.
LEMMA Known ==
    ASSUME IInv
    PROVE  /\ start \in Nat /\ Sequences /\ LengthsFit /\ written \in Nat
           /\ Left \in Nat /\ Left <= Asked /\ Asked \in Nat /\ Len(got) \in Nat
           /\ Len(got) + 1 \in 1 .. Len(asked) + 1 /\ Len(asked) \in Nat /\ Total \in Nat
<1>1. start \in Nat /\ GivenInv /\ AskedInv /\ SpaceKept /\ WriteInv /\ ReadInv
  BY DEF IInv, Typed
<1>2. PICK np, n, c, op, cp, ms, mp, me : WriteSide(np, n, c, op, cp, ms, mp, me) /\ MemoryHolds(mp)
  BY <1>1 DEF WriteInv
<1>3. PICK b, bp, rp, f, ip, i, k : ReadSide(b, bp, rp, f, ip, i, k)
  BY <1>1 DEF ReadInv
<1>4. Sequences  BY <1>2, <1>3, StreamsAreSequences
<1>5. Len(got) \in Nat /\ Len(asked) \in Nat /\ Len(got) + 1 \in 1 .. Len(asked) + 1
  <2>1. Len(got) \in Nat /\ Len(got) + 1 <= i /\ i \in 1 .. Len(asked) + 1 /\ Len(asked) \in Nat
    BY <1>1, <1>3, ReadBounds, AskedFacts
  <2> QED  BY <2>1
<1>6. Left \in Nat /\ Left <= Asked /\ Asked \in Nat  BY <1>1, <1>5, AskedFacts DEF Left
<1>7. written \in Nat /\ written <= Total /\ Total \in Nat
  <2>1. written \in Nat /\ ms \in Nat /\ mp \in Nat /\ written <= ms /\ ms <= mp
    BY <1>2, WriteBounds
  <2>2. mp <= Total /\ Total \in Nat  BY <1>1, <1>2, KeptFacts DEF MemoryHolds
  <2> QED  BY <2>1, <2>2
<1>8. LengthsFit  BY <1>1, <1>5, <1>7, LengthFits DEF LengthsFit
<1> QED  BY <1>1, <1>4, <1>5, <1>6, <1>7, <1>8

\* A step of the side that is read leaves the side that is written as it is.
LEMMA WriteSame ==
    ASSUME IInv, Left' \in Nat, Left <= Left', UNCHANGED <<start, given, w, mover, mem, written>>,
           \A s \in WriteStreams : q'[s] = q[s]
    PROVE  GivenInv' /\ SpaceKept' /\ WriteInv'
<1>1. start \in Nat /\ Left \in Nat /\ GivenInv /\ WriteInv /\ SpaceKept /\ Total \in Nat
  BY Known DEF IInv
<1>2. start' = start /\ given' = given /\ w' = w /\ mover' = mover /\ mem' = mem /\ written' = written
  OBVIOUS
<1>3. GivenStays  BY <1>1, <1>2, GivenSame
<1>4. PICK np, n, c, op, cp, ms, mp, me : WriteSide(np, n, c, op, cp, ms, mp, me) /\ MemoryHolds(mp)
  BY <1>1 DEF WriteInv
<1>5. WriteSide(np, n, c, op, cp, ms, mp, me)'
  <2>1. Len(given') = Len(given)  BY <1>2
  <2> QED  BY <2>1, <1>2, <1>3, <1>4, WriteSideStays
<1>6. MemoryHolds(mp)'
  <2>1. mp \in Nat  BY <1>4, WriteBounds
  <2> QED  BY <2>1, <1>1, <1>2, <1>3, <1>4, MemoryStays
<1>7. SpaceKept'
  <2>1. Total' = Total  BY <1>2 DEF Total, Kept
  <2>2. PICK total \in Nat, left \in Nat, later \in Nat :
           total = Total /\ left = Left /\ later = Left' /\ left <= later
    BY <1>1
  <2>3. total - left < SPACE  BY <1>1, <2>2 DEF SpaceKept
  <2>4. total - later < SPACE
    <3>1. total \in Nat /\ left \in Nat /\ later \in Nat /\ left <= later /\ SPACE \in Nat
      BY <2>2, SpaceNat
    <3> QED  BY <3>1, <2>3
  <2> QED  BY <2>1, <2>2, <2>4 DEF SpaceKept
<1> QED  BY <1>3, <1>5, <1>6, <1>7 DEF WriteInv, GivenStays

\* A step of the side that is written leaves the side that is read as it is.
LEMMA ReadSame ==
    ASSUME IInv, written' \in Nat, written <= written', UNCHANGED <<start, asked, r, breakdown, got, burst>>,
           \A s \in ReadStreams : q'[s] = q[s]
    PROVE  AskedInv' /\ ReadInv' /\ Left' = Left
<1>1. start \in Nat /\ AskedInv /\ ReadInv /\ written \in Nat  BY Known DEF IInv
<1>2. start' = start /\ asked' = asked /\ r' = r /\ breakdown' = breakdown /\ got' = got /\ burst' = burst
  OBVIOUS
<1>3. AskedStays  BY <1>1, <1>2, AskedSame
<1>4. PICK b, bp, rp, f, ip, i, k : ReadSide(b, bp, rp, f, ip, i, k)
  BY <1>1 DEF ReadInv
<1>5. ReadSide(b, bp, rp, f, ip, i, k)'
  <2>1. Len(asked') = Len(asked)  BY <1>2
  <2> QED  BY <2>1, <1>2, <1>3, <1>4, ReadSideStays
<1>6. Left' = Left  BY <1>2 DEF Left, Before
<1> QED  BY <1>3, <1>5, <1>6 DEF ReadInv, AskedStays

\* Each step of Next keeps the invariant: those of tasi_pkg_pusher,
LEMMA WriterInv ==
    ASSUME IInv, Writer, UNCHANGED <<memoryVars, r, useVars, todo, given, written>>
    PROVE  IInv'
<1>1. /\ start' = start /\ asked' = asked /\ burst' = burst /\ got' = got /\ r' = r
      /\ mem' = mem /\ mover' = mover /\ breakdown' = breakdown
      /\ todo' = todo /\ given' = given /\ written' = written
  BY DEF memoryVars, useVars
<1>2. /\ start \in Nat /\ Sequences /\ written \in Nat /\ Left \in Nat /\ Typed
      /\ GivenInv /\ AskedInv /\ WriteInv /\ SpaceKept
  BY Known DEF IInv
<1>3. DOMAIN q' = BufferStreams /\ \A s \in ReadStreams : q'[s] = q[s]
  BY <1>2, WriterElsewhere
<1>4. AskedInv' /\ ReadInv' /\ Left' = Left
  <2>1. written' \in Nat /\ written <= written'  BY <1>1, <1>2
  <2> QED  BY <2>1, <1>1, <1>3, ReadSame
<1>5. GivenStays  BY <1>1, <1>2, GivenSame
<1>6. WriterSteps  BY <1>1, <1>2, <1>5 DEF WriterSteps
<1>7. PICK np, n, c, op, cp, ms, mp, me : WriteSide(np, n, c, op, cp, ms, mp, me) /\ MemoryHolds(mp)
  BY <1>2 DEF WriteInv
<1>8. PICK np2, n2, c2, op2, cp2 : WriteSide(np2, n2, c2, op2, cp2, ms, mp, me)'
  BY <1>6, <1>7, WriterKeeps
<1>9. MemoryHolds(mp)'
  <2>1. mp \in Nat /\ Left' \in Nat /\ Left <= Left'  BY <1>2, <1>4, <1>7, WriteBounds
  <2> QED  BY <2>1, <1>1, <1>2, <1>5, <1>7, MemoryStays
<1>10. WriteInv'  BY <1>8, <1>9 DEF WriteInv
<1>11. SpaceKept'
  <2>1. Total' = Total  BY <1>1 DEF Total, Kept
  <2> QED  BY <2>1, <1>2, <1>4 DEF SpaceKept
<1>12. Typed' /\ GivenInv'  BY <1>1, <1>2, <1>3, <1>5 DEF Typed, GivenStays
<1> QED  BY <1>4, <1>10, <1>11, <1>12 DEF IInv

\* of the data mover where it writes,
LEMMA MoverInv ==
    ASSUME IInv, MemCommand \/ MemWrite, UNCHANGED <<w, r, useVars, todo, given, written>>
    PROVE  IInv'
<1>1. /\ start' = start /\ asked' = asked /\ burst' = burst /\ got' = got /\ r' = r /\ w' = w
      /\ todo' = todo /\ given' = given /\ written' = written /\ breakdown' = breakdown
  BY DEF useVars, MemCommand, MemWrite
<1>2. /\ start \in Nat /\ Sequences /\ written \in Nat /\ Left \in Nat /\ Typed
      /\ GivenInv /\ AskedInv /\ WriteInv /\ SpaceKept
  BY Known DEF IInv
<1>3. DOMAIN q' = BufferStreams /\ \A s \in ReadStreams : q'[s] = q[s]
  BY <1>2, MoverElsewhere
<1>4. AskedInv' /\ ReadInv' /\ Left' = Left
  <2>1. written' \in Nat /\ written <= written'  BY <1>1, <1>2
  <2> QED  BY <2>1, <1>1, <1>3, ReadSame
<1>5. GivenStays  BY <1>1, <1>2, GivenSame
<1>6. MoverSteps  BY <1>1, <1>2, <1>5 DEF MoverSteps
<1>7. PICK np, n, c, op, cp, ms, mp, me : WriteSide(np, n, c, op, cp, ms, mp, me) /\ MemoryHolds(mp)
  BY <1>2 DEF WriteInv
<1>8. WriteInv'
  <2>1. CASE MemCommand
    <3>1. PICK z : WriteSide(np, n, c, op, cp, ms, mp, z)'
      BY <2>1, <1>6, <1>7, MemCommandKeeps
    <3>2. MemoryHolds(mp)'
      <4>1. mp \in Nat /\ Left' \in Nat /\ Left <= Left'
        BY <1>2, <1>4, <1>7, WriteBounds
      <4>2. mem' = mem  BY <2>1 DEF MemCommand
      <4> QED  BY <4>1, <4>2, <1>2, <1>5, <1>7, MemoryStays
    <3> QED  BY <3>1, <3>2 DEF WriteInv
  <2>2. CASE MemWrite
    <3>1. PICK x, y, z : WriteSide(np, n, c, op, cp, x, y, z)' /\ MemoryHolds(y)'
      BY <2>2, <1>1, <1>2, <1>6, <1>7, MemWriteKeeps
    <3> QED  BY <3>1 DEF WriteInv
  <2> QED  BY <2>1, <2>2
<1>9. SpaceKept'
  <2>1. Total' = Total  BY <1>1 DEF Total, Kept
  <2> QED  BY <2>1, <1>2, <1>4 DEF SpaceKept
<1>10. Typed' /\ GivenInv'  BY <1>1, <1>2, <1>3, <1>5 DEF Typed, GivenStays
<1> QED  BY <1>4, <1>8, <1>9, <1>10 DEF IInv

\* of the break-down and of the data mover where it reads,
LEMMA LoaderInv ==
    ASSUME IInv, ReadFirst \/ ReadSecond \/ MemRead, UNCHANGED <<w, r, useVars, todo, given, written>>
    PROVE  IInv'
<1>1. /\ start' = start /\ asked' = asked /\ burst' = burst /\ got' = got /\ r' = r /\ w' = w
      /\ todo' = todo /\ given' = given /\ written' = written /\ mem' = mem /\ mover' = mover
  BY DEF useVars, memoryVars, ReadFirst, ReadSecond, MemRead
<1>2. /\ start \in Nat /\ Sequences /\ written \in Nat /\ Left \in Nat /\ Typed /\ LengthsFit
      /\ GivenInv /\ AskedInv /\ WriteInv /\ ReadInv
  BY Known DEF IInv
<1>3. PICK np, n, c, op, cp, ms, mp, me : WriteSide(np, n, c, op, cp, ms, mp, me) /\ MemoryHolds(mp)
  BY <1>2 DEF WriteInv
<1>4. PICK b, bp, rp, f, ip, i, k : ReadSide(b, bp, rp, f, ip, i, k)
  BY <1>2 DEF ReadInv
<1>5. AskedStays
  <2>1. written' \in Nat /\ written <= written'  BY <1>1, <1>2
  <2> QED  BY <2>1, <1>1, <1>2, AskedSame
<1>6. LoaderSteps  BY <1>1, <1>2, <1>5 DEF LoaderSteps
<1>7. ReadInv' /\ DOMAIN q' = BufferStreams /\ \A s \in WriteStreams : q'[s] = q[s]
  <2>1. CASE ReadFirst
    <3>1. /\ \E b2, bp2 : ReadSide(b2, bp2, rp, f, ip, i, k)'
          /\ DOMAIN q' = BufferStreams /\ \A s \in WriteStreams : q'[s] = q[s]
      BY <2>1, <1>4, <1>6, ReadFirstKeeps
    <3> QED  BY <3>1 DEF ReadInv
  <2>2. CASE ReadSecond
    <3>1. /\ \E bp2 : ReadSide(b, bp2, rp, f, ip, i, k)'
          /\ DOMAIN q' = BufferStreams /\ \A s \in WriteStreams : q'[s] = q[s]
      BY <2>2, <1>4, <1>6, ReadSecondKeeps
    <3> QED  BY <3>1 DEF ReadInv
  <2>3. CASE MemRead
    <3>1. mp \in Nat /\ written <= mp
      <4>1. written \in Nat /\ ms \in Nat /\ mp \in Nat /\ written <= ms /\ ms <= mp
        BY <1>3, WriteBounds
      <4> QED  BY <4>1
    <3>2. breakdown' = breakdown  BY <2>3 DEF MemRead, memoryVars
    <3>3. /\ \E rp2 : ReadSide(b, bp, rp2, f, ip, i, k)'
          /\ DOMAIN q' = BufferStreams /\ \A s \in WriteStreams : q'[s] = q[s]
      BY <2>3, <3>1, <3>2, <1>2, <1>3, <1>4, <1>6, MemReadKeeps
    <3> QED  BY <3>3 DEF ReadInv
  <2> QED  BY <2>1, <2>2, <2>3
<1>8. GivenInv' /\ SpaceKept' /\ WriteInv'
  <2>1. Left' = Left  BY <1>1 DEF Left, Before
  <2>2. Left' \in Nat /\ Left <= Left'  BY <2>1, <1>2
  <2> QED  BY <2>2, <1>1, <1>7, WriteSame
<1>9. Typed' /\ AskedInv'  BY <1>1, <1>2, <1>5, <1>7 DEF Typed, AskedStays
<1> QED  BY <1>7, <1>8, <1>9 DEF IInv

\* of tcpPkgStitcher,
LEMMA StitcherInv ==
    ASSUME IInv, Stitcher, UNCHANGED <<w, memoryVars, useVars, todo, given, written>>
    PROVE  IInv'
<1>1. /\ start' = start /\ asked' = asked /\ burst' = burst /\ got' = got /\ w' = w
      /\ todo' = todo /\ given' = given /\ written' = written
      /\ mem' = mem /\ mover' = mover /\ breakdown' = breakdown
  BY DEF useVars, memoryVars
<1>2. /\ start \in Nat /\ Sequences /\ written \in Nat /\ Left \in Nat /\ Typed /\ LengthsFit
      /\ AskedInv /\ ReadInv
  BY Known DEF IInv
<1>3. PICK b, bp, rp, f, ip, i, k : ReadSide(b, bp, rp, f, ip, i, k)
  BY <1>2 DEF ReadInv
<1>4. AskedStays
  <2>1. written' \in Nat /\ written <= written'  BY <1>1, <1>2
  <2> QED  BY <2>1, <1>1, <1>2, AskedSame
<1>5. StitchSteps  BY <1>1, <1>2, <1>4 DEF StitchSteps
<1>6. ReadInv' /\ DOMAIN q' = BufferStreams /\ \A s \in WriteStreams : q'[s] = q[s]
  <2>1. /\ \E f2, ip2, i2, k2 : ReadSide(b, bp, rp, f2, ip2, i2, k2)'
        /\ DOMAIN q' = BufferStreams /\ \A s \in WriteStreams : q'[s] = q[s]
    BY <1>3, <1>5, StitcherKeeps
  <2> QED  BY <2>1 DEF ReadInv
<1>7. GivenInv' /\ SpaceKept' /\ WriteInv'
  <2>1. Left' = Left  BY <1>1 DEF Left, Before
  <2>2. Left' \in Nat /\ Left <= Left'  BY <2>1, <1>2
  <2> QED  BY <2>2, <1>1, <1>6, WriteSame
<1>8. Typed' /\ AskedInv'  BY <1>1, <1>2, <1>4, <1>6 DEF Typed, AskedStays
<1> QED  BY <1>6, <1>7, <1>8 DEF IInv

\* of the words that leave,
LEMMA LeaveInv ==
    ASSUME IInv, Leave, UNCHANGED <<w, memoryVars, r, todo, given, written>>
    PROVE  IInv'
<1>1. /\ w' = w /\ r' = r /\ todo' = todo /\ given' = given /\ written' = written
      /\ mem' = mem /\ mover' = mover /\ breakdown' = breakdown /\ start' = start
  BY DEF memoryVars, Leave
<1>2. /\ start \in Nat /\ Sequences /\ written \in Nat /\ Typed /\ AskedInv /\ ReadInv
  BY Known DEF IInv
<1>3. PICK b, bp, rp, f, ip, i, k : ReadSide(b, bp, rp, f, ip, i, k)
  BY <1>2 DEF ReadInv
<1>4. /\ AskedStays /\ ReadSide(b, bp, rp, f, ip, i, k)'
      /\ Left \in Nat /\ Left' \in Nat /\ Left <= Left'
      /\ DOMAIN q' = BufferStreams /\ \A s \in BufferStreams \ {"out"} : q'[s] = q[s]
  BY <1>1, <1>2, <1>3, LeaveKeeps
<1>5. \A s \in WriteStreams : q'[s] = q[s]
  <2>1. WriteStreams \subseteq BufferStreams \ {"out"}
    BY DEF WriteStreams, BufferStreams
  <2> QED  BY <2>1, <1>4
<1>6. GivenInv' /\ SpaceKept' /\ WriteInv'  BY <1>1, <1>4, <1>5, WriteSame
<1>7. ReadInv' /\ AskedInv'  BY <1>4 DEF ReadInv, AskedStays
<1>8. Typed'  BY <1>1, <1>2, <1>4 DEF Typed
<1> QED  BY <1>6, <1>7, <1>8 DEF IInv

\* of the application,
LEMMA SendInv ==
    ASSUME IInv, Send, UNCHANGED <<w, memoryVars, r>>
    PROVE  IInv'
<1>1. /\ start' = start /\ asked' = asked /\ burst' = burst /\ got' = got /\ w' = w /\ r' = r
      /\ written' = written /\ mem' = mem /\ mover' = mover /\ breakdown' = breakdown
  BY DEF useVars, memoryVars, Send
<1>2. /\ start \in Nat /\ Sequences /\ written \in Nat /\ Left \in Nat /\ Left <= Asked
      /\ GivenInv /\ AskedInv /\ WriteInv /\ SpaceKept
      /\ todo \in Seq([len : Nat \ {0}, drop : BOOLEAN])
  BY Known DEF IInv, Typed
<1>3. PICK np, n, c, op, cp, ms, mp, me : WriteSide(np, n, c, op, cp, ms, mp, me) /\ MemoryHolds(mp)
  BY <1>2 DEF WriteInv
<1>4. /\ GivenStays /\ WriteSide(np, n, c, op, cp, ms, mp, me)' /\ MemoryHolds(mp)'
      /\ SpaceKept' /\ todo' \in Seq([len : Nat \ {0}, drop : BOOLEAN])
      /\ DOMAIN q' = BufferStreams
      /\ \A s \in BufferStreams \ {"push", "data"} : q'[s] = q[s]
  BY <1>1, <1>2, <1>3, SendKeeps
<1>5. \A s \in ReadStreams : q'[s] = q[s]
  <2>1. ReadStreams \subseteq BufferStreams \ {"push", "data"}
    BY DEF ReadStreams, BufferStreams
  <2> QED  BY <2>1, <1>4
<1>6. AskedInv' /\ ReadInv'
  <2>1. written' \in Nat /\ written <= written'  BY <1>1, <1>2
  <2> QED  BY <2>1, <1>1, <1>5, ReadSame
<1>7. WriteInv'  BY <1>4 DEF WriteInv
<1>8. Typed' /\ GivenInv'  BY <1>1, <1>2, <1>4 DEF Typed, GivenStays
<1> QED  BY <1>4, <1>6, <1>7, <1>8 DEF IInv

\* of the answers that are counted,
LEMMA ConfirmInv ==
    ASSUME IInv, Confirm, UNCHANGED <<w, memoryVars, r>>
    PROVE  IInv'
<1>1. /\ start' = start /\ asked' = asked /\ burst' = burst /\ got' = got /\ w' = w /\ r' = r
      /\ todo' = todo /\ given' = given /\ mem' = mem /\ mover' = mover /\ breakdown' = breakdown
  BY DEF useVars, memoryVars, Confirm
<1>2. /\ start \in Nat /\ Sequences /\ written \in Nat /\ Left \in Nat /\ Typed
      /\ GivenInv /\ AskedInv /\ WriteInv /\ SpaceKept
  BY Known DEF IInv
<1>3. PICK np, n, c, op, cp, ms, mp, me : WriteSide(np, n, c, op, cp, ms, mp, me) /\ MemoryHolds(mp)
  BY <1>2 DEF WriteInv
<1>4. GivenStays  BY <1>1, <1>2, GivenSame
<1>5. /\ WriteSide(np, n, c, op, cp, ms, mp, me)'
      /\ written' \in Nat /\ written <= written'
      /\ \A s \in BufferStreams \ {"status"} : q'[s] = q[s]
  BY <1>1, <1>2, <1>3, <1>4, ConfirmKeeps
<1>6. DOMAIN q' = BufferStreams
  <2>1. Transfer({"status"}, Silent) /\ "status" \in BufferStreams
    BY DEF Confirm, BufferStreams
  <2> QED  BY <2>1, <1>2, TakeEffect
<1>7. \A s \in ReadStreams : q'[s] = q[s]
  <2>1. ReadStreams \subseteq BufferStreams \ {"status"}
    BY DEF ReadStreams, BufferStreams
  <2> QED  BY <2>1, <1>5
<1>8. AskedInv' /\ ReadInv' /\ Left' = Left  BY <1>1, <1>5, <1>7, ReadSame
<1>9. MemoryHolds(mp)'
  <2>1. mp \in Nat /\ Left' \in Nat /\ Left <= Left'  BY <1>2, <1>3, <1>8, WriteBounds
  <2> QED  BY <2>1, <1>1, <1>2, <1>3, <1>4, MemoryStays
<1>10. WriteInv'  BY <1>5, <1>9 DEF WriteInv
<1>11. SpaceKept'
  <2>1. Total' = Total  BY <1>1 DEF Total, Kept
  <2> QED  BY <2>1, <1>2, <1>8 DEF SpaceKept
<1>12. Typed' /\ GivenInv'  BY <1>1, <1>2, <1>4, <1>6 DEF Typed, GivenStays
<1> QED  BY <1>8, <1>10, <1>11, <1>12 DEF IInv

\* of metaLoader,
LEMMA AskInv ==
    ASSUME IInv, Ask, UNCHANGED <<w, memoryVars, r>>
    PROVE  IInv'
<1>1. /\ start' = start /\ burst' = burst /\ got' = got /\ w' = w /\ r' = r
      /\ todo' = todo /\ given' = given /\ written' = written
      /\ mem' = mem /\ mover' = mover /\ breakdown' = breakdown
  BY DEF memoryVars, Ask
<1>2. /\ start \in Nat /\ Sequences /\ written \in Nat /\ Left \in Nat /\ Typed
      /\ AskedInv /\ ReadInv /\ Len(got) + 1 \in 1 .. Len(asked) + 1
  BY Known DEF IInv
<1>3. PICK b, bp, rp, f, ip, i, k : ReadSide(b, bp, rp, f, ip, i, k)
  BY <1>2 DEF ReadInv
<1>4. /\ AskedStays /\ ReadSide(b, bp, rp, f, ip, i, k)' /\ DOMAIN q' = BufferStreams
      /\ \A s \in BufferStreams \ {"readCmd"} : q'[s] = q[s]
  BY <1>1, <1>2, <1>3, AskKeeps
<1>5. \A s \in WriteStreams : q'[s] = q[s]
  <2>1. WriteStreams \subseteq BufferStreams \ {"readCmd"}
    BY DEF WriteStreams, BufferStreams
  <2> QED  BY <2>1, <1>4
<1>6. Left' = Left
  <2>1. PICK j \in 1 .. Len(asked) + 1 : j = Len(got) + 1  BY <1>2
  <2>2. Before(j)' = Before(j)  BY <1>4, BeforeStays
  <2>3. Left = Before(j)  BY <2>1 DEF Left
  <2>4. Left' = IF Len(got') + 1 = 1 THEN 0 ELSE asked'[Len(got') + 1 - 1]
    BY DEF Left, Before
  <2>5. Left' = IF j = 1 THEN 0 ELSE asked'[j - 1]  BY <2>1, <2>4, <1>1
  <2> QED  BY <2>2, <2>3, <2>5 DEF Before
<1>7. GivenInv' /\ SpaceKept' /\ WriteInv'
  <2>1. Left' \in Nat /\ Left <= Left'  BY <1>2, <1>6
  <2> QED  BY <2>1, <1>1, <1>5, WriteSame
<1>8. ReadInv' /\ AskedInv'  BY <1>4 DEF ReadInv, AskedStays
<1>9. Typed'  BY <1>1, <1>2, <1>4 DEF Typed
<1> QED  BY <1>7, <1>8, <1>9 DEF IInv

\* and a step of none of them.
LEMMA StutterInv ==
    ASSUME IInv, UNCHANGED vars
    PROVE  IInv'
<1>1. /\ start' = start /\ asked' = asked /\ burst' = burst /\ got' = got /\ w' = w /\ r' = r
      /\ todo' = todo /\ given' = given /\ written' = written /\ q' = q
      /\ mem' = mem /\ mover' = mover /\ breakdown' = breakdown
  BY DEF vars, useVars, memoryVars
<1>2. written \in Nat /\ Left \in Nat /\ Typed  BY Known DEF IInv
<1>3. AskedInv' /\ ReadInv' /\ Left' = Left
  <2>1. written' \in Nat /\ written <= written'  BY <1>1, <1>2
  <2> QED  BY <2>1, <1>1, ReadSame
<1>4. GivenInv' /\ SpaceKept' /\ WriteInv'
  <2>1. Left' \in Nat /\ Left <= Left'  BY <1>2, <1>3
  <2> QED  BY <2>1, <1>1, WriteSame
<1>5. Typed'  BY <1>1, <1>2 DEF Typed
<1> QED  BY <1>3, <1>4, <1>5 DEF IInv

\* The invariant is inductive.
LEMMA NextIInv ==
    ASSUME IInv, [Next]_vars
    PROVE  IInv'
<1>1. CASE Writer /\ UNCHANGED <<memoryVars, r, useVars, todo, given, written>>
  BY <1>1, WriterInv
<1>2. CASE Memory /\ UNCHANGED <<w, r, useVars, todo, given, written>>
  BY <1>2, MoverInv, LoaderInv DEF Memory
<1>3. CASE Stitcher /\ UNCHANGED <<w, memoryVars, useVars, todo, given, written>>
  BY <1>3, StitcherInv
<1>4. CASE Leave /\ UNCHANGED <<w, memoryVars, r, todo, given, written>>
  BY <1>4, LeaveInv
<1>5. CASE (Send \/ Confirm \/ Ask) /\ UNCHANGED <<w, memoryVars, r>>
  BY <1>5, SendInv, ConfirmInv, AskInv
<1>6. CASE Done \/ UNCHANGED vars  BY <1>6, StutterInv DEF Done
<1> QED  BY <1>1, <1>2, <1>3, <1>4, <1>5, <1>6 DEF Next

-----------------------------------------------------------------------------
\* It holds at the start.
LEMMA InitIInv ==
    ASSUME Init
    PROVE  IInv
<1>1. /\ todo \in Pushes /\ given = <<>> /\ written = 0
      /\ q = [s \in Names |-> IF s \in DOMAIN Silent THEN Silent[s] ELSE <<>>]
      /\ start \in Starts /\ asked = <<>> /\ burst = <<>> /\ got = <<>>
      /\ mem = [a \in 0 .. SPACE - 1 |-> Junk] /\ mover = Idle /\ breakdown = NoAccess
  BY DEF Init, InitStreams, InitUse, InitMemory
<1>2. DOMAIN q = BufferStreams /\ \A s \in BufferStreams : q[s] = <<>>
  <2>1. \A s : s \notin DOMAIN Silent  BY WritesOf
  <2> QED  BY <2>1, <1>1, TxBufferAssumption
<1>3. Typed  BY <1>1, <1>2, TxBufferAssumption DEF Typed
<1>4. \A V : <<>> \in Seq(V) /\ Len(<<>>) = 0 /\ DOMAIN <<>> = {}
  BY EmptySeq
<1>5. Kept(0) = 0 /\ Len(given) = 0 /\ Total = 0  BY <1>1 DEF Kept, Total
<1>6. Before(1) = 0 /\ Len(asked) = 0 /\ Asked = 0 /\ Left = 0
  BY <1>1 DEF Before, Asked, Left
<1>7. GivenInv
  <2>1. 0 .. Len(given) = {0}  BY <1>5
  <2> QED  BY <2>1, <1>1, <1>4, <1>5 DEF GivenInv
<1>8. AskedInv
  <2>1. 1 .. Len(asked) + 1 = {1}  BY <1>6
  <2> QED  BY <2>1, <1>1, <1>4, <1>6 DEF AskedInv
<1>9. SpaceKept  BY <1>5, <1>6, SpaceNat DEF SpaceKept
<1>10. AxiWord(Pad(<<>>), 0, FALSE) \in AWord
  <2>1. PICK d \in Data : d = Pad(<<>>)  BY <1>4, PadOf
  <2>2. 0 \in 0 .. WORD /\ FALSE \in BOOLEAN  BY WordNat
  <2> QED  BY <2>1, <2>2, AxiWordOf
<1>11. /\ {"push", "data", "writeCmd", "writeData", "status"} \subseteq BufferStreams
       /\ {"readCmd", "memCmd", "accessFlag", "memData", "out"} \subseteq BufferStreams
  BY DEF BufferStreams
<1>12. WriteInv
  <2>1. PushesLeft(0)
    <3>1. q["push"] = <<>>  BY <1>2, <1>11
    <3>2. q["push"] \in Seq(APush) /\ Len(q["push"]) = 0 /\ DOMAIN q["push"] = {}
      BY <3>1, EmptySeq
    <3>3. 0 \in 0 .. Len(given) /\ 0 = Len(given) - 0  BY <1>5
    <3> QED  BY <3>2, <3>3 DEF PushesLeft
  <2>2. DataLeft(1, 0)
    <3>1. Len(given) + 1 = 1  BY <1>5
    <3> QED  BY <3>1, <1>2, <1>11, ChainEmpty DEF DataLeft
  <2>3. CommandsLeft(0, 0) /\ WordsLeft(0, 0)
    BY <1>2, <1>11, ChainEmpty DEF CommandsLeft, WordsLeft
  <2>4. AnswersLeft(0)  BY <1>1, <1>2, <1>11, ChainEmpty DEF AnswersLeft
  <2>5. AtMover(0, 0, 0)  BY <1>1 DEF AtMover
  <2>6. AtWriter(0, 1, 0, 0, 0)
    <3>1. PICK word \in AWord : word = AxiWord(Pad(<<>>), 0, FALSE)  BY <1>10
    <3>2. w = [state |-> "command", addr |-> 0, bbt |-> 0, left |-> 0, residue |-> 0,
               taken |-> 0, broken |-> FALSE, word |-> word, drop |-> FALSE]
      BY <3>1 DEF Init, InitWriter
    <3>3. WriterTyped  BY <3>2 DEF WriterTyped
    <3>4. AtCommand(0, 1, 0, 0, 0)  BY <3>2, <1>5 DEF AtCommand
    <3> QED  BY <3>3, <3>4 DEF AtWriter
  <2>7. WriteSide(0, 1, 0, 0, 0, 0, 0, 0)
    <3>1. {0, 1, written} \subseteq Nat  BY <1>1
    <3> QED  BY <3>1, <2>1, <2>2, <2>3, <2>4, <2>5, <2>6 DEF WriteSide
  <2>8. MemoryHolds(0)
    <3>1. mem \in [0 .. SPACE - 1 -> Int]  BY <1>1 DEF Junk
    <3>2. Left + 1 .. 0 = {}  BY <1>6
    <3> QED  BY <3>1, <3>2, <1>5 DEF MemoryHolds
  <2> QED  BY <2>7, <2>8 DEF WriteInv
<1>13. ReadInv
  <2>1. ReadsLeft(0)
    <3>1. q["readCmd"] = <<>>  BY <1>2, <1>11
    <3>2. q["readCmd"] \in Seq(ACommand) /\ Len(q["readCmd"]) = 0 /\ DOMAIN q["readCmd"] = {}
      BY <3>1, EmptySeq
    <3>3. 0 \in 0 .. Len(asked) /\ 0 = Len(asked) - 0  BY <1>6
    <3> QED  BY <3>2, <3>3 DEF ReadsLeft
  <2>2. AtBreakdown(0, 0)
    <3>1. Before(0 + 1) = 0  BY <1>6
    <3> QED  BY <3>1, <1>1 DEF AtBreakdown
  <2>3. FlagsLeft(0, 0)
    <3>1. q["accessFlag"] = <<>>  BY <1>2, <1>11
    <3>2. q["accessFlag"] \in Seq({0, 1}) /\ Len(q["accessFlag"]) = 0 /\ DOMAIN q["accessFlag"] = {}
      BY <3>1, EmptySeq
    <3>3. 0 \in 0 .. 0 /\ 0 = 0 - 0  OBVIOUS
    <3> QED  BY <3>2, <3>3 DEF FlagsLeft
  <2>4. AccessesLeft(0, 0)  BY <1>2, <1>11, ChainEmpty DEF AccessesLeft
  <2>5. LoadsLeft(0, 0)  BY <1>2, <1>11, ChainEmpty DEF LoadsLeft
  <2>6. AtStitcher(0, 0, 1, 1)
    <3>1. PICK word \in AWord : word = AxiWord(Pad(<<>>), 0, FALSE)  BY <1>10
    <3>2. r = [state |-> "data", flag |-> Unread, word |-> word, shift |-> 0]
      BY <3>1 DEF Init, InitStitcher
    <3>3. StitcherTyped  BY <3>2, WordNat DEF StitcherTyped
    <3>4. AtStart(0, 0, 1, 1)  BY <3>2, <1>6 DEF AtStart
    <3>5. 1 \in 1 .. Len(asked) + 1 /\ Before(1) <= 0  BY <1>6
    <3> QED  BY <3>3, <3>4, <3>5 DEF AtStitcher
  <2>7. OutLeft(1, 1)
    <3>1. Len(got) + 1 = 1 /\ Len(burst) + 1 = 1  BY <1>1
    <3> QED  BY <3>1, <1>2, <1>11, ChainEmpty DEF OutLeft
  <2>8. AtLeaving  BY <1>1, <1>4 DEF AtLeaving
  <2>9. ReadSide(0, 0, 0, 0, 0, 1, 1)
    <3>1. {0} \subseteq Nat  OBVIOUS
    <3> QED  BY <3>1, <2>1, <2>2, <2>3, <2>4, <2>5, <2>6, <2>7, <2>8 DEF ReadSide
  <2> QED  BY <2>9 DEF ReadInv
<1> QED  BY <1>3, <1>7, <1>8, <1>9, <1>12, <1>13 DEF IInv

-----------------------------------------------------------------------------
\* The invariant: what is on the streams between any two of the functions are the
\* bytes from where the one is to where the other is, and the memory holds those
\* between the two sides.
THEOREM BufferInvariant == Spec => []IInv
<1>1. Init => IInv  BY InitIInv
<1>2. IInv /\ [Next]_vars => IInv'  BY NextIInv
<1> QED  BY <1>1, <1>2, PTL DEF Spec

\* tasi_pkg_pusher: every access of the data mover gets exactly the words it is long,
\* its last one with last set, whether or not the push runs over the end of the
\* buffer and whatever the place it starts at.
THEOREM AccessesExact == Spec => []AccessExact
<1>1. IInv => AccessExact
  <2>1. SUFFICES ASSUME IInv PROVE AccessExact  OBVIOUS
  <2>2. start \in Nat /\ WriteInv  BY <2>1 DEF IInv, Typed
  <2>3. PICK np, n, c, op, cp, ms, mp, me : WriteSide(np, n, c, op, cp, ms, mp, me)
    BY <2>2 DEF WriteInv
  <2> QED  BY <2>2, <2>3, ExactStep
<1> QED  BY <1>1, BufferInvariant, PTL

\* tasi_metaLoader and tcpPkgStitcher: a segment has the bytes it was asked for, in
\* order and cut into full words, from every place of the buffer, unless it fills it.
THEOREM SegmentsKept == Spec => []SegmentsIntactUnlessFilled
<1>1. IInv => SegmentsIntactUnlessFilled
  BY DEF IInv, ReadInv, ReadSide, AtLeaving, SegmentsIntactUnlessFilled
<1> QED  BY <1>1, BufferInvariant, PTL

\* The bytes the memory has answered for and that have not left yet.
ConfirmedHeld == \A p \in Left + 1 .. written : mem[Place(p - 1)] = p

\* What has been confirmed to the application and has not left is in the memory: no
\* push is written over it, since a push is given only while there is space.
THEOREM ConfirmedBytesHeld == Spec => [](ConfirmedHeld /\ SpaceKept)
<1>1. IInv => ConfirmedHeld /\ SpaceKept
  <2>1. SUFFICES ASSUME IInv PROVE ConfirmedHeld /\ SpaceKept  OBVIOUS
  <2>2. SpaceKept /\ WriteInv /\ Left \in Nat /\ written \in Nat
    BY <2>1, Known DEF IInv
  <2>3. PICK np, n, c, op, cp, ms, mp, me :
           WriteSide(np, n, c, op, cp, ms, mp, me) /\ MemoryHolds(mp)
    BY <2>2 DEF WriteInv
  <2>4. written \in Nat /\ ms \in Nat /\ mp \in Nat /\ written <= ms /\ ms <= mp
    BY <2>3, WriteBounds
  <2>5. \A p \in Left + 1 .. written : p \in Left + 1 .. mp  BY <2>2, <2>4
  <2> QED  BY <2>2, <2>3, <2>5 DEF MemoryHolds, ConfirmedHeld
<1> QED  BY <1>1, BufferInvariant, PTL
=============================================================================
