--------------------------- MODULE PortTableProofs ---------------------------
(***************************************************************************)
(* PortTable for any number of ports, any depth of the streams and any     *)
(* ports asked for: types, and the answers to the RX engine are in order.  *)
(***************************************************************************)
EXTENDS PortTable, FiniteSetTheorems, SequenceTheorems, TLAPS

-----------------------------------------------------------------------------
(***************************************************************************)
(* Numbers of ports                                                        *)
(***************************************************************************)
LEMMA Halves == /\ HALF \in Nat \ {0} /\ BYTE * BYTE = 2 * HALF /\ BYTE \in Nat \ {0}
<1>1. PICK k \in Nat : BYTE = 2 * k /\ BYTE \in Nat \ {0}
  <2>1. BYTE \in Nat \ {0} /\ BYTE % 2 = 0  BY PortTableAssumption
  <2>2. BYTE = 2 * (BYTE \div 2) /\ BYTE \div 2 \in Nat  BY <2>1
  <2> QED  BY <2>1, <2>2
<1>2. BYTE * BYTE = 2 * (k * BYTE) /\ k * BYTE \in Nat \ {0}  BY <1>1
<1> DEFINE m == k * BYTE
<1>3. BYTE * BYTE = 2 * m /\ m \in Nat \ {0}  BY <1>2
<1> HIDE DEF m
<1>4. (2 * m) \div 2 = m  BY <1>3
<1> QED  BY <1>1, <1>3, <1>4 DEF HALF

\* The bytes of a port swapped are a port.
LEMMA Swapped == ASSUME NEW p \in Port PROVE Swap(p) \in Port
<1>1. BYTE \in Nat \ {0} /\ p \in Nat /\ p <= BYTE * BYTE - 1  BY Halves DEF Port
<1> DEFINE l == p % BYTE
           h == p \div BYTE
<1>2. l \in 0 .. BYTE - 1 /\ h \in Nat /\ p = h * BYTE + l
  BY <1>1
<1> HIDE DEF l, h
<1>3. h <= BYTE - 1
  <2> SUFFICES ASSUME h >= BYTE PROVE FALSE  BY <1>1, <1>2
  <2>1. h * BYTE >= BYTE * BYTE  BY <1>1, <1>2
  <2> QED  BY <1>1, <1>2, <2>1
<1>4. l * BYTE <= (BYTE - 1) * BYTE /\ (BYTE - 1) * BYTE = BYTE * BYTE - BYTE  BY <1>1, <1>2
<1>5. l * BYTE \in Nat /\ BYTE * BYTE \in Nat  BY <1>1, <1>2
<1>6. l * BYTE + h \in 0 .. BYTE * BYTE - 1  BY <1>1, <1>2, <1>3, <1>4, <1>5
<1> QED  BY <1>6 DEF Swap, Port, l, h

\* A port of the upper half and its index.
LEMMA UpperHalf ==
    ASSUME NEW p \in Port, p >= HALF
    PROVE  p % HALF = p - HALF /\ p - HALF \in Index
<1>1. HALF \in Nat \ {0} /\ p \in Nat /\ p < 2 * HALF  BY Halves DEF Port
<1> HIDE DEF HALF
<1>2. p - HALF \in 0 .. HALF - 1  BY <1>1
<1>3. p % HALF = p - HALF  BY <1>1, <1>2
<1> QED  BY <1>2, <1>3 DEF Index

-----------------------------------------------------------------------------
(***************************************************************************)
(* How many of the first i questions go to table x                         *)
(***************************************************************************)
Rank(x, D, i) == Cardinality({j \in 1 .. i : D[j] = x})

LEMMA RankFinite ==
    ASSUME NEW x, NEW D, NEW i \in Nat
    PROVE  IsFiniteSet({j \in 1 .. i : D[j] = x}) /\ Rank(x, D, i) \in Nat
<1>1. IsFiniteSet(1 .. i)  BY FS_Interval
<1>2. {j \in 1 .. i : D[j] = x} \in SUBSET (1 .. i)  OBVIOUS
<1>3. IsFiniteSet({j \in 1 .. i : D[j] = x})  BY <1>1, <1>2, FS_Subset
<1> QED  BY <1>3, FS_CardinalityType DEF Rank

LEMMA RankZero == ASSUME NEW x, NEW D PROVE Rank(x, D, 0) = 0
<1>1. {j \in 1 .. 0 : D[j] = x} = {}  OBVIOUS
<1> QED  BY <1>1, FS_EmptySet DEF Rank

LEMMA RankStep ==
    ASSUME NEW x, NEW D, NEW i \in Nat
    PROVE  /\ D[i + 1] = x => Rank(x, D, i + 1) = Rank(x, D, i) + 1
           /\ D[i + 1] # x => Rank(x, D, i + 1) = Rank(x, D, i)
<1> DEFINE A == {j \in 1 .. i : D[j] = x}
           B == {j \in 1 .. i + 1 : D[j] = x}
           n == i + 1
<1>1. IsFiniteSet(A) /\ n \notin A
  <2>1. IsFiniteSet(A)  BY RankFinite
  <2>2. n \notin A  OBVIOUS
  <2> QED  BY <2>1, <2>2
<1>2. (D[n] = x => B = A \cup {n}) /\ (D[n] # x => B = A)  OBVIOUS
<1>3. Cardinality(A \cup {n}) = Cardinality(A) + 1  BY <1>1, FS_AddElement
<1>4. Rank(x, D, i) = Cardinality(A) /\ Rank(x, D, n) = Cardinality(B)  BY DEF Rank
<1> HIDE DEF A, B
<1> QED  BY <1>2, <1>3, <1>4

LEMMA RankMonotone ==
    ASSUME NEW x, NEW D, NEW k \in Nat, NEW i \in 0 .. k
    PROVE  Rank(x, D, i) <= Rank(x, D, k)
<1>1. IsFiniteSet({j \in 1 .. k : D[j] = x})  BY RankFinite
<1>2. {j \in 1 .. i : D[j] = x} \in SUBSET {j \in 1 .. k : D[j] = x}  OBVIOUS
<1> QED  BY <1>1, <1>2, FS_Subset DEF Rank

LEMMA RankPositive ==
    ASSUME NEW x, NEW D, NEW i \in Nat \ {0}, D[i] = x
    PROVE  Rank(x, D, i) >= 1
<1>1. i - 1 \in Nat /\ (i - 1) + 1 = i  OBVIOUS
<1>2. Rank(x, D, i) = Rank(x, D, i - 1) + 1  BY <1>1, RankStep
<1>3. Rank(x, D, i - 1) \in Nat  BY <1>1, RankFinite
<1> QED  BY <1>2, <1>3

LEMMA RankAppend ==
    ASSUME NEW S, NEW D \in Seq(S), NEW e \in S, NEW x, NEW i \in 0 .. Len(D)
    PROVE  Rank(x, Append(D, e), i) = Rank(x, D, i)
<1>1. \A j \in 1 .. i : Append(D, e)[j] = D[j]  BY AppendProperties, LenProperties
<1>2. {j \in 1 .. i : Append(D, e)[j] = x} = {j \in 1 .. i : D[j] = x}  BY <1>1
<1> QED  BY <1>2 DEF Rank

LEMMA RankTail ==
    ASSUME NEW S, NEW D \in Seq(S), D # <<>>, NEW x, NEW i \in 0 .. Len(D) - 1
    PROVE  /\ D[1] = x => Rank(x, Tail(D), i) = Rank(x, D, i + 1) - 1
           /\ D[1] # x => Rank(x, Tail(D), i) = Rank(x, D, i + 1)
<1> DEFINE A == {j \in 1 .. i + 1 : D[j] = x}
           B == {j \in 1 .. i : Tail(D)[j] = x}
           f == [j \in B |-> j + 1]
<1>1. Len(D) \in Nat \ {0} /\ i \in Nat  BY EmptySeq, LenProperties
<1>2. \A j \in 1 .. i : Tail(D)[j] = D[j + 1]  BY <1>1, HeadTailProperties
<1>3. IsFiniteSet(A) /\ IsFiniteSet(B)
  <2>1. i + 1 \in Nat  BY <1>1
  <2>2. IsFiniteSet(A)  BY <2>1, RankFinite
  <2>3. IsFiniteSet(B)  BY <1>1, RankFinite
  <2> QED  BY <2>2, <2>3
<1>4. Cardinality(A \ {1}) = Cardinality(B)
  <2>1. f \in [B -> A \ {1}]  BY <1>1, <1>2
  <2>2. \A j, k \in B : f[j] = f[k] => j = k  BY <1>1
  <2>3. \A k \in A \ {1} : \E j \in B : f[j] = k
    <3> TAKE k \in A \ {1}
    <3>1. k - 1 \in B /\ f[k - 1] = k  BY <1>1, <1>2
    <3> QED  BY <3>1
  <2>4. f \in Bijection(B, A \ {1})
    BY <2>1, <2>2, <2>3 DEF Bijection, Injection, Surjection, IsInjective
  <2>5. ExistsBijection(B, A \ {1})  BY <2>4 DEF ExistsBijection
  <2> QED  BY <1>3, <2>5, FS_Bijection
<1>5. Cardinality(A \ {1}) = IF 1 \in A THEN Cardinality(A) - 1 ELSE Cardinality(A)
  BY <1>3, FS_RemoveElement
<1>6. 1 \in A <=> D[1] = x  BY <1>1
<1>7. Rank(x, D, i + 1) = Cardinality(A) /\ Rank(x, Tail(D), i) = Cardinality(B)  BY DEF Rank
<1> HIDE DEF A, B
<1> QED  BY <1>4, <1>5, <1>6, <1>7

-----------------------------------------------------------------------------
(***************************************************************************)
(* The questions D that are not answered, with their history A, and those  *)
(* of them that go to table x: its answers rsp first, then what it has     *)
(* been asked, req                                                         *)
(***************************************************************************)
Table    == {"LT", "FT"}
Question == [port : Port, values : SUBSET BOOLEAN]

Served(x, base, D, A, req, rsp) ==
    /\ Rank(x, D, Len(D)) = Len(rsp) + Len(req)
    /\ \A i \in 1 .. Len(D) : D[i] = x =>
          /\ Rank(x, D, i) <= Len(rsp) => rsp[Rank(x, D, i)] \in A[i].values
          /\ Rank(x, D, i) > Len(rsp) => A[i].port = base + req[Rank(x, D, i) - Len(rsp)]

\* One more question, to this table ...
LEMMA ServedAsk ==
    ASSUME NEW D \in Seq(Table), NEW A \in Seq(Question), Len(A) = Len(D),
           NEW req \in Seq(Index), NEW rsp \in Seq(BOOLEAN), NEW x \in Table, NEW base,
           Served(x, base, D, A, req, rsp),
           NEW e \in Question, NEW n \in Index, e.port = base + n
    PROVE  Served(x, base, Append(D, x), Append(A, e), Append(req, n), rsp)
<1> DEFINE k == Len(D)
           DD == Append(D, x)
           AA == Append(A, e)
           rr == Append(req, n)
<1>1. k \in Nat /\ Len(req) \in Nat /\ Len(rsp) \in Nat  BY LenProperties
<1>2. /\ Len(DD) = k + 1 /\ DD[k + 1] = x /\ \A i \in 1 .. k : DD[i] = D[i]
      /\ AA[k + 1] = e /\ \A i \in 1 .. k : AA[i] = A[i]
      /\ Len(rr) = Len(req) + 1 /\ rr[Len(req) + 1] = n
      /\ \A i \in 1 .. Len(req) : rr[i] = req[i]
  BY AppendProperties
<1>3. \A i \in 0 .. k : Rank(x, DD, i) = Rank(x, D, i)  BY RankAppend
<1>4. ASSUME NEW i \in 1 .. k
      PROVE  Rank(x, D, i) \in Nat /\ Rank(x, D, i) <= Rank(x, D, k)
  <2>1. i \in Nat /\ i \in 0 .. k  BY <1>1
  <2>2. Rank(x, D, i) \in Nat  BY <2>1, RankFinite
  <2>3. Rank(x, D, i) <= Rank(x, D, k)  BY <2>1, <1>1, RankMonotone
  <2> QED  BY <2>2, <2>3
<1>5. Rank(x, DD, k + 1) = Rank(x, D, k) + 1
  <2>1. Rank(x, DD, k + 1) = Rank(x, DD, k) + 1  BY <1>1, <1>2, RankStep
  <2>2. k \in 0 .. k  BY <1>1
  <2> QED  BY <2>1, <2>2, <1>3
<1>6. Rank(x, D, k) = Len(rsp) + Len(req)  BY DEF Served
<1> HIDE DEF DD, AA, rr
<1>7. ASSUME NEW i \in 1 .. k, DD[i] = x
      PROVE  /\ Rank(x, DD, i) <= Len(rsp) => rsp[Rank(x, DD, i)] \in AA[i].values
             /\ Rank(x, DD, i) > Len(rsp) => AA[i].port = base + rr[Rank(x, DD, i) - Len(rsp)]
  <2>1. Rank(x, DD, i) = Rank(x, D, i) /\ D[i] = x /\ AA[i] = A[i]  BY <1>1, <1>2, <1>3, <1>7
  <2>2. Rank(x, D, i) > Len(rsp) => Rank(x, D, i) - Len(rsp) \in 1 .. Len(req)
    BY <1>1, <1>4, <1>6
  <2> QED  BY <2>1, <2>2, <1>2, <1>7 DEF Served
<1>8. Rank(x, DD, k + 1) > Len(rsp) /\ Rank(x, DD, k + 1) - Len(rsp) = Len(req) + 1
  BY <1>1, <1>5, <1>6
<1>9. \A i \in 1 .. k + 1 : i \in 1 .. k \/ i = k + 1  BY <1>1
<1>10. Rank(x, DD, Len(DD)) = Len(rsp) + Len(rr)  BY <1>1, <1>2, <1>5, <1>6
<1>11. ASSUME NEW i \in 1 .. Len(DD), DD[i] = x
       PROVE  /\ Rank(x, DD, i) <= Len(rsp) => rsp[Rank(x, DD, i)] \in AA[i].values
              /\ Rank(x, DD, i) > Len(rsp) => AA[i].port = base + rr[Rank(x, DD, i) - Len(rsp)]
  <2>1. CASE i \in 1 .. k  BY <2>1, <1>7, <1>11
  <2>2. CASE i = k + 1
    <3>1. ~(Rank(x, DD, i) <= Len(rsp))  BY <2>2, <1>1, <1>8, <1>5, <1>6
    <3>2. AA[i].port = base + rr[Rank(x, DD, i) - Len(rsp)]  BY <2>2, <1>2, <1>8
    <3> QED  BY <3>1, <3>2
  <2> QED  BY <2>1, <2>2, <1>2, <1>9
<1> QED  BY <1>10, <1>11 DEF Served, DD, AA, rr

\* ... or to the other one.
LEMMA ServedOther ==
    ASSUME NEW D \in Seq(Table), NEW A \in Seq(Question), Len(A) = Len(D),
           NEW req \in Seq(Index), NEW rsp \in Seq(BOOLEAN), NEW x \in Table, NEW base,
           Served(x, base, D, A, req, rsp),
           NEW e \in Question, NEW y \in Table, y # x
    PROVE  Served(x, base, Append(D, y), Append(A, e), req, rsp)
<1> DEFINE k == Len(D)
           DD == Append(D, y)
           AA == Append(A, e)
<1>1. k \in Nat  BY LenProperties
<1>2. /\ Len(DD) = k + 1 /\ DD[k + 1] = y /\ \A i \in 1 .. k : DD[i] = D[i]
      /\ \A i \in 1 .. k : AA[i] = A[i]
  BY AppendProperties
<1>3. \A i \in 0 .. k : Rank(x, DD, i) = Rank(x, D, i)  BY RankAppend
<1>5. Rank(x, DD, k + 1) = Rank(x, D, k)
  <2>1. Rank(x, DD, k + 1) = Rank(x, DD, k)  BY <1>1, <1>2, RankStep
  <2>2. k \in 0 .. k  BY <1>1
  <2> QED  BY <2>1, <2>2, <1>3
<1> HIDE DEF DD, AA
<1>6. Rank(x, DD, Len(DD)) = Len(rsp) + Len(req)  BY <1>2, <1>5 DEF Served
<1>7. \A i \in 1 .. Len(DD) : DD[i] = x => i \in 1 .. k /\ Rank(x, DD, i) = Rank(x, D, i)
  BY <1>1, <1>2, <1>3
<1> QED  BY <1>2, <1>6, <1>7 DEF Served, DD, AA

\* The table answers the question it was asked first, with a value that every
\* question it could be has seen.
LEMMA ServedCheck ==
    ASSUME NEW D \in Seq(Table), NEW A \in Seq(Question), Len(A) = Len(D),
           NEW req \in Seq(Index), NEW rsp \in Seq(BOOLEAN), NEW x \in Table, NEW base,
           Served(x, base, D, A, req, rsp),
           req # <<>>, NEW v \in BOOLEAN,
           \A i \in 1 .. Len(D) : A[i].port = base + Head(req) => v \in A[i].values
    PROVE  Served(x, base, D, A, Tail(req), Append(rsp, v))
<1> DEFINE k == Len(D)
           rr == Tail(req)
           ss == Append(rsp, v)
<1>1. k \in Nat /\ Len(req) \in Nat \ {0} /\ Len(rsp) \in Nat  BY LenProperties, EmptySeq
<1>2. /\ Len(rr) = Len(req) - 1 /\ Head(req) = req[1]
      /\ \A i \in 1 .. Len(rr) : rr[i] = req[i + 1]
  BY HeadTailProperties
<1>3. /\ Len(ss) = Len(rsp) + 1 /\ ss[Len(rsp) + 1] = v
      /\ \A i \in 1 .. Len(rsp) : ss[i] = rsp[i]
  BY AppendProperties
<1>4. ASSUME NEW i \in 1 .. k
      PROVE  Rank(x, D, i) \in Nat /\ Rank(x, D, i) <= Rank(x, D, k)
  <2>1. i \in Nat /\ i \in 0 .. k  BY <1>1
  <2>2. Rank(x, D, i) \in Nat  BY <2>1, RankFinite
  <2>3. Rank(x, D, i) <= Rank(x, D, k)  BY <2>1, <1>1, RankMonotone
  <2> QED  BY <2>2, <2>3
<1>5. \A i \in 1 .. k : D[i] = x => Rank(x, D, i) >= 1  BY <1>1, RankPositive
<1>6. Rank(x, D, k) = Len(rsp) + Len(req)  BY DEF Served
<1> HIDE DEF rr, ss
<1>7. Rank(x, D, k) = Len(ss) + Len(rr)  BY <1>1, <1>2, <1>3, <1>6
<1>8. ASSUME NEW i \in 1 .. k, D[i] = x
      PROVE  /\ Rank(x, D, i) <= Len(ss) => ss[Rank(x, D, i)] \in A[i].values
             /\ Rank(x, D, i) > Len(ss) => A[i].port = base + rr[Rank(x, D, i) - Len(ss)]
  <2> DEFINE q == Rank(x, D, i)
  <2>1. q \in Nat \ {0} /\ q <= Len(rsp) + Len(req)  BY <1>4, <1>5, <1>6, <1>8
  <2>2. /\ q <= Len(rsp) => rsp[q] \in A[i].values
        /\ q > Len(rsp) => A[i].port = base + req[q - Len(rsp)]
    BY <1>8 DEF Served
  <2> HIDE DEF q
  <2>3. CASE q <= Len(rsp)
    <3>1. q <= Len(ss) /\ ~(q > Len(ss)) /\ q \in 1 .. Len(rsp)  BY <2>1, <2>3, <1>1, <1>3
    <3> QED  BY <3>1, <2>2, <2>3, <1>3 DEF q
  <2>4. CASE q = Len(rsp) + 1
    <3>1. q > Len(rsp) /\ ~(q > Len(ss)) /\ q - Len(rsp) = 1  BY <2>1, <2>4, <1>1, <1>3
    <3>2. A[i].port = base + Head(req)  BY <3>1, <2>2, <1>2
    <3>3. ss[q] \in A[i].values  BY <3>2, <2>4, <1>3
    <3> QED  BY <3>1, <3>3 DEF q
  <2>5. CASE q > Len(rsp) + 1
    <3>1. q > Len(rsp) /\ q > Len(ss) /\ ~(q <= Len(ss)) /\ q - Len(ss) \in 1 .. Len(rr)
          /\ q - Len(rsp) = (q - Len(ss)) + 1
      BY <2>1, <2>5, <1>1, <1>2, <1>3
    <3>2. rr[q - Len(ss)] = req[q - Len(rsp)]  BY <3>1, <1>2
    <3> QED  BY <3>1, <3>2, <2>2 DEF q
  <2> QED  BY <2>1, <2>3, <2>4, <2>5, <1>1
<1> QED  BY <1>7, <1>8 DEF Served, rr, ss

\* The first question is answered, and it went to this table ...
LEMMA ServedAnswer ==
    ASSUME NEW D \in Seq(Table), NEW A \in Seq(Question), Len(A) = Len(D),
           NEW req \in Seq(Index), NEW rsp \in Seq(BOOLEAN), NEW x \in Table, NEW base,
           Served(x, base, D, A, req, rsp),
           D # <<>>, D[1] = x, rsp # <<>>
    PROVE  /\ Head(rsp) \in Head(A).values
           /\ Served(x, base, Tail(D), Tail(A), req, Tail(rsp))
<1> DEFINE k == Len(D)
           DD == Tail(D)
           AA == Tail(A)
           ss == Tail(rsp)
<1>1. k \in Nat \ {0} /\ Len(req) \in Nat /\ Len(rsp) \in Nat \ {0} /\ A # <<>>
  BY LenProperties, EmptySeq
<1>2. /\ Len(DD) = k - 1 /\ \A i \in 1 .. k - 1 : DD[i] = D[i + 1] /\ AA[i] = A[i + 1]
      /\ Head(A) = A[1] /\ Head(rsp) = rsp[1]
      /\ Len(ss) = Len(rsp) - 1 /\ \A i \in 1 .. Len(ss) : ss[i] = rsp[i + 1]
  BY <1>1, HeadTailProperties
<1>3. \A i \in 0 .. k - 1 : Rank(x, DD, i) = Rank(x, D, i + 1) - 1  BY RankTail
<1>4. ASSUME NEW i \in 1 .. k PROVE Rank(x, D, i) \in Nat
  <2>1. i \in Nat  BY <1>1
  <2> QED  BY <2>1, RankFinite
<1>5. Rank(x, D, 1) = 1
  <2>1. Rank(x, D, 0 + 1) = Rank(x, D, 0) + 1  BY RankStep
  <2> QED  BY <2>1, RankZero
<1>6. Rank(x, D, k) = Len(rsp) + Len(req)  BY DEF Served
<1>7. Head(rsp) \in Head(A).values
  <2>1. 1 \in 1 .. k /\ Rank(x, D, 1) <= Len(rsp)  BY <1>1, <1>5
  <2> QED  BY <2>1, <1>2, <1>5 DEF Served
<1> HIDE DEF DD, AA, ss
<1>8. Rank(x, DD, Len(DD)) = Len(ss) + Len(req)
  <2>1. k - 1 \in 0 .. k - 1 /\ (k - 1) + 1 = k  BY <1>1
  <2>2. Rank(x, DD, k - 1) = Rank(x, D, k) - 1  BY <2>1, <1>3
  <2> QED  BY <2>2, <1>1, <1>2, <1>6
<1>9. \A i \in 1 .. k - 1 : DD[i] = x => Rank(x, DD, i) >= 1  BY <1>1, RankPositive
<1>10. ASSUME NEW i \in 1 .. k - 1, DD[i] = x
       PROVE  /\ Rank(x, DD, i) <= Len(ss) => ss[Rank(x, DD, i)] \in AA[i].values
              /\ Rank(x, DD, i) > Len(ss) => AA[i].port = base + req[Rank(x, DD, i) - Len(ss)]
  <2> DEFINE q == Rank(x, DD, i)
  <2>1. i + 1 \in 1 .. k /\ D[i + 1] = x /\ AA[i] = A[i + 1] /\ i \in 0 .. k - 1
    BY <1>1, <1>2, <1>10
  <2>2. Rank(x, D, i + 1) \in Nat /\ q = Rank(x, D, i + 1) - 1  BY <2>1, <1>3, <1>4
  <2>3. q \in Nat \ {0} /\ Rank(x, D, i + 1) = q + 1  BY <2>2, <1>9, <1>10
  <2>4. /\ q + 1 <= Len(rsp) => rsp[q + 1] \in AA[i].values
        /\ q + 1 > Len(rsp) => AA[i].port = base + req[(q + 1) - Len(rsp)]
    BY <2>1, <2>3 DEF Served
  <2> HIDE DEF q
  <2>5. CASE q <= Len(ss)
    <3>1. q + 1 <= Len(rsp) /\ ~(q > Len(ss)) /\ q \in 1 .. Len(ss)  BY <2>3, <2>5, <1>1, <1>2
    <3> QED  BY <3>1, <2>4, <1>2 DEF q
  <2>6. CASE q > Len(ss)
    <3>1. q + 1 > Len(rsp) /\ ~(q <= Len(ss)) /\ (q + 1) - Len(rsp) = q - Len(ss)
      BY <2>3, <2>6, <1>1, <1>2
    <3> QED  BY <3>1, <2>4 DEF q
  <2> QED  BY <2>3, <2>5, <2>6, <1>1, <1>2
<1>11. 1 .. Len(DD) = 1 .. k - 1  BY <1>2
<1> QED  BY <1>7, <1>8, <1>10, <1>11 DEF Served, DD, AA, ss

\* ... or to the other one.
LEMMA ServedAnswerOther ==
    ASSUME NEW D \in Seq(Table), NEW A \in Seq(Question), Len(A) = Len(D),
           NEW req \in Seq(Index), NEW rsp \in Seq(BOOLEAN), NEW x \in Table, NEW base,
           Served(x, base, D, A, req, rsp),
           D # <<>>, D[1] # x
    PROVE  Served(x, base, Tail(D), Tail(A), req, rsp)
<1> DEFINE k == Len(D)
           DD == Tail(D)
           AA == Tail(A)
<1>1. k \in Nat \ {0} /\ A # <<>>  BY LenProperties, EmptySeq
<1>2. Len(DD) = k - 1 /\ \A i \in 1 .. k - 1 : DD[i] = D[i + 1] /\ AA[i] = A[i + 1]
  BY <1>1, HeadTailProperties
<1>3. \A i \in 0 .. k - 1 : Rank(x, DD, i) = Rank(x, D, i + 1)  BY RankTail
<1> HIDE DEF DD, AA
<1>4. Rank(x, DD, Len(DD)) = Len(rsp) + Len(req)
  <2>1. k - 1 \in 0 .. k - 1 /\ (k - 1) + 1 = k  BY <1>1
  <2>2. Rank(x, DD, k - 1) = Rank(x, D, k)  BY <2>1, <1>3
  <2> QED  BY <2>2, <1>2 DEF Served
<1>5. \A i \in 1 .. Len(DD) : /\ i + 1 \in 1 .. k /\ DD[i] = D[i + 1] /\ AA[i] = A[i + 1]
                              /\ Rank(x, DD, i) = Rank(x, D, i + 1)
  BY <1>1, <1>2, <1>3
<1> QED  BY <1>4, <1>5 DEF Served, DD, AA

\* The questions that wait see more values.
LEMMA ServedGrow ==
    ASSUME NEW D, NEW A, NEW B, NEW req, NEW rsp, NEW x, NEW base,
           Served(x, base, D, A, req, rsp),
           \A i \in 1 .. Len(D) : B[i].port = A[i].port /\ A[i].values \subseteq B[i].values
    PROVE  Served(x, base, D, B, req, rsp)
BY DEF Served

-----------------------------------------------------------------------------
(***************************************************************************)
(* Types                                                                   *)
(***************************************************************************)
Queue(q, S, depth) == q \in Seq(S) /\ Len(q) <= depth

Typed ==
    /\ listeningPortTable \in [Index -> BOOLEAN] /\ freePortTable \in [Index -> BOOLEAN]
    /\ pt_cursor \in Index
    /\ Queue(listenReq, Index, CheckDepth) /\ Queue(usedReq, Index, CheckDepth)
    /\ Queue(listenRsp, BOOLEAN, CheckDepth) /\ Queue(usedRsp, BOOLEAN, CheckDepth)
    /\ Queue(dstFifo, Table, DstDepth)
    /\ cm_fsmState \in {"READ_DST", "READ_LISTENING", "READ_USED"}
    /\ Queue(portRsp, HALF .. BYTE * BYTE - 1, PortDepth)
    /\ releasePort \in Seq(Port) /\ conns \subseteq Port
    /\ asked \in Seq(Question)

LEMMA Types == TypeOK <=> Typed
BY DEF TypeOK, Typed, Queue, Table, Question

LEMMA QueueAppend ==
    ASSUME NEW S, NEW depth \in Nat, NEW q, Queue(q, S, depth), Len(q) < depth, NEW e \in S
    PROVE  Queue(Append(q, e), S, depth)
BY AppendProperties, LenProperties DEF Queue

LEMMA QueueTail ==
    ASSUME NEW S, NEW depth \in Nat, NEW q, Queue(q, S, depth), q # <<>>
    PROVE  Queue(Tail(q), S, depth) /\ Head(q) \in S
BY HeadTailProperties, LenProperties DEF Queue

LEMMA Depths ==
    /\ CheckDepth \in Nat /\ DstDepth \in Nat /\ PortDepth \in Nat
    /\ CheckPort \subseteq Port /\ ListenPort \subseteq Port
BY PortTableAssumption DEF Port

\* What is put into a table or handed out is in range.
LEMMA Ranges ==
    /\ 0 \in Index
    /\ \A p \in Port : p % HALF \in Index
    /\ \A p \in Port : p < HALF => p \in Index
    /\ \A i \in Index : (i + 1) % HALF \in Index
    /\ \A i \in Index : HALF + i \in HALF .. BYTE * BYTE - 1
    /\ HALF .. BYTE * BYTE - 1 \subseteq Port
<1>1. HALF \in Nat \ {0} /\ BYTE * BYTE = 2 * HALF  BY Halves
<1> DEFINE top == BYTE * BYTE
<1>2. top = 2 * HALF  BY <1>1
<1> HIDE DEF HALF, top
<1>3. \A n \in Nat : n % HALF \in 0 .. HALF - 1  BY <1>1
<1>4. \A i \in 0 .. HALF - 1 : HALF + i \in HALF .. top - 1  BY <1>1, <1>2
<1>5. HALF .. top - 1 \subseteq 0 .. top - 1  BY <1>1, <1>2
<1>6. \A p \in 0 .. top - 1 : p \in Nat /\ (p < HALF => p \in 0 .. HALF - 1)  BY <1>1, <1>2
<1>7. \A i \in 0 .. HALF - 1 : i + 1 \in Nat  BY <1>1
<1>8. 0 \in 0 .. HALF - 1  BY <1>1
<1> QED  BY <1>3, <1>4, <1>5, <1>6, <1>7, <1>8 DEF Index, Port, top

LEMMA OpenType ==
    ASSUME NEW L \in [Index -> BOOLEAN], NEW F \in [Index -> BOOLEAN], NEW p \in Port
    PROVE  Open(L, F, p) \in BOOLEAN
<1>1. p \in Nat /\ HALF \in Nat  BY Halves DEF Port
<1>2. CASE p < HALF  BY <1>2, Ranges DEF Open
<1>3. CASE ~(p < HALF)  BY <1>1, <1>3, UpperHalf DEF Open
<1> QED  BY <1>2, <1>3

\* What Observe does to the questions that wait.
LEMMA ObserveFacts ==
    ASSUME asked \in Seq(Question), Observe,
           listeningPortTable' \in [Index -> BOOLEAN], freePortTable' \in [Index -> BOOLEAN]
    PROVE  /\ asked' \in Seq(Question) /\ Len(asked') = Len(asked)
           /\ \A i \in 1 .. Len(asked) :
                 /\ asked'[i].port = asked[i].port
                 /\ asked[i].values \subseteq asked'[i].values
                 /\ Open(listeningPortTable', freePortTable', asked[i].port) \in asked'[i].values
<1> DEFINE seen(i) == Open(listeningPortTable', freePortTable', asked[i].port)
<1>1. Len(asked) \in Nat /\ DOMAIN asked = 1 .. Len(asked)
      /\ \A i \in 1 .. Len(asked) : asked[i] \in Question
  BY LenProperties, ElementOfSeq
<1>2. \A i \in 1 .. Len(asked) : seen(i) \in BOOLEAN  BY <1>1, OpenType DEF Question
<1>3. asked' = [i \in 1 .. Len(asked) |-> [asked[i] EXCEPT !.values = @ \union {seen(i)}]]
  BY <1>1 DEF Observe
<1> HIDE DEF seen
<1>4. \A i \in 1 .. Len(asked) :
          /\ asked'[i] = [asked[i] EXCEPT !.values = asked[i].values \union {seen(i)}]
          /\ asked'[i] \in Question
          /\ asked'[i].port = asked[i].port
          /\ asked'[i].values = asked[i].values \union {seen(i)}
  BY <1>1, <1>2, <1>3 DEF Question
<1>5. asked' \in [1 .. Len(asked) -> Question]  BY <1>3, <1>4
<1>6. asked' \in Seq(Question)  BY <1>1, <1>5, SeqDef
<1>7. Len(asked') = Len(asked)  BY <1>1, <1>5, <1>6, LenProperties
<1> QED  BY <1>4, <1>6, <1>7 DEF seen

LEMMA InitType == ASSUME Init PROVE Typed
<1>1. <<>> \in Seq(Index) /\ <<>> \in Seq(BOOLEAN) /\ <<>> \in Seq(Table) /\ <<>> \in Seq(Port)
      /\ <<>> \in Seq(HALF .. BYTE * BYTE - 1) /\ <<>> \in Seq(Question) /\ Len(<<>>) = 0
  BY EmptySeq
<1> QED  BY <1>1, Depths, Ranges DEF Init, Typed, Queue

LEMMA AskType == ASSUME Typed, NEW p \in CheckPort, AskCheck(p) PROVE Typed'
<1> DEFINE port == Swap(p)
           e == [port |-> port, values |-> {Open(listeningPortTable, freePortTable, port)}]
<1>1. port \in Port  BY Swapped, Depths
<1>2. Open(listeningPortTable, freePortTable, port) \in BOOLEAN  BY <1>1, OpenType DEF Typed
<1> HIDE DEF port
<1>3. e \in Question  BY <1>1, <1>2 DEF Question
<1>4. asked' \in Seq(Question)  BY <1>3, AppendProperties DEF AskCheck, Typed, port
<1>5. Queue(listenReq, Index, CheckDepth)' /\ Queue(usedReq, Index, CheckDepth)'
  <2>1. CASE port < HALF
    <3>1. listenReq' = Append(listenReq, port) /\ usedReq' = usedReq /\ Len(listenReq) < CheckDepth
      BY <2>1 DEF AskCheck, port
    <3>2. Queue(listenReq, Index, CheckDepth) /\ Queue(usedReq, Index, CheckDepth)  BY DEF Typed
    <3>3. port \in Index /\ CheckDepth \in Nat  BY <2>1, <1>1, Ranges, Depths
    <3>4. Queue(Append(listenReq, port), Index, CheckDepth)  BY <3>1, <3>2, <3>3, QueueAppend
    <3> QED  BY <3>1, <3>2, <3>4
  <2>2. CASE ~(port < HALF)
    <3>1. /\ usedReq' = Append(usedReq, port % HALF) /\ listenReq' = listenReq
          /\ Len(usedReq) < CheckDepth
      BY <2>2 DEF AskCheck, port
    <3>2. Queue(listenReq, Index, CheckDepth) /\ Queue(usedReq, Index, CheckDepth)  BY DEF Typed
    <3>3. port % HALF \in Index /\ CheckDepth \in Nat  BY <1>1, Ranges, Depths
    <3>4. Queue(Append(usedReq, port % HALF), Index, CheckDepth)  BY <3>1, <3>2, <3>3, QueueAppend
    <3> QED  BY <3>1, <3>2, <3>4
  <2> QED  BY <2>1, <2>2
<1>6. Queue(dstFifo, Table, DstDepth)'  BY Depths, QueueAppend DEF AskCheck, Typed, Table
<1> QED  BY <1>4, <1>5, <1>6 DEF AskCheck, Typed

LEMMA CheckOutType ==
    ASSUME Typed, CheckOut, AnswerListening \/ AnswerUsed => asked # <<>>
    PROVE  Typed'
<1>1. CASE ReadDst
  <2>1. Queue(dstFifo, Table, DstDepth)'  BY <1>1, Depths, QueueTail DEF ReadDst, Typed
  <2> QED  BY <2>1, <1>1 DEF ReadDst, Typed
<1>2. CASE AnswerListening \/ AnswerUsed
  <2>1. asked' \in Seq(Question)
    BY <1>2, HeadTailProperties DEF AnswerListening, AnswerUsed, Typed
  <2>2. Queue(listenRsp, BOOLEAN, CheckDepth)' /\ Queue(usedRsp, BOOLEAN, CheckDepth)'
    BY <1>2, Depths, QueueTail DEF AnswerListening, AnswerUsed, Typed
  <2> QED  BY <2>1, <2>2, <1>2 DEF AnswerListening, AnswerUsed, Typed
<1> QED  BY <1>1, <1>2 DEF CheckOut

LEMMA ListeningType ==
    ASSUME Typed, CheckListening \/ \E p \in ListenPort : Listen(p)
    PROVE  Typed'
<1>1. CASE CheckListening
  <2>1. Queue(listenReq, Index, CheckDepth)' /\ Head(listenReq) \in Index
    BY <1>1, Depths, QueueTail DEF CheckListening, Typed
  <2>2. listeningPortTable[Head(listenReq)] \in BOOLEAN  BY <2>1 DEF Typed
  <2>3. Queue(listenRsp, BOOLEAN, CheckDepth)'
    BY <1>1, <2>2, Depths, QueueAppend DEF CheckListening, Typed
  <2> QED  BY <2>1, <2>3, <1>1 DEF CheckListening, Typed
<1>2. ASSUME NEW p \in ListenPort, Listen(p) PROVE Typed'
  <2>1. listeningPortTable' \in [Index -> BOOLEAN]  BY <1>2 DEF Listen, Typed
  <2>2. freePortTable' \in [Index -> BOOLEAN] /\ Observe  BY <1>2 DEF Listen, Typed
  <2>3. asked' \in Seq(Question)  BY <2>1, <2>2, ObserveFacts DEF Typed
  <2> QED  BY <2>1, <2>3, <1>2 DEF Listen, Typed, checkVars
<1> QED  BY <1>1, <1>2

LEMMA FreePortType == ASSUME Typed, FreePortTable PROVE Typed'
<1>1. pt_cursor' \in Index
  BY Ranges DEF FreePortTable, ReleasePort, CheckUsed, Idle, MoveCursor, Typed
<1>2. CASE ReleasePort
  <2>1. Head(releasePort) \in Port /\ releasePort' \in Seq(Port)
    BY <1>2, HeadTailProperties DEF ReleasePort, Typed
  <2>2. freePortTable' \in [Index -> BOOLEAN]  BY <1>2 DEF ReleasePort, Typed
  <2>3. listeningPortTable' \in [Index -> BOOLEAN] /\ Observe  BY <1>2 DEF ReleasePort, Typed
  <2>4. asked' \in Seq(Question)  BY <2>2, <2>3, ObserveFacts DEF Typed
  <2> QED  BY <2>1, <2>2, <2>4, <1>1, <1>2 DEF ReleasePort, Typed, checkVars
<1>3. CASE CheckUsed
  <2>1. Queue(usedReq, Index, CheckDepth)' /\ Head(usedReq) \in Index
    BY <1>3, Depths, QueueTail DEF CheckUsed, Typed
  <2>2. freePortTable[Head(usedReq)] \in BOOLEAN  BY <2>1 DEF Typed
  <2>3. Queue(usedRsp, BOOLEAN, CheckDepth)'
    BY <1>3, <2>2, Depths, QueueAppend DEF CheckUsed, Typed
  <2> QED  BY <2>1, <2>3, <1>1, <1>3 DEF CheckUsed, Typed
<1>4. CASE Idle
  <2>1. freePortTable' \in [Index -> BOOLEAN]  BY <1>4 DEF Idle, Typed
  <2>2. listeningPortTable' \in [Index -> BOOLEAN] /\ Observe  BY <1>4 DEF Idle, Typed
  <2>3. asked' \in Seq(Question)  BY <2>1, <2>2, ObserveFacts DEF Typed
  <2>4. HALF + pt_cursor \in HALF .. BYTE * BYTE - 1  BY Ranges DEF Typed
  <2>5. Queue(portRsp, HALF .. BYTE * BYTE - 1, PortDepth)'
    <3>1. \/ portRsp' = portRsp
          \/ Len(portRsp) < PortDepth /\ portRsp' = Append(portRsp, HALF + pt_cursor)
      BY <1>4 DEF Idle
    <3>2. Queue(portRsp, HALF .. BYTE * BYTE - 1, PortDepth)  BY DEF Typed
    <3>3. Len(portRsp) < PortDepth =>
              Queue(Append(portRsp, HALF + pt_cursor), HALF .. BYTE * BYTE - 1, PortDepth)
      BY <2>4, <3>2, Depths, QueueAppend
    <3> QED  BY <3>1, <3>2, <3>3
  <2> QED  BY <2>1, <2>3, <2>5, <1>1, <1>4 DEF Idle, Typed, checkVars
<1> QED  BY <1>2, <1>3, <1>4 DEF FreePortTable

LEMMA UserType == ASSUME Typed, OpenConnection \/ OpenFails \/ CloseConnection PROVE Typed'
<1>1. CASE OpenConnection \/ OpenFails
  <2>1. /\ Queue(portRsp, HALF .. BYTE * BYTE - 1, PortDepth)'
        /\ Head(portRsp) \in HALF .. BYTE * BYTE - 1
    BY <1>1, Depths, QueueTail DEF OpenConnection, OpenFails, Typed
  <2>2. Swap(Head(portRsp)) \in Port  BY <2>1, Ranges, Swapped
  <2> QED  BY <2>1, <2>2, <1>1 DEF OpenConnection, OpenFails, Typed, checkVars
<1>2. CASE CloseConnection
  <2>1. releasePort' \in Seq(Port) /\ conns' \subseteq Port
    BY <1>2, AppendProperties DEF CloseConnection, Typed
  <2> QED  BY <2>1, <1>2 DEF CloseConnection, Typed, checkVars
<1> QED  BY <1>1, <1>2

-----------------------------------------------------------------------------
(***************************************************************************)
(* Order of the answers.  Dests are the tables of the questions that are   *)
(* not answered: the one check_out_multiplexer waits for comes first.      *)
(***************************************************************************)
Awaited == IF cm_fsmState = "READ_LISTENING" THEN "LT" ELSE "FT"
Dests   == IF cm_fsmState = "READ_DST" THEN dstFifo ELSE <<Awaited>> \o dstFifo

Ordered ==
    /\ Served("LT", 0, Dests, asked, listenReq, listenRsp)
    /\ Served("FT", HALF, Dests, asked, usedReq, usedRsp)

\* A question has seen the present value of its entry.
Fresh ==
    \A i \in 1 .. Len(asked) :
        Open(listeningPortTable, freePortTable, asked[i].port) \in asked[i].values

Paired == Dests \in Seq(Table) /\ Len(asked) = Len(Dests)
IInv   == Typed /\ Paired /\ Ordered /\ Fresh

LEMMA Cons ==
    ASSUME NEW t \in Table, NEW q \in Seq(Table)
    PROVE  /\ <<t>> \o q \in Seq(Table) /\ <<t>> \o q # <<>> /\ (<<t>> \o q)[1] = t
           /\ Tail(<<t>> \o q) = q
           /\ \A e \in Table : Append(<<t>> \o q, e) = <<t>> \o Append(q, e)
<1> DEFINE c == <<t>> \o q
<1>1. <<t>> \in Seq(Table) /\ Len(<<t>>) = 1 /\ <<t>>[1] = t  OBVIOUS
<1>2. /\ c \in Seq(Table) /\ Len(c) = 1 + Len(q) /\ Len(q) \in Nat
      /\ \A i \in 1 .. 1 + Len(q) : c[i] = IF i <= 1 THEN t ELSE q[i - 1]
  BY <1>1, ConcatProperties, LenProperties
<1> HIDE DEF c
<1>3. c # <<>> /\ c[1] = t  BY <1>2, EmptySeq
<1>4. Tail(c) = q
  <2>1. Tail(c) \in Seq(Table) /\ Len(Tail(c)) = Len(q)
        /\ \A i \in 1 .. Len(q) : Tail(c)[i] = c[i + 1]
    BY <1>2, <1>3, HeadTailProperties
  <2>2. \A i \in 1 .. Len(q) : c[i + 1] = q[i]  BY <1>2
  <2> QED  BY <2>1, <2>2, SeqEqual
<1>5. ASSUME NEW e \in Table PROVE Append(c, e) = <<t>> \o Append(q, e)
  <2>1. Append(c, e) = c \o <<e>> /\ Append(q, e) = q \o <<e>>  BY <1>2, AppendIsConcat
  <2>2. <<e>> \in Seq(Table)  OBVIOUS
  <2> QED  BY <2>1, <2>2, <1>1, ConcatAssociative DEF c
<1> QED  BY <1>2, <1>3, <1>4, <1>5 DEF c

LEMMA ConsHead ==
    ASSUME NEW q \in Seq(Table), q # <<>>
    PROVE  <<Head(q)>> \o Tail(q) = q /\ Head(q) \in Table
<1>1. Len(q) \in Nat \ {0} /\ 1 \in 1 .. Len(q) /\ Len(q) \in 1 .. Len(q)  BY EmptySeq
<1>2. SubSeq(q, 1, Len(q)) = <<q[1]>> \o SubSeq(q, 1 + 1, Len(q))  BY <1>1, SubSeqRecursiveFirst
<1>3. SubSeq(q, 1, Len(q)) = q  BY SubSeqFull
<1>4. Tail(q) = SubSeq(q, 2, Len(q)) /\ Head(q) = q[1]  BY TailIsSubSeq
<1> QED  BY <1>2, <1>3, <1>4, HeadTailProperties

LEMMA InitIInv == ASSUME Init PROVE IInv
<1>1. Len(<<>>) = 0 /\ <<>> \in Seq(Table)  BY EmptySeq
<1>2. Rank("LT", <<>>, 0) = 0 /\ Rank("FT", <<>>, 0) = 0  BY RankZero
<1>3. Dests = <<>> /\ asked = <<>>  BY DEF Init, Dests
<1>4. Paired  BY <1>1, <1>3 DEF Paired
<1>5. Ordered  BY <1>1, <1>2, <1>3 DEF Init, Ordered, Served
<1>6. Fresh  BY <1>1, <1>3 DEF Fresh
<1> QED  BY <1>4, <1>5, <1>6, InitType DEF IInv

LEMMA AskInv == ASSUME IInv, NEW p \in CheckPort, AskCheck(p) PROVE IInv'
<1> DEFINE port == Swap(p)
           e == [port |-> port, values |-> {Open(listeningPortTable, freePortTable, port)}]
           y == IF port < HALF THEN "LT" ELSE "FT"
<1>0. Typed' /\ Typed  BY AskType DEF IInv
<1>1. port \in Port /\ HALF \in Nat /\ port \in Nat  BY Swapped, Depths, Halves DEF Port
<1>2. Open(listeningPortTable, freePortTable, port) \in BOOLEAN
  BY <1>0, <1>1, OpenType DEF Typed
<1>3. asked' = Append(asked, e) /\ dstFifo' = Append(dstFifo, y) /\ cm_fsmState' = cm_fsmState
      /\ listenRsp' = listenRsp /\ usedRsp' = usedRsp
      /\ listeningPortTable' = listeningPortTable /\ freePortTable' = freePortTable
      /\ IF port < HALF THEN listenReq' = Append(listenReq, port) /\ usedReq' = usedReq
                        ELSE usedReq' = Append(usedReq, port % HALF) /\ listenReq' = listenReq
  BY DEF AskCheck
<1> HIDE DEF port
<1>4. e \in Question  BY <1>1, <1>2 DEF Question
<1>5. y \in Table  BY DEF Table
<1> HIDE DEF e
<1>6. Dests' = Append(Dests, y)
  <2>1. Awaited' = Awaited  BY <1>3 DEF Awaited
  <2>2. Awaited \in Table /\ dstFifo \in Seq(Table)  BY <1>0 DEF Awaited, Typed, Queue, Table
  <2>3. Append(<<Awaited>> \o dstFifo, y) = <<Awaited>> \o Append(dstFifo, y)
    BY <2>2, <1>5, Cons
  <2> QED  BY <2>1, <2>3, <1>3 DEF Dests
<1>7. /\ Dests \in Seq(Table) /\ asked \in Seq(Question) /\ Len(asked) = Len(Dests)
      /\ listenReq \in Seq(Index) /\ usedReq \in Seq(Index)
      /\ listenRsp \in Seq(BOOLEAN) /\ usedRsp \in Seq(BOOLEAN)
  BY <1>0 DEF IInv, Paired, Typed, Queue
<1>8. Paired'
  <2>1. Append(Dests, y) \in Seq(Table) /\ Len(Append(Dests, y)) = Len(Dests) + 1
        /\ Len(Append(asked, e)) = Len(asked) + 1
    BY <1>4, <1>5, <1>7, AppendProperties
  <2> QED  BY <2>1, <1>3, <1>6, <1>7 DEF Paired
<1>9. Fresh'
  <2>1. /\ Len(asked) \in Nat /\ Len(Append(asked, e)) = Len(asked) + 1
        /\ Append(asked, e)[Len(asked) + 1] = e
        /\ \A i \in 1 .. Len(asked) : Append(asked, e)[i] = asked[i]
    BY <1>4, <1>7, AppendProperties, LenProperties
  <2>2. Open(listeningPortTable, freePortTable, e.port) \in e.values  BY DEF e
  <2>3. \A i \in 1 .. Len(asked) + 1 : i \in 1 .. Len(asked) \/ i = Len(asked) + 1  BY <2>1
  <2> QED  BY <2>1, <2>2, <2>3, <1>3 DEF IInv, Fresh
<1>10. Ordered'
  <2>1. Served("LT", 0, Dests, asked, listenReq, listenRsp)
        /\ Served("FT", HALF, Dests, asked, usedReq, usedRsp)
    BY DEF IInv, Ordered
  <2>2. "LT" \in Table /\ "FT" \in Table  BY DEF Table
  <2>3. CASE port < HALF
    <3>1. y = "LT" /\ port \in Index /\ e.port = 0 + port  BY <2>3, <1>1, Ranges DEF e
    <3> HIDE DEF y
    <3>2. Served("LT", 0, Append(Dests, "LT"), Append(asked, e), Append(listenReq, port), listenRsp)
      BY <2>1, <2>2, <3>1, <1>4, <1>7, ServedAsk
    <3>3. Served("FT", HALF, Append(Dests, "LT"), Append(asked, e), usedReq, usedRsp)
      BY <2>1, <2>2, <1>4, <1>7, ServedOther
    <3> QED  BY <2>3, <3>1, <3>2, <3>3, <1>3, <1>6 DEF Ordered
  <2>4. CASE ~(port < HALF)
    <3>1. y = "FT" /\ port % HALF \in Index  BY <2>4, <1>1, Ranges
    <3>2. e.port = HALF + (port % HALF)
      <4>1. port % HALF = port - HALF  BY <2>4, <1>1, UpperHalf
      <4> QED  BY <4>1, <1>1 DEF e
    <3> HIDE DEF y
    <3>3. Served("FT", HALF, Append(Dests, "FT"), Append(asked, e), Append(usedReq, port % HALF), usedRsp)
      BY <2>1, <2>2, <3>1, <3>2, <1>4, <1>7, ServedAsk
    <3>4. Served("LT", 0, Append(Dests, "FT"), Append(asked, e), listenReq, listenRsp)
      BY <2>1, <2>2, <1>4, <1>7, ServedOther
    <3> QED  BY <2>4, <3>1, <3>3, <3>4, <1>3, <1>6 DEF Ordered
  <2> QED  BY <2>3, <2>4
<1> QED  BY <1>0, <1>8, <1>9, <1>10 DEF IInv

\* What an action leaves alone that the other parts are about.
LEMMA Unmoved ==
    ASSUME IInv, UNCHANGED <<listeningPortTable, freePortTable, checkVars, asked>>
    PROVE  Paired' /\ Ordered' /\ Fresh'
<1>1. Dests' = Dests  BY DEF Dests, Awaited, checkVars
<1>2. Paired'  BY <1>1 DEF IInv, Paired
<1>3. Ordered'  BY <1>1 DEF IInv, Ordered, checkVars
<1>4. Fresh'  BY DEF IInv, Fresh
<1> QED  BY <1>2, <1>3, <1>4

\* The tables change, and the questions that wait see it.
LEMMA Observed ==
    ASSUME IInv, Typed', UNCHANGED checkVars, Observe
    PROVE  IInv'
<1>0. asked \in Seq(Question) /\ listeningPortTable' \in [Index -> BOOLEAN]
      /\ freePortTable' \in [Index -> BOOLEAN]
  BY DEF IInv, Typed
<1>1. /\ Len(asked') = Len(asked)
      /\ \A i \in 1 .. Len(asked) :
            /\ asked'[i].port = asked[i].port
            /\ asked[i].values \subseteq asked'[i].values
            /\ Open(listeningPortTable', freePortTable', asked[i].port) \in asked'[i].values
  BY <1>0, ObserveFacts
<1>2. Dests' = Dests  BY DEF Dests, Awaited, checkVars
<1>3. Paired'  BY <1>1, <1>2 DEF IInv, Paired
<1>4. \A i \in 1 .. Len(Dests) :
          asked'[i].port = asked[i].port /\ asked[i].values \subseteq asked'[i].values
  BY <1>1 DEF IInv, Paired
<1>5. Ordered'
  <2>1. Served("LT", 0, Dests, asked', listenReq, listenRsp)
    BY <1>4, ServedGrow DEF IInv, Ordered
  <2>2. Served("FT", HALF, Dests, asked', usedReq, usedRsp)
    BY <1>4, ServedGrow DEF IInv, Ordered
  <2> QED  BY <2>1, <2>2, <1>2 DEF Ordered, checkVars
<1>6. Fresh'  BY <1>1 DEF Fresh
<1> QED  BY <1>3, <1>5, <1>6 DEF IInv

LEMMA ReadDstInv == ASSUME IInv, ReadDst PROVE IInv'
<1>1. Typed'  BY CheckOutType DEF IInv, CheckOut, ReadDst, AnswerListening, AnswerUsed
<1>2. dstFifo \in Seq(Table) /\ dstFifo # <<>>  BY DEF IInv, Typed, Queue, ReadDst
<1>3. <<Head(dstFifo)>> \o Tail(dstFifo) = dstFifo /\ Head(dstFifo) \in Table  BY <1>2, ConsHead
<1>4. Awaited' = Head(dstFifo) /\ cm_fsmState' # "READ_DST"
  BY <1>3 DEF ReadDst, Awaited, Table
<1>5. Dests = dstFifo /\ Dests' = <<Head(dstFifo)>> \o Tail(dstFifo)
  BY <1>4 DEF ReadDst, Dests
<1>6. Dests' = Dests  BY <1>3, <1>5
<1>7. Paired'  BY <1>6 DEF IInv, Paired, ReadDst
<1>8. Ordered'  BY <1>6 DEF IInv, Ordered, ReadDst
<1>9. Fresh'  BY DEF IInv, Fresh, ReadDst
<1> QED  BY <1>1, <1>7, <1>8, <1>9 DEF IInv

\* The first question, when it is answered.
LEMMA First ==
    ASSUME IInv, cm_fsmState # "READ_DST"
    PROVE  /\ Dests # <<>> /\ Dests[1] = Awaited /\ Tail(Dests) = dstFifo
           /\ asked # <<>>
<1>1. Awaited \in Table /\ dstFifo \in Seq(Table)
  BY DEF IInv, Typed, Queue, Awaited, Table
<1>2. Dests # <<>> /\ Dests[1] = Awaited /\ Tail(Dests) = dstFifo  BY <1>1, Cons DEF Dests
<1>3. Len(Dests) # 0  BY <1>2, EmptySeq DEF IInv, Paired
<1>4. Len(<<>>) = 0  BY EmptySeq
<1> QED  BY <1>2, <1>3, <1>4 DEF IInv, Paired

LEMMA AnswerInv ==
    ASSUME IInv, AnswerListening \/ AnswerUsed
    PROVE  /\ IInv'
           /\ AnswerListening => Head(listenRsp) \in Head(asked).values
           /\ AnswerUsed      => Head(usedRsp) \in Head(asked).values
<1>1. cm_fsmState # "READ_DST" /\ cm_fsmState' = "READ_DST"  BY DEF AnswerListening, AnswerUsed
<1>2. Dests # <<>> /\ Dests[1] = Awaited /\ Tail(Dests) = dstFifo /\ asked # <<>>
  BY <1>1, First
<1>3. Typed'  BY <1>2, CheckOutType DEF IInv, CheckOut
<1>4. Dests' = Tail(Dests) /\ asked' = Tail(asked)
  BY <1>1, <1>2 DEF Dests, AnswerListening, AnswerUsed
<1>5. /\ Dests \in Seq(Table) /\ asked \in Seq(Question) /\ Len(asked) = Len(Dests)
      /\ listenReq \in Seq(Index) /\ usedReq \in Seq(Index)
      /\ listenRsp \in Seq(BOOLEAN) /\ usedRsp \in Seq(BOOLEAN)
  BY DEF IInv, Paired, Typed, Queue
<1>6. Paired'
  BY <1>2, <1>4, <1>5, HeadTailProperties DEF Paired
<1>7. Fresh'
  <2>1. Len(Tail(asked)) = Len(asked) - 1 /\ Len(asked) \in Nat
        /\ \A i \in 1 .. Len(Tail(asked)) : Tail(asked)[i] = asked[i + 1]
    BY <1>2, <1>5, HeadTailProperties, LenProperties
  <2>2. \A i \in 1 .. Len(Tail(asked)) : i + 1 \in 1 .. Len(asked)  BY <2>1
  <2>3. listeningPortTable' = listeningPortTable /\ freePortTable' = freePortTable
    BY DEF AnswerListening, AnswerUsed
  <2> QED  BY <2>1, <2>2, <2>3, <1>4 DEF IInv, Fresh
<1>8. /\ Served("LT", 0, Dests, asked, listenReq, listenRsp)
      /\ Served("FT", HALF, Dests, asked, usedReq, usedRsp)
      /\ "LT" \in Table /\ "FT" \in Table
  BY DEF IInv, Ordered, Table
<1>9. CASE AnswerListening
  <2>1. Awaited = "LT" /\ listenRsp # <<>> /\ ~AnswerUsed
    BY <1>9 DEF AnswerListening, AnswerUsed, Awaited
  <2>2. /\ Head(listenRsp) \in Head(asked).values
        /\ Served("LT", 0, Tail(Dests), Tail(asked), listenReq, Tail(listenRsp))
    BY <2>1, <1>2, <1>5, <1>8, ServedAnswer
  <2>3. Served("FT", HALF, Tail(Dests), Tail(asked), usedReq, usedRsp)
    BY <2>1, <1>2, <1>5, <1>8, ServedAnswerOther
  <2>4. Ordered'  BY <2>2, <2>3, <1>4, <1>9 DEF Ordered, AnswerListening
  <2> QED  BY <2>1, <2>2, <2>4, <1>3, <1>6, <1>7 DEF IInv
<1>10. CASE AnswerUsed
  <2>1. Awaited = "FT" /\ usedRsp # <<>> /\ ~AnswerListening
    BY <1>10 DEF AnswerListening, AnswerUsed, Awaited
  <2>2. /\ Head(usedRsp) \in Head(asked).values
        /\ Served("FT", HALF, Tail(Dests), Tail(asked), usedReq, Tail(usedRsp))
    BY <2>1, <1>2, <1>5, <1>8, ServedAnswer
  <2>3. Served("LT", 0, Tail(Dests), Tail(asked), listenReq, listenRsp)
    BY <2>1, <1>2, <1>5, <1>8, ServedAnswerOther
  <2>4. Ordered'  BY <2>2, <2>3, <1>4, <1>10 DEF Ordered, AnswerUsed
  <2> QED  BY <2>1, <2>2, <2>4, <1>3, <1>6, <1>7 DEF IInv
<1> QED  BY <1>9, <1>10

\* A table answers: the questions with that port have seen its entry.
LEMMA CheckListeningInv == ASSUME IInv, CheckListening PROVE IInv'
<1>1. Typed' /\ Typed  BY ListeningType DEF IInv
<1>2. UNCHANGED <<listeningPortTable, freePortTable, dstFifo, cm_fsmState, usedReq, usedRsp, asked>>
      /\ listenReq # <<>>
  BY DEF CheckListening
<1>3. Dests' = Dests  BY <1>2 DEF Dests, Awaited
<1>4. Paired' /\ Fresh'  BY <1>2, <1>3 DEF IInv, Paired, Fresh
<1> DEFINE n == Head(listenReq)
           v == listeningPortTable[n]
<1>5. /\ Dests \in Seq(Table) /\ asked \in Seq(Question) /\ Len(asked) = Len(Dests)
      /\ listenReq \in Seq(Index) /\ listenRsp \in Seq(BOOLEAN) /\ "LT" \in Table
      /\ n \in Index /\ v \in BOOLEAN
  BY <1>1, <1>2, HeadTailProperties DEF IInv, Paired, Typed, Queue, Table
<1>6. ASSUME NEW i \in 1 .. Len(Dests), asked[i].port = 0 + n PROVE v \in asked[i].values
  <2>1. HALF \in Nat /\ n \in 0 .. HALF - 1  BY <1>5, Halves DEF Index
  <2>2. n < HALF /\ asked[i].port = n  BY <2>1, <1>6
  <2>3. Open(listeningPortTable, freePortTable, asked[i].port) = v  BY <2>2 DEF Open
  <2> QED  BY <2>3, <1>5 DEF IInv, Fresh
<1>7. listenReq' = Tail(listenReq) /\ listenRsp' = Append(listenRsp, v)  BY DEF CheckListening
<1> HIDE DEF v
<1>8. Served("LT", 0, Dests, asked, Tail(listenReq), Append(listenRsp, v))
  BY <1>2, <1>5, <1>6, ServedCheck DEF IInv, Ordered
<1>9. Ordered'  BY <1>2, <1>3, <1>7, <1>8 DEF IInv, Ordered
<1> QED  BY <1>1, <1>4, <1>9 DEF IInv

LEMMA CheckUsedInv == ASSUME IInv, CheckUsed PROVE IInv'
<1>1. Typed' /\ Typed  BY FreePortType DEF IInv, FreePortTable
<1>2. UNCHANGED <<listeningPortTable, freePortTable, dstFifo, cm_fsmState, listenReq, listenRsp, asked>>
      /\ usedReq # <<>>
  BY DEF CheckUsed
<1>3. Dests' = Dests  BY <1>2 DEF Dests, Awaited
<1>4. Paired' /\ Fresh'  BY <1>2, <1>3 DEF IInv, Paired, Fresh
<1> DEFINE n == Head(usedReq)
           v == freePortTable[n]
<1>5. /\ Dests \in Seq(Table) /\ asked \in Seq(Question) /\ Len(asked) = Len(Dests)
      /\ usedReq \in Seq(Index) /\ usedRsp \in Seq(BOOLEAN) /\ "FT" \in Table
      /\ n \in Index /\ v \in BOOLEAN
  BY <1>1, <1>2, HeadTailProperties DEF IInv, Paired, Typed, Queue, Table
<1>6. ASSUME NEW i \in 1 .. Len(Dests), asked[i].port = HALF + n PROVE v \in asked[i].values
  <2>1. HALF \in Nat /\ n \in 0 .. HALF - 1  BY <1>5, Halves DEF Index
  <2> HIDE DEF n
  <2> DEFINE p == asked[i].port
  <2>2. ~(p < HALF) /\ p - HALF = n
    <3>1. p = HALF + n  BY <1>6
    <3> HIDE DEF p
    <3> QED  BY <2>1, <3>1
  <2> HIDE DEF p
  <2>3. Open(listeningPortTable, freePortTable, p) = freePortTable[p - HALF]
    BY <2>2, Zenon DEF Open
  <2>4. Open(listeningPortTable, freePortTable, p) = freePortTable[n]  BY <2>2, <2>3, Zenon
  <2> QED  BY <2>4, <1>5 DEF IInv, Fresh, p
<1>7. usedReq' = Tail(usedReq) /\ usedRsp' = Append(usedRsp, v)  BY DEF CheckUsed
<1> HIDE DEF v
<1>8. Served("FT", HALF, Dests, asked, Tail(usedReq), Append(usedRsp, v))
  BY <1>2, <1>5, <1>6, ServedCheck DEF IInv, Ordered
<1>9. Ordered'  BY <1>2, <1>3, <1>7, <1>8 DEF IInv, Ordered
<1> QED  BY <1>1, <1>4, <1>9 DEF IInv

LEMMA NextIInv == ASSUME IInv, [Next]_vars PROVE IInv'
<1>0. Typed  BY DEF IInv
<1>1. ASSUME NEW p \in ListenPort, Listen(p) PROVE IInv'
  <2>1. Typed'  BY <1>0, <1>1, ListeningType
  <2> QED  BY <2>1, <1>1, Observed DEF Listen
<1>2. CASE CheckOut  BY <1>2, ReadDstInv, AnswerInv DEF CheckOut
<1>3. CASE ReleasePort \/ Idle
  <2>1. Typed'  BY <1>0, <1>3, FreePortType DEF FreePortTable
  <2> QED  BY <2>1, <1>3, Observed DEF ReleasePort, Idle
<1>4. CASE OpenConnection \/ OpenFails \/ CloseConnection
  <2>1. Typed'  BY <1>0, <1>4, UserType
  <2>2. UNCHANGED <<listeningPortTable, freePortTable, checkVars, asked>>
    BY <1>4 DEF OpenConnection, OpenFails, CloseConnection
  <2> QED  BY <2>1, <2>2, Unmoved DEF IInv
<1>5. CASE UNCHANGED vars
  <2>1. Typed'  BY <1>0, <1>5 DEF vars, checkVars, Typed
  <2> QED  BY <2>1, <1>5, Unmoved DEF IInv, vars
<1> QED
  BY <1>1, <1>2, <1>3, <1>4, <1>5, AskInv, CheckListeningInv, CheckUsedInv
  DEF Next, FreePortTable

\* The strengthened invariant is inductive.
THEOREM Invariance == Spec => []IInv
<1> QED  BY InitIInv, NextIInv, PTL DEF Spec

\* Every variable keeps its type and every stream its depth, for any number of
\* ports, any depths and any questions.
THEOREM TypeCorrect == Spec => []TypeOK
<1>1. IInv => TypeOK  BY Types DEF IInv
<1> QED  BY <1>1, Invariance, PTL

\* The answers to the RX engine come in the order of its questions, and each
\* is a value its port has had since the question, for any number of ports and
\* any depths.
THEOREM AnswersInOrder == Spec => ChecksInOrder
<1> DEFINE A == /\ AnswerListening => Head(listenRsp) \in Head(asked).values
                /\ AnswerUsed      => Head(usedRsp) \in Head(asked).values
<1>1. IInv /\ [Next]_vars => [A]_vars
  <2> SUFFICES ASSUME IInv PROVE A  OBVIOUS
  <2> QED  BY AnswerInv
<1>2. ChecksInOrder <=> [][A]_vars  BY PTL DEF ChecksInOrder
<1> QED  BY <1>1, <1>2, Invariance, PTL DEF Spec
=============================================================================
