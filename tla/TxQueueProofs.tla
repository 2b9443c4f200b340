---------------------------- MODULE TxQueueProofs ----------------------------
(***************************************************************************)
(* TxPath implements PacketQueue, for any number of sessions, any events,  *)
(* any payloads and any depths of the streams.                             *)
(*                                                                         *)
(* The parts of a packet go through the pipe by streams of their own, and  *)
(* what is in one stream says little about the others.  The invariant,     *)
(* Flow, says that there is a history: for each packet a plan, what        *)
(* metaLoader has decided about it, and for each stream the values of all  *)
(* packets, one after the other.  What is in a stream is a window of its   *)
(* values, and each function is somewhere in the history of the streams it *)
(* reads and writes (AtSplitter to AtOut).  A step of a function moves the *)
(* ends of windows; only metaLoader makes the history longer.  Of the      *)
(* events no more is used than the type TxPathProofs gives them.           *)
(***************************************************************************)
EXTENDS TxPathProofs

-----------------------------------------------------------------------------
(***************************************************************************)
(* The contents of a stream from the first step on.  Packet n of 1 .. N    *)
(* puts the values C[n] into it, which come behind the first S[n] values;  *)
(* I numbers all values.                                                   *)
(***************************************************************************)
Fit(N, C, S, I) ==
    /\ S \in [Nat -> Nat] /\ S[1] = 0
    /\ \A m, n \in 1 .. N + 1 : m <= n => S[m] <= S[n]
    /\ \A n \in 1 .. N :
          /\ Len(C[n]) \in Nat
          /\ S[n + 1] = S[n] + Len(C[n])
          /\ \A k \in 1 .. Len(C[n]) : I[S[n] + k] = C[n][k]
    /\ \A i \in 1 .. S[N + 1] : \E n \in 1 .. N : S[n] < i /\ i <= S[n + 1]

\* The next packet that has something in the stream.
LEMMA Locate ==
    ASSUME NEW N \in Nat, NEW C, NEW S, NEW I, Fit(N, C, S, I),
           NEW m \in 1 .. N + 1, S[m] < S[N + 1]
    PROVE  \E n \in 1 .. N : S[n] = S[m] /\ Len(C[n]) # 0
<1>0. S \in [Nat -> Nat] /\ \A n \in 1 .. N + 1 : S[n] \in Nat
  <2>1. S \in [Nat -> Nat]  BY DEF Fit
  <2> QED  BY <2>1
<1>1. S[m] + 1 \in 1 .. S[N + 1]  BY <1>0
<1>2. PICK n \in 1 .. N : S[n] < S[m] + 1 /\ S[m] + 1 <= S[n + 1]  BY <1>1 DEF Fit
<1>3. n \in 1 .. N + 1 /\ n + 1 \in 1 .. N + 1  OBVIOUS
<1>4. ~(n + 1 <= m)
  <2>1. n + 1 <= m => S[n + 1] <= S[m]  BY <1>3 DEF Fit
  <2> QED  BY <1>0, <1>2, <1>3, <2>1
<1>5. S[m] <= S[n]
  <2>1. m <= n  BY <1>4
  <2> QED  BY <1>3, <2>1 DEF Fit
<1>6. S[n] = S[m]  BY <1>0, <1>2, <1>3, <1>5
<1>7. Len(C[n]) # 0
  <2>1. S[n + 1] = S[n] + Len(C[n]) /\ Len(C[n]) \in Nat  BY DEF Fit
  <2> DEFINE a == S[n]
             b == S[n + 1]
             c == Len(C[n])
  <2>2. a \in Nat /\ b = a + c /\ a + 1 <= b /\ c \in Nat  BY <1>0, <1>2, <1>3, <1>6, <2>1
  <2> HIDE DEF a, b, c
  <2>3. c # 0  BY <2>2
  <2> QED  BY <2>3 DEF c
<1> QED  BY <1>6, <1>7

\* One more packet, which puts v.
Grown(N, C, S, I, v, C2, S2, I2) ==
    /\ Len(v) \in Nat
    /\ C2[N + 1] = v /\ \A n \in 1 .. N : C2[n] = C[n]
    /\ S2 \in [Nat -> Nat] /\ S2[N + 2] = S[N + 1] + Len(v)
    /\ \A n \in 1 .. N + 1 : S2[n] = S[n]
    /\ \A i \in 1 .. S[N + 1] : I2[i] = I[i]
    /\ \A k \in 1 .. Len(v) : I2[S[N + 1] + k] = v[k]

LEMMA FitMore ==
    ASSUME NEW N \in Nat, NEW C, NEW S, NEW I, Fit(N, C, S, I), NEW v,
           NEW C2, NEW S2, NEW I2, Grown(N, C, S, I, v, C2, S2, I2)
    PROVE  Fit(N + 1, C2, S2, I2)
<1>a. /\ Len(v) \in Nat
      /\ C2[N + 1] = v /\ \A n \in 1 .. N : C2[n] = C[n]
      /\ S2 \in [Nat -> Nat] /\ S2[N + 2] = S[N + 1] + Len(v)
      /\ \A n \in 1 .. N + 1 : S2[n] = S[n]
      /\ \A i \in 1 .. S[N + 1] : I2[i] = I[i]
      /\ \A k \in 1 .. Len(v) : I2[S[N + 1] + k] = v[k]
  BY DEF Grown
<1> USE <1>a
<1>1. /\ S \in [Nat -> Nat] /\ S[1] = 0
      /\ \A m, n \in 1 .. N + 1 : m <= n => S[m] <= S[n]
      /\ \A n \in 1 .. N :
            /\ Len(C[n]) \in Nat
            /\ S[n + 1] = S[n] + Len(C[n])
            /\ \A k \in 1 .. Len(C[n]) : I[S[n] + k] = C[n][k]
      /\ \A i \in 1 .. S[N + 1] : \E n \in 1 .. N : S[n] < i /\ i <= S[n + 1]
  BY DEF Fit
<1>0. S \in [Nat -> Nat]  BY DEF Fit
<1>2. \A n \in 1 .. N + 1 : S2[n] = S[n] /\ S[n] \in Nat
  <2> TAKE n \in 1 .. N + 1
  <2>1. n \in Nat  OBVIOUS
  <2>2. S[n] \in Nat  BY <1>0, <2>1
  <2> QED  BY <2>2
<1>3. (N + 1) + 1 = N + 2 /\ N + 1 \in 1 .. N + 1 /\ \A n \in 1 .. N : n + 1 \in 1 .. N + 1
  OBVIOUS
<1>4. \A m, n \in 1 .. N + 2 : m <= n => S2[m] <= S2[n]
  <2> TAKE m, n \in 1 .. N + 2
  <2> HAVE m <= n
  <2>1. CASE n \in 1 .. N + 1
    <3>1. m \in 1 .. N + 1  BY <2>1
    <3> QED  BY <1>1, <1>2, <2>1, <3>1
  <2>2. CASE n = N + 2 /\ m \in 1 .. N + 1
    <3>1. S[m] <= S[N + 1]
      <4>1. m <= N + 1  BY <2>2
      <4> QED  BY <1>1, <1>3, <2>2, <4>1
    <3> DEFINE a == S[m]
               b == S[N + 1]
               c == Len(v)
    <3>2. S2[m] = a /\ S2[n] = b + c  BY <1>2, <2>2
    <3>3. a \in Nat /\ b \in Nat /\ c \in Nat /\ a <= b  BY <1>2, <1>3, <2>2, <3>1
    <3> HIDE DEF a, b, c
    <3> QED  BY <3>2, <3>3
  <2>3. CASE n = N + 2 /\ m = N + 2
    <3>1. N + 2 \in Nat  OBVIOUS
    <3>2. S2[N + 2] \in Nat  BY <3>1
    <3> QED  BY <2>3, <3>2
  <2> QED  BY <2>1, <2>2, <2>3
<1>5. ASSUME NEW n \in 1 .. N + 1
      PROVE  /\ Len(C2[n]) \in Nat
             /\ S2[n + 1] = S2[n] + Len(C2[n])
             /\ \A k \in 1 .. Len(C2[n]) : I2[S2[n] + k] = C2[n][k]
  <2>1. CASE n \in 1 .. N
    <3>1. C2[n] = C[n] /\ S2[n] = S[n] /\ S2[n + 1] = S[n + 1]  BY <1>2, <1>3, <2>1
    <3>2. S[n + 1] <= S[N + 1]
      <4>1. n + 1 <= N + 1  BY <2>1
      <4> QED  BY <1>1, <1>3, <2>1, <4>1
    <3>3. Len(C[n]) \in Nat /\ S[n + 1] = S[n] + Len(C[n])
          /\ \A k \in 1 .. Len(C[n]) : I[S[n] + k] = C[n][k]
      BY <1>1, <2>1
    <3>4. ASSUME NEW k \in 1 .. Len(C[n]) PROVE I2[S[n] + k] = I[S[n] + k]
      <4> DEFINE a == S[n]
                 b == S[n + 1]
                 c == Len(C[n])
                 d == S[N + 1]
      <4>1. a \in Nat /\ b = a + c /\ c \in Nat /\ b <= d /\ k \in 1 .. c /\ d \in Nat
        BY <1>2, <1>3, <2>1, <3>2, <3>3
      <4>2. \A i \in 1 .. d : I2[i] = I[i]  OBVIOUS
      <4> HIDE DEF a, b, c, d
      <4>3. a + k \in 1 .. d  BY <4>1
      <4>4. I2[a + k] = I[a + k]  BY <4>2, <4>3
      <4> QED  BY <4>4 DEF a
    <3>5. \A k \in 1 .. Len(C2[n]) : I2[S2[n] + k] = C2[n][k]
      <4> TAKE k \in 1 .. Len(C2[n])
      <4>1. k \in 1 .. Len(C[n])  BY <3>1
      <4>2. I2[S[n] + k] = I[S[n] + k] /\ I[S[n] + k] = C[n][k]  BY <3>3, <3>4, <4>1
      <4> QED  BY <3>1, <4>2
    <3>6. Len(C2[n]) \in Nat /\ S2[n + 1] = S2[n] + Len(C2[n])  BY <3>1, <3>3
    <3> QED  BY <3>5, <3>6
  <2>2. CASE n = N + 1
    <3>1. C2[n] = v /\ S2[n] = S[N + 1] /\ S2[n + 1] = S[N + 1] + Len(v)  BY <1>2, <1>3, <2>2
    <3>2. Len(C2[n]) = Len(v) /\ Len(v) \in Nat  BY <3>1
    <3>3. S2[n + 1] = S2[n] + Len(C2[n])  BY <3>1, <3>2
    <3>4. \A k \in 1 .. Len(C2[n]) : I2[S2[n] + k] = C2[n][k]  BY <3>1, <3>2
    <3>5. Len(C2[n]) \in Nat  BY <3>2
    <3> QED  BY ONLY <3>3, <3>4, <3>5
  <2> QED  BY <2>1, <2>2
<1>6. ASSUME NEW i \in 1 .. S2[N + 2] PROVE \E n \in 1 .. N + 1 : S2[n] < i /\ i <= S2[n + 1]
  <2>1. CASE i <= S[N + 1]
    <3>1. i \in 1 .. S[N + 1]  BY <1>2, <2>1
    <3>2. PICK n \in 1 .. N : S[n] < i /\ i <= S[n + 1]  BY <1>1, <3>1
    <3>3. n \in 1 .. N + 1 /\ n + 1 \in 1 .. N + 1  OBVIOUS
    <3> QED  BY <1>2, <3>2, <3>3
  <2>2. CASE ~(i <= S[N + 1])
    <3>1. N + 1 \in 1 .. N + 1  OBVIOUS
    <3>2. S2[N + 1] < i
      <4>1. S2[N + 1] = S[N + 1] /\ S[N + 1] \in Nat  BY <1>2, <3>1
      <4>2. i \in Int  OBVIOUS
      <4> DEFINE a == S[N + 1]
      <4>3. a \in Nat /\ ~(i <= a) /\ S2[N + 1] = a  BY <2>2, <4>1
      <4> HIDE DEF a
      <4>4. a < i  BY <4>2, <4>3
      <4> QED  BY <4>3, <4>4
    <3>3. i <= S2[(N + 1) + 1]
      <4>1. (N + 1) + 1 = N + 2 /\ i <= S2[N + 2]  BY <1>3
      <4> QED  BY <4>1
    <3> QED  BY <3>1, <3>2, <3>3
  <2> QED  BY <2>1, <2>2
<1>7. S2[1] = 0  BY <1>1, <1>2
<1> QED  BY <1>3, <1>4, <1>5, <1>6, <1>7 DEF Fit

-----------------------------------------------------------------------------
(***************************************************************************)
(* What is in a stream: of its values I, those from lo + 1 to hi.          *)
(***************************************************************************)
Window(s, I, lo, hi) ==
    lo \in Nat /\ hi \in Nat /\ lo <= hi /\ q[s] = [i \in 1 .. hi - lo |-> I[lo + i]]

LEMMA WindowFacts ==
    ASSUME NEW s, NEW I, NEW lo, NEW hi, Window(s, I, lo, hi)
    PROVE  /\ q[s] \in Seq({I[i] : i \in Nat}) /\ Len(q[s]) = hi - lo
           /\ Has(s) => lo < hi /\ Front(s) = I[lo + 1]
<1> DEFINE S == {I[i] : i \in Nat}
<1>1. lo \in Nat /\ hi \in Nat /\ lo <= hi /\ hi - lo \in Nat
      /\ q[s] = [i \in 1 .. hi - lo |-> I[lo + i]]
  BY DEF Window
<1>2. \A i \in 1 .. hi - lo : I[lo + i] \in S  BY <1>1
<1>3. q[s] \in [1 .. hi - lo -> S]  BY <1>1, <1>2
<1> HIDE DEF S
<1>4. q[s] \in Seq(S)  BY <1>1, <1>3
<1>5. Len(q[s]) = hi - lo
  <2>1. DOMAIN q[s] = 1 .. hi - lo  BY <1>3
  <2> QED  BY <1>1, <1>4, <2>1, LenProperties
<1>6. ASSUME Has(s) PROVE lo < hi /\ Front(s) = I[lo + 1]
  <2>1. Len(q[s]) # 0  BY <1>4, <1>6, EmptySeq DEF Has
  <2>2. 1 \in 1 .. hi - lo  BY <1>1, <1>5, <2>1
  <2>3. Front(s) = q[s][1]  BY <1>4, <1>6, HeadTailProperties DEF Has, Front
  <2> QED  BY <1>1, <2>2, <2>3
<1> QED  BY <1>4, <1>5, <1>6 DEF S

LEMMA WindowIs ==
    ASSUME NEW s, NEW I, NEW lo \in Nat, NEW hi \in Nat, lo <= hi,
           NEW S, q[s] \in Seq(S), Len(q[s]) = hi - lo,
           \A i \in 1 .. hi - lo : q[s][i] = I[lo + i]
    PROVE  Window(s, I, lo, hi)
<1>1. DOMAIN q[s] = 1 .. hi - lo /\ q[s] \in [1 .. hi - lo -> S]  BY LenProperties
<1>2. q[s] = [i \in 1 .. hi - lo |-> I[lo + i]]  BY <1>1
<1> QED  BY <1>2 DEF Window

\* What a step does to it: the front is taken or not, and n values are put.
Puts(s, W, I, hi, n) ==
    /\ s \in DOMAIN W => W[s] = [i \in 1 .. n |-> I[hi + i]]
    /\ s \notin DOMAIN W => n = 0

LEMMA WindowNext ==
    ASSUME NEW s, NEW I, NEW lo, NEW hi, Window(s, I, lo, hi), NEW R, NEW W, Transfer(R, W),
           s \in Names, NEW n \in Nat, Puts(s, W, I, hi, n)
    PROVE  Window(s, I, lo + (IF s \in R THEN 1 ELSE 0), hi + n)'
<1>a. /\ s \in DOMAIN W => W[s] = [i \in 1 .. n |-> I[hi + i]]
      /\ s \notin DOMAIN W => n = 0
  BY DEF Puts
<1> USE <1>a
<1> DEFINE S == {I[i] : i \in Nat}
           rest == IF s \in R THEN Tail(q[s]) ELSE q[s]
           lo2 == lo + (IF s \in R THEN 1 ELSE 0)
           new == [i \in 1 .. n |-> I[hi + i]]
<1>1. lo \in Nat /\ hi \in Nat /\ lo <= hi /\ q[s] \in Seq(S) /\ Len(q[s]) = hi - lo
      /\ \A i \in 1 .. hi - lo : q[s][i] = I[lo + i]
  <2>1. lo \in Nat /\ hi \in Nat /\ lo <= hi /\ \A i \in 1 .. hi - lo : q[s][i] = I[lo + i]
    BY DEF Window
  <2>2. q[s] \in Seq(S) /\ Len(q[s]) = hi - lo  BY WindowFacts
  <2> HIDE DEF S
  <2> QED  BY <2>1, <2>2
<1>2. s \in R => q[s] # <<>> /\ lo < hi  BY WindowFacts DEF Transfer, Has
<1>3. new \in Seq(S) /\ Len(new) = n /\ \A i \in 1 .. n : new[i] = I[hi + i]
  <2>1. \A i \in 1 .. n : I[hi + i] \in S  BY <1>1
  <2>2. new \in [1 .. n -> S]  BY <2>1
  <2> HIDE DEF S
  <2>3. new \in Seq(S)  BY <2>2
  <2>4. DOMAIN new = 1 .. n  OBVIOUS
  <2>5. \A i \in 1 .. n : new[i] = I[hi + i]  OBVIOUS
  <2> HIDE DEF new
  <2>6. Len(new) = n  BY <2>3, <2>4, LenProperties
  <2> QED  BY <2>3, <2>5, <2>6
<1>4. q'[s] = rest \o new
  <2>1. q'[s] = rest \o (IF s \in DOMAIN W THEN W[s] ELSE <<>>)  BY DEF Transfer
  <2>2. s \notin DOMAIN W => new = <<>>
    <3>1. s \notin DOMAIN W => Len(new) = 0  BY <1>3
    <3> QED  BY <1>3, <3>1, EmptySeq
  <2> QED  BY <2>1, <2>2
<1>5. /\ rest \in Seq(S) /\ lo2 \in Nat /\ lo2 <= hi /\ Len(rest) = hi - lo2
      /\ \A i \in 1 .. hi - lo2 : rest[i] = I[lo2 + i]
  <2> HIDE DEF S
  <2>1. CASE s \notin R  BY <1>1, <2>1
  <2>2. CASE s \in R
    <3>1. Tail(q[s]) \in Seq(S) /\ Len(Tail(q[s])) = Len(q[s]) - 1
          /\ \A i \in 1 .. Len(q[s]) - 1 : Tail(q[s])[i] = q[s][i + 1]
      BY <1>1, <1>2, <2>2, HeadTailProperties
    <3>2. rest = Tail(q[s]) /\ lo2 = lo + 1  BY <2>2
    <3>3. lo2 \in Nat /\ lo2 <= hi /\ Len(rest) = hi - lo2  BY <1>1, <1>2, <2>2, <3>1, <3>2
    <3>4. ASSUME NEW i \in 1 .. hi - lo2 PROVE rest[i] = I[lo2 + i]
      <4>1. i \in 1 .. Len(q[s]) - 1 /\ i + 1 \in 1 .. hi - lo /\ lo + (i + 1) = lo2 + i
        BY <1>1, <3>2
      <4> QED  BY <1>1, <3>1, <3>2, <4>1
    <3> QED  BY <3>1, <3>2, <3>3, <3>4
  <2> QED  BY <2>1, <2>2
<1> HIDE DEF S, rest, lo2, new
<1>6. /\ rest \o new \in Seq(S) /\ Len(rest \o new) = Len(rest) + Len(new)
      /\ \A i \in 1 .. Len(rest) + Len(new) :
            (rest \o new)[i] = IF i <= Len(rest) THEN rest[i] ELSE new[i - Len(rest)]
  <2>1. rest \in Seq(S) /\ new \in Seq(S)  BY <1>3, <1>5
  <2> QED  BY <2>1, ConcatProperties
<1>7. /\ hi + n \in Nat /\ lo2 <= hi + n /\ Len(q'[s]) = (hi + n) - lo2
      /\ Len(rest) + Len(new) = (hi + n) - lo2
  <2> DEFINE a == Len(rest)
             c == Len(new)
  <2>1. Len(q'[s]) = a + c
    <3>1. Len(rest \o new) = a + c  BY <1>6
    <3> QED  BY <1>4, <3>1
  <2>2. a = hi - lo2 /\ c = n /\ lo2 \in Nat /\ lo2 <= hi /\ hi \in Nat
    <3>1. a = hi - lo2 /\ lo2 \in Nat /\ lo2 <= hi  BY <1>5
    <3>2. c = n  BY <1>3
    <3> QED  BY <1>1, <3>1, <3>2
  <2> HIDE DEF a, c
  <2>3. /\ hi + n \in Nat /\ lo2 <= hi + n /\ a + c = (hi + n) - lo2  BY <2>2
  <2> QED  BY <2>1, <2>3 DEF a, c
<1>8. ASSUME NEW i \in 1 .. (hi + n) - lo2 PROVE q'[s][i] = I[lo2 + i]
  <2>1. i \in 1 .. Len(rest) + Len(new)  BY <1>7
  <2>2. CASE i <= Len(rest)
    <3>1. i \in 1 .. hi - lo2  BY <1>5, <2>2
    <3> QED  BY <1>4, <1>5, <1>6, <2>1, <2>2, <3>1
  <2>3. CASE ~(i <= Len(rest))
    <3>1. i - Len(rest) \in 1 .. n /\ hi + (i - Len(rest)) = lo2 + i
      BY <1>1, <1>3, <1>5, <2>1, <2>3
    <3> QED  BY <1>3, <1>4, <1>6, <2>1, <2>3, <3>1
  <2> QED  BY <2>2, <2>3
<1>9. q'[s] \in Seq(S)  BY <1>4, <1>6
<1>10. q'[s] = [i \in 1 .. (hi + n) - lo2 |-> I[lo2 + i]]
  <2>1. DOMAIN q'[s] = 1 .. (hi + n) - lo2 /\ q'[s] \in [1 .. (hi + n) - lo2 -> S]
    BY <1>7, <1>9, LenProperties
  <2> QED  BY <1>8, <2>1
<1> QED  BY <1>5, <1>7, <1>10 DEF Window, lo2

LEMMA WindowAgree ==
    ASSUME NEW s, NEW I, NEW lo, NEW hi, Window(s, I, lo, hi),
           NEW J, \A i \in 1 .. hi : J[i] = I[i]
    PROVE  Window(s, J, lo, hi)
<1>1. lo \in Nat /\ hi \in Nat /\ lo <= hi /\ q[s] = [i \in 1 .. hi - lo |-> I[lo + i]]
  BY DEF Window
<1>2. \A i \in 1 .. hi - lo : I[lo + i] = J[lo + i]
  <2> TAKE i \in 1 .. hi - lo
  <2>1. lo + i \in 1 .. hi  BY <1>1
  <2> QED  BY <2>1
<1>3. [i \in 1 .. hi - lo |-> I[lo + i]] = [i \in 1 .. hi - lo |-> J[lo + i]]  BY <1>2
<1> QED  BY <1>1, <1>3 DEF Window

-----------------------------------------------------------------------------
(***************************************************************************)
(* What metaLoader decides about a packet, and what the packet puts in the *)
(* streams.                                                                *)
(***************************************************************************)
Tuples == Sessions \cup {Peer}

Plan ==
    {pl \in [tuple : Tuples, sars : SUBSET Tuples, lookup : BOOLEAN, syn : BOOLEAN,
             length : Nat, first : Nat, second : Nat] :
        /\ pl.sars \subseteq {pl.tuple}
        /\ pl.syn => pl.length # 0 /\ pl.first = 0
        /\ ~pl.syn => (pl.length = 0 <=> pl.first = 0)
        /\ pl.first = 0 => pl.second = 0}

HeaderSize(pl) == IF pl.syn THEN 4 ELSE 3
PacketSize(pl) == HeaderSize(pl) + pl.first + pl.second

MetaOf(pl, n) == [pkt |-> n, sars |-> pl.sars, length |-> pl.length, syn |-> pl.syn]

HeaderWord(pl, n, k) ==
    IF k = 1 THEN Word(n, {pl.tuple}, FALSE)
    ELSE [pkt |-> n, tuples |-> {pl.tuple}, last |-> k = 4 \/ (k = 3 /\ pl.length = 0),
          syn |-> pl.syn]

PacketWord(pl, n, k) ==
    Word(n, IF k <= HeaderSize(pl) THEN {pl.tuple} ELSE {}, k = PacketSize(pl))

PacketSum(pl, n) == [pkts |-> {n}, words |-> PacketSize(pl)]

Content(pl, n) ==
    [ipMeta |-> <<n>>, tcpMeta |-> << MetaOf(pl, n) >>, isLookUp |-> << pl.lookup >>,
     revReq |-> IF pl.lookup THEN << pl.tuple >> ELSE << >>,
     revRsp |-> IF pl.lookup THEN << pl.tuple >> ELSE << >>,
     shortCut |-> IF pl.lookup THEN << >> ELSE << pl.tuple >>,
     ipTuple |-> << pl.tuple >>, tcpTuple |-> << pl.tuple >>,
     ipHeader |-> << Word(n, {pl.tuple}, FALSE) >>,
     tcpHeader |-> [k \in 1 .. HeaderSize(pl) |-> HeaderWord(pl, n, k)],
     readCmd |-> IF pl.first = 0 THEN << >>
                 ELSE << [pkt |-> n, first |-> pl.first, second |-> pl.second] >>,
     accessFlag |-> IF pl.first = 0 THEN << >> ELSE << IF pl.second > 0 THEN 1 ELSE 0 >>,
     memCmd |-> IF pl.first = 0 THEN << >>
                ELSE IF pl.second = 0 THEN << [pkt |-> n, words |-> pl.first] >>
                ELSE << [pkt |-> n, words |-> pl.first], [pkt |-> n, words |-> pl.second] >>,
     memData |-> [k \in 1 .. pl.first + pl.second |->
                     Word(n, {}, k = pl.first \/ k = pl.first + pl.second)],
     tcpPkg1 |-> [k \in 1 .. PacketSize(pl) |-> PacketWord(pl, n, k)],
     tcpPkg2 |-> [k \in 1 .. PacketSize(pl) - 1 |-> PacketWord(pl, n, k + 1)],
     subSums |-> << PacketSum(pl, n) >>, checksum |-> << PacketSum(pl, n) >>]

\* The streams into which every packet puts one value.
Single == {"ipMeta", "tcpMeta", "isLookUp", "ipTuple", "tcpTuple", "ipHeader",
           "subSums", "checksum"}

LEMMA LenIs == ASSUME NEW L \in Nat, NEW f, f = [k \in 1 .. L |-> f[k]] PROVE Len(f) = L
<1> DEFINE S == {f[k] : k \in 1 .. L}
<1>1. f \in [1 .. L -> S]  OBVIOUS
<1>2. f \in Seq(S)  BY <1>1
<1>3. DOMAIN f = 1 .. L  BY <1>1
<1> HIDE DEF S
<1>4. Len(f) \in Nat /\ DOMAIN f = 1 .. Len(f)  BY <1>2, LenProperties
<1> QED  BY <1>3, <1>4

LEMMA PlanFacts ==
    ASSUME NEW pl \in Plan
    PROVE  /\ pl.tuple \in Tuples /\ pl.sars \subseteq {pl.tuple}
           /\ pl.lookup \in BOOLEAN /\ pl.syn \in BOOLEAN
           /\ pl.length \in Nat /\ pl.first \in Nat /\ pl.second \in Nat
           /\ pl.syn => pl.length # 0 /\ pl.first = 0
           /\ ~pl.syn => (pl.length = 0 <=> pl.first = 0)
           /\ pl.first = 0 => pl.second = 0
           /\ HeaderSize(pl) \in 3 .. 4 /\ PacketSize(pl) \in Nat
           /\ PacketSize(pl) = HeaderSize(pl) + pl.first + pl.second
<1>1. /\ pl.tuple \in Tuples /\ pl.sars \subseteq {pl.tuple}
      /\ pl.lookup \in BOOLEAN /\ pl.syn \in BOOLEAN
      /\ pl.length \in Nat /\ pl.first \in Nat /\ pl.second \in Nat
      /\ pl.syn => pl.length # 0 /\ pl.first = 0
      /\ ~pl.syn => (pl.length = 0 <=> pl.first = 0)
      /\ pl.first = 0 => pl.second = 0
  BY DEF Plan
<1>2. HeaderSize(pl) \in 3 .. 4  BY <1>1 DEF HeaderSize
<1>3. PacketSize(pl) = HeaderSize(pl) + pl.first + pl.second  BY DEF PacketSize
<1>4. PacketSize(pl) \in Nat  BY <1>1, <1>2, <1>3
<1> QED  BY <1>1, <1>2, <1>3, <1>4

\* How much a packet puts in each stream.
LEMMA Sizes ==
    ASSUME NEW pl \in Plan, NEW n
    PROVE  LET C == Content(pl, n)
           IN  /\ \A s \in Single : Len(C[s]) = 1
               /\ Len(C["revReq"]) = (IF pl.lookup THEN 1 ELSE 0)
               /\ Len(C["revRsp"]) = (IF pl.lookup THEN 1 ELSE 0)
               /\ Len(C["shortCut"]) = (IF pl.lookup THEN 0 ELSE 1)
               /\ Len(C["readCmd"]) = (IF pl.first = 0 THEN 0 ELSE 1)
               /\ Len(C["accessFlag"]) = (IF pl.first = 0 THEN 0 ELSE 1)
               /\ Len(C["memCmd"]) = (IF pl.first = 0 THEN 0 ELSE IF pl.second = 0 THEN 1 ELSE 2)
               /\ Len(C["memData"]) = pl.first + pl.second
               /\ Len(C["tcpHeader"]) = HeaderSize(pl)
               /\ Len(C["tcpPkg1"]) = PacketSize(pl)
               /\ Len(C["tcpPkg2"]) = PacketSize(pl) - 1
<1> DEFINE C == Content(pl, n)
<1>0. Len(<< >>) = 0 /\ (\A x : Len(<< x >>) = 1) /\ \A x, y : Len(<< x, y >>) = 2
  OBVIOUS
<1>1. /\ pl.first + pl.second \in Nat /\ HeaderSize(pl) \in Nat
      /\ PacketSize(pl) \in Nat /\ PacketSize(pl) - 1 \in Nat
  BY PlanFacts
<1>2. /\ C["memData"] = [k \in 1 .. pl.first + pl.second |-> C["memData"][k]]
      /\ C["tcpHeader"] = [k \in 1 .. HeaderSize(pl) |-> C["tcpHeader"][k]]
      /\ C["tcpPkg1"] = [k \in 1 .. PacketSize(pl) |-> C["tcpPkg1"][k]]
      /\ C["tcpPkg2"] = [k \in 1 .. PacketSize(pl) - 1 |-> C["tcpPkg2"][k]]
  BY DEF Content
<1>3. /\ Len(C["memData"]) = pl.first + pl.second
      /\ Len(C["tcpHeader"]) = HeaderSize(pl)
      /\ Len(C["tcpPkg1"]) = PacketSize(pl)
      /\ Len(C["tcpPkg2"]) = PacketSize(pl) - 1
  <2> HIDE DEF C
  <2> QED  BY <1>1, <1>2, LenIs
<1>4. /\ Len(C["revReq"]) = (IF pl.lookup THEN 1 ELSE 0)
      /\ Len(C["revRsp"]) = (IF pl.lookup THEN 1 ELSE 0)
      /\ Len(C["shortCut"]) = (IF pl.lookup THEN 0 ELSE 1)
      /\ Len(C["readCmd"]) = (IF pl.first = 0 THEN 0 ELSE 1)
      /\ Len(C["accessFlag"]) = (IF pl.first = 0 THEN 0 ELSE 1)
  BY <1>0 DEF Content
<1>5. Len(C["memCmd"]) = (IF pl.first = 0 THEN 0 ELSE IF pl.second = 0 THEN 1 ELSE 2)
  BY <1>0 DEF Content
<1>6. \A s \in Single : Len(C[s]) = 1  BY <1>0 DEF Content, Single
<1> QED  BY <1>3, <1>4, <1>5, <1>6

LEMMA SizesNat ==
    ASSUME NEW pl \in Plan, NEW n, NEW s \in PipeStreams
    PROVE  Len(Content(pl, n)[s]) \in Nat
<1> DEFINE L(x) == Len(Content(pl, n)[x])
<1>1. PacketSize(pl) - 1 \in Nat  BY PlanFacts
<1>2. /\ L("memData") \in Nat /\ L("tcpHeader") \in Nat /\ L("tcpPkg1") \in Nat
      /\ L("tcpPkg2") \in Nat
  BY <1>1, Sizes, PlanFacts
<1>3. /\ L("revReq") \in Nat /\ L("revRsp") \in Nat /\ L("shortCut") \in Nat
      /\ L("readCmd") \in Nat /\ L("accessFlag") \in Nat /\ L("memCmd") \in Nat
  BY Sizes
<1>4. \A x \in Single : L(x) \in Nat  BY Sizes
<1> HIDE DEF L
<1>5. L(s) \in Nat  BY <1>2, <1>3, <1>4 DEF PipeStreams, Single
<1> QED  BY <1>5 DEF L

-----------------------------------------------------------------------------
(***************************************************************************)
(* The history of the N packets that have been accepted: their plans p,    *)
(* and for each stream s how many values come before those of packet n,    *)
(* S[s][n], and the values, I[s].                                          *)
(***************************************************************************)
Contents(s, p) == [n \in Nat |-> Content(p[n], n)[s]]

\* Packets before which there is as much in stream s.
Together(N, S, s, t) ==
    \A m, n \in 1 .. N + 1 : S[s][m] = S[s][n] => S[t][m] = S[t][n]

History(N, p, S, I) ==
    /\ p \in [Nat -> Plan]
    /\ \A s \in PipeStreams : Fit(N, Contents(s, p), S[s], I[s])
    /\ \A s \in Single : \A n \in 1 .. N + 1 : S[s][n] = n - 1
    /\ S["revRsp"] = S["revReq"] /\ I["revRsp"] = I["revReq"]
    /\ S["accessFlag"] = S["readCmd"] /\ I["checksum"] = I["subSums"]
    /\ Together(N, S, "readCmd", "memCmd") /\ Together(N, S, "memCmd", "memData")

LEMMA HistoryFacts ==
    ASSUME NEW N \in Nat, NEW p, NEW S, NEW I, History(N, p, S, I), NEW s \in PipeStreams
    PROVE  /\ \A n \in 1 .. N + 1 : S[s][n] \in Nat /\ S[s][n] <= S[s][N + 1]
           /\ S[s][1] = 0
           /\ \A n \in 1 .. N :
                 /\ p[n] \in Plan
                 /\ S[s][n + 1] = S[s][n] + Len(Content(p[n], n)[s])
                 /\ \A k \in 1 .. Len(Content(p[n], n)[s]) :
                       I[s][S[s][n] + k] = Content(p[n], n)[s][k]
<1>1. Fit(N, Contents(s, p), S[s], I[s]) /\ p \in [Nat -> Plan]  BY DEF History
<1>2. \A n \in 1 .. N : Contents(s, p)[n] = Content(p[n], n)[s]  BY DEF Contents
<1>3. S[s] \in [Nat -> Nat] /\ S[s][1] = 0
      /\ \A m, n \in 1 .. N + 1 : m <= n => S[s][m] <= S[s][n]
  BY <1>1 DEF Fit
<1>4. ASSUME NEW n \in 1 .. N + 1 PROVE S[s][n] \in Nat /\ S[s][n] <= S[s][N + 1]
  <2>1. N + 1 \in 1 .. N + 1 /\ n <= N + 1 /\ n \in Nat  OBVIOUS
  <2> QED  BY <1>3, <2>1
<1>5. ASSUME NEW n \in 1 .. N
      PROVE  /\ p[n] \in Plan
             /\ S[s][n + 1] = S[s][n] + Len(Content(p[n], n)[s])
             /\ \A k \in 1 .. Len(Content(p[n], n)[s]) :
                   I[s][S[s][n] + k] = Content(p[n], n)[s][k]
  <2>1. n \in Nat  OBVIOUS
  <2>2. p[n] \in Plan  BY <1>1, <2>1
  <2>3. /\ S[s][n + 1] = S[s][n] + Len(Contents(s, p)[n])
        /\ \A k \in 1 .. Len(Contents(s, p)[n]) : I[s][S[s][n] + k] = Contents(s, p)[n][k]
    BY <1>1 DEF Fit
  <2> QED  BY <1>2, <2>2, <2>3
<1> QED  BY <1>3, <1>4, <1>5

-----------------------------------------------------------------------------
(***************************************************************************)
(* Of each stream lo[s] values have been taken and hi[s] have been put.    *)
(***************************************************************************)
Windows(N, S, I, lo, hi) ==
    \A s \in PipeStreams : Window(s, I[s], lo[s], hi[s]) /\ hi[s] <= S[s][N + 1]

Moved(f, X) == [s \in PipeStreams |-> IF s \in X THEN f[s] + 1 ELSE f[s]]

LEMMA FrontIs ==
    ASSUME NEW N, NEW S, NEW I, NEW lo, NEW hi, Windows(N, S, I, lo, hi), NEW s \in PipeStreams
    PROVE  /\ lo[s] \in Nat /\ hi[s] \in Nat /\ lo[s] <= hi[s] /\ hi[s] <= S[s][N + 1]
           /\ Has(s) => lo[s] < hi[s] /\ Front(s) = I[s][lo[s] + 1]
<1>1. Window(s, I[s], lo[s], hi[s]) /\ hi[s] <= S[s][N + 1]  BY DEF Windows
<1>2. lo[s] \in Nat /\ hi[s] \in Nat /\ lo[s] <= hi[s]  BY <1>1 DEF Window
<1>3. Has(s) => lo[s] < hi[s] /\ Front(s) = I[s][lo[s] + 1]  BY <1>1, WindowFacts
<1> QED  BY <1>1, <1>2, <1>3

LEMMA OneIs == ASSUME NEW h \in Nat, NEW J, NEW v, v = J[h + 1]
               PROVE  << v >> = [i \in 1 .. 1 |-> J[h + i]]
OBVIOUS

\* A step that takes from the streams of R, and puts a value in those of P.
LEMMA Move ==
    ASSUME NEW N, NEW S, NEW I, NEW lo, NEW hi, Windows(N, S, I, lo, hi),
           NEW R, NEW W, Transfer(R, W), NEW P,
           \A s \in PipeStreams \cap P :
              /\ s \in DOMAIN W /\ W[s] = << I[s][hi[s] + 1] >>
              /\ hi[s] + 1 <= S[s][N + 1],
           \A s \in PipeStreams \ P : s \in DOMAIN W => W[s] = << >>
    PROVE  Windows(N, S, I, Moved(lo, R), Moved(hi, P))'
<1> SUFFICES ASSUME NEW s \in PipeStreams
             PROVE  /\ Window(s, I[s], Moved(lo, R)[s], Moved(hi, P)[s])'
                    /\ Moved(hi, P)[s] <= S[s][N + 1]
  BY DEF Windows
<1>0. /\ lo[s] \in Nat /\ hi[s] \in Nat /\ hi[s] <= S[s][N + 1] /\ s \in Names
      /\ Window(s, I[s], lo[s], hi[s])
  <2>1. s \in Names  BY TxPipeAssumption
  <2>2. Window(s, I[s], lo[s], hi[s]) /\ hi[s] <= S[s][N + 1]  BY DEF Windows
  <2>3. lo[s] \in Nat /\ hi[s] \in Nat  BY <2>2 DEF Window
  <2> QED  BY <2>1, <2>2, <2>3
<1>1. Moved(lo, R)[s] = lo[s] + (IF s \in R THEN 1 ELSE 0)  BY <1>0 DEF Moved
<1>2. CASE s \in P
  <2>1. s \in DOMAIN W /\ W[s] = << I[s][hi[s] + 1] >> /\ hi[s] + 1 <= S[s][N + 1]  BY <1>2
  <2>2. Moved(hi, P)[s] = hi[s] + 1  BY <1>2 DEF Moved
  <2>3. W[s] = [i \in 1 .. 1 |-> I[s][hi[s] + i]]  BY <1>0, <2>1, OneIs
  <2>4. Window(s, I[s], lo[s] + (IF s \in R THEN 1 ELSE 0), hi[s] + 1)'
    <3>1. Puts(s, W, I[s], hi[s], 1)  BY <2>1, <2>3 DEF Puts
    <3> QED  BY <1>0, <3>1, WindowNext
  <2> QED  BY <1>1, <2>1, <2>2, <2>4
<1>3. CASE s \notin P
  <2>1. Moved(hi, P)[s] = hi[s] /\ hi[s] + 0 = hi[s]  BY <1>0, <1>3 DEF Moved
  <2>2. s \in DOMAIN W => W[s] = [i \in 1 .. 0 |-> I[s][hi[s] + i]]
    <3>1. [i \in 1 .. 0 |-> I[s][hi[s] + i]] = << >>  OBVIOUS
    <3> QED  BY <1>3, <3>1
  <2>3. Window(s, I[s], lo[s] + (IF s \in R THEN 1 ELSE 0), hi[s] + 0)'
    <3>1. Puts(s, W, I[s], hi[s], 0)  BY <2>2 DEF Puts
    <3> QED  BY <1>0, <3>1, WindowNext
  <2> QED  BY <1>0, <1>1, <2>1, <2>3
<1> QED  BY <1>2, <1>3

-----------------------------------------------------------------------------
(***************************************************************************)
(* Where each function is: what it has taken and put, and what it holds.   *)
(***************************************************************************)
MlStreams == {"ipMeta", "tcpMeta", "isLookUp", "revReq", "shortCut", "readCmd"}

AtLoader(N, S, hi) == \A s \in MlStreams : hi[s] = S[s][N + 1]

AtReverse(lo, hi) == hi["revRsp"] = lo["revReq"]

\* tupleSplitter has passed the tuples of n packets on.
AtSplitter(N, p, S, lo, hi) ==
    LET n == hi["ipTuple"]
    IN  /\ n \in 0 .. N /\ hi["tcpTuple"] = n
        /\ lo["revRsp"] = S["revRsp"][n + 1] /\ lo["shortCut"] = S["shortCut"][n + 1]
        /\ IF splitter = "getMeta" THEN lo["isLookUp"] = n
           ELSE /\ n + 1 \in 1 .. N /\ lo["isLookUp"] = n + 1
                /\ splitter = (IF p[n + 1].lookup THEN "revRsp" ELSE "shortCut")

AtIp(lo, hi) == lo["ipTuple"] = lo["ipMeta"] /\ hi["ipHeader"] = lo["ipMeta"]

\* pseudoHeaderConstruction has taken the meta data of n packets.
AtHeader(N, p, S, lo, hi) ==
    LET n == lo["tcpMeta"]
    IN  /\ n \in 0 .. N /\ lo["tcpTuple"] = n
        /\ \/ header = [word |-> 0] /\ hi["tcpHeader"] = S["tcpHeader"][n + 1]
           \/ /\ n \in 1 .. N
              /\ \E i \in 1 .. HeaderSize(p[n]) - 1 :
                    /\ header = [word |-> i, meta |-> MetaOf(p[n], n), tuple |-> p[n].tuple]
                    /\ hi["tcpHeader"] = S["tcpHeader"][n] + i

\* txEngMemAccessBreakdown has taken the accesses of b packets.
AtBreakdown(N, p, S, lo, hi, b) ==
    /\ b \in 0 .. N
    /\ lo["readCmd"] = S["readCmd"][b + 1] /\ hi["accessFlag"] = S["readCmd"][b + 1]
    /\ \/ breakdown = NoAccess /\ hi["memCmd"] = S["memCmd"][b + 1]
       \/ /\ b \in 1 .. N /\ p[b].first # 0 /\ p[b].second # 0
          /\ breakdown = [pkt |-> b, words |-> p[b].second]
          /\ hi["memCmd"] = S["memCmd"][b] + 1

\* The memory has answered for the packets before m, or for the first access of m.
AtMemory(N, p, S, lo, hi, m) ==
    /\ m \in 1 .. N + 1
    /\ \/ lo["memCmd"] = S["memCmd"][m] /\ hi["memData"] = S["memData"][m]
       \/ /\ m \in 1 .. N /\ p[m].first # 0 /\ p[m].second # 0
          /\ lo["memCmd"] = S["memCmd"][m] + 1
          /\ hi["memData"] = S["memData"][m] + p[m].first

\* tcpPkgStitcher has put j words of packet t.
AtStitcher(N, p, S, lo, hi, t, j) ==
    /\ t \in 1 .. N + 1 /\ j \in Nat
    /\ lo["tcpHeader"] = S["tcpHeader"][t] + (IF j <= 3 THEN j ELSE 3)
    /\ hi["tcpPkg1"] = S["tcpPkg1"][t] + j
    /\ lo["accessFlag"] = S["readCmd"][t] + (IF j <= 3 THEN 0 ELSE 1)
    /\ lo["memData"] = S["memData"][t] + (IF j <= 3 THEN 0 ELSE j - 3)
    /\ stitch = [state |-> stitch.state, flag |-> stitch.flag, word |-> IF j < 3 THEN j ELSE 0]
    /\ \/ stitch.state = "header" /\ j < 3 /\ (j # 0 => t \in 1 .. N)
       \/ stitch.state = "option" /\ j = 3 /\ t \in 1 .. N /\ p[t].syn
       \/ /\ stitch.state = "data" /\ j >= 3 /\ t \in 1 .. N /\ ~p[t].syn
          /\ j - 3 < p[t].first + p[t].second
          /\ stitch.flag = (IF j = 3 THEN Unread
                            ELSE IF p[t].second # 0 /\ j - 3 < p[t].first THEN 1 ELSE 0)

\* tx_compute_tcp_subchecksums has summed up the packets before n, and
\* summed.words words of packet n.
AtSum(N, p, S, lo, hi) ==
    LET n == hi["subSums"] + 1
        k == summed.words
    IN  /\ n \in 1 .. N + 1
        /\ lo["tcpPkg1"] = S["tcpPkg1"][n] + k
        /\ hi["tcpPkg2"] = S["tcpPkg2"][n] + (IF k = 0 THEN 0 ELSE k - 1)
        /\ \/ summed = NoWords
           \/ /\ n \in 1 .. N /\ k \in 1 .. PacketSize(p[n]) - 1
              /\ summed = [pkts |-> {n}, words |-> k]

AtChecksum(lo, hi) == hi["checksum"] = lo["subSums"]

\* pkgStitcher has put out.words words of the packet that leaves next.
AtOut(N, p, S, lo) ==
    LET n == Len(delivered) + 1
        k == out.words
    IN  /\ n \in 1 .. N + 1
        /\ lo["tcpPkg2"] = S["tcpPkg2"][n] + k
        /\ lo["ipHeader"] = n - 1 + (IF k = 0 THEN 0 ELSE 1)
        /\ lo["checksum"] = n - 1 + (IF k <= 1 THEN 0 ELSE 1)
        /\ \/ out = NoOut
           \/ /\ n \in 1 .. N /\ k \in 1 .. PacketSize(p[n]) - 2
              /\ out = [state |-> IF k = 1 THEN "checksum" ELSE "rest", pkts |-> {n},
                        tuples |-> {p[n].tuple}, words |-> k,
                        sum |-> IF k = 1 THEN NoWords ELSE PacketSum(p[n], n)]

\* The packet as it has to leave.
WholeOf(pl, n) ==
    [pkts |-> {n}, tuples |-> {pl.tuple}, words |-> PacketSize(pl) - 1, sum |-> PacketSum(pl, n)]

Packets == [pkts : SUBSET Nat, tuples : SUBSET Tuples, words : Nat,
            sum : [pkts : SUBSET Nat, words : Nat]]

AtEnds(N, p) ==
    /\ accepted \in Seq(Packets) /\ Len(accepted) = N /\ delivered \in Seq(Packets)
    /\ \A n \in 1 .. N : accepted[n] = WholeOf(p[n], n)

\* metaLoader, and the answers of the tables it has asked.
AtAnswers ==
    \/ ml = MlIdle /\ \A s \in Answers : q[s] = << >>
    \/ /\ ml = [state |-> "event", ev |-> ml.ev, asked |-> ml.asked, sars |-> ml.sars,
                count |-> ml.count]
       /\ ml.ev \in Event /\ ml.asked \subseteq Answers
       /\ ml.sars \subseteq {ml.ev.session}
       /\ Stray(ml.ev) => ml.asked = {} /\ ml.sars = {}
       /\ \A s \in Answers : q[s] = (IF s \in ml.asked THEN << ml.ev.session >> ELSE << >>)

Functions(N, p, S, lo, hi, b, m, t, j) ==
    /\ AtReverse(lo, hi) /\ AtSplitter(N, p, S, lo, hi) /\ AtIp(lo, hi)
    /\ AtHeader(N, p, S, lo, hi) /\ AtBreakdown(N, p, S, lo, hi, b)
    /\ AtMemory(N, p, S, lo, hi, m) /\ AtStitcher(N, p, S, lo, hi, t, j)
    /\ AtSum(N, p, S, lo, hi) /\ AtChecksum(lo, hi) /\ AtOut(N, p, S, lo)

InFlow(N, p, S, I, lo, hi, b, m, t, j) ==
    /\ N \in Nat /\ History(N, p, S, I) /\ Windows(N, S, I, lo, hi)
    /\ AtLoader(N, S, hi) /\ Functions(N, p, S, lo, hi, b, m, t, j)
    /\ AtEnds(N, p) /\ AtAnswers

Flow == \E N, p, S, I, lo, hi, b, m, t, j : InFlow(N, p, S, I, lo, hi, b, m, t, j)

-----------------------------------------------------------------------------
(***************************************************************************)
(* A function that does nothing is where it was, also when more packets    *)
(* have been accepted.                                                     *)
(***************************************************************************)
Longer(N, p, S, N2, p2, S2) ==
    /\ N \in Nat /\ N2 \in Nat /\ N <= N2
    /\ \A n \in 1 .. N : p2[n] = p[n]
    /\ \A s \in PipeStreams : \A n \in 1 .. N + 1 : S2[s][n] = S[s][n]

Kept(f, g, X) == \A s \in X : g[s] = f[s]

LEMMA SameReverse ==
    ASSUME NEW lo, NEW hi, NEW lo2, NEW hi2, AtReverse(lo, hi),
           Kept(lo, lo2, {"revReq"}), Kept(hi, hi2, {"revRsp"})
    PROVE  AtReverse(lo2, hi2)'
BY DEF AtReverse, Kept

LEMMA SameIp ==
    ASSUME NEW lo, NEW hi, NEW lo2, NEW hi2, AtIp(lo, hi),
           Kept(lo, lo2, {"ipTuple", "ipMeta"}), Kept(hi, hi2, {"ipHeader"})
    PROVE  AtIp(lo2, hi2)'
BY DEF AtIp, Kept

LEMMA SameChecksum ==
    ASSUME NEW lo, NEW hi, NEW lo2, NEW hi2, AtChecksum(lo, hi),
           Kept(lo, lo2, {"subSums"}), Kept(hi, hi2, {"checksum"})
    PROVE  AtChecksum(lo2, hi2)'
BY DEF AtChecksum, Kept

LEMMA SameSplitter ==
    ASSUME NEW N, NEW p, NEW S, NEW N2, NEW p2, NEW S2, Longer(N, p, S, N2, p2, S2),
           NEW lo, NEW hi, NEW lo2, NEW hi2, AtSplitter(N, p, S, lo, hi), splitter' = splitter,
           Kept(lo, lo2, {"isLookUp", "revRsp", "shortCut"}),
           Kept(hi, hi2, {"ipTuple", "tcpTuple"})
    PROVE  AtSplitter(N2, p2, S2, lo2, hi2)'
<1> DEFINE n == hi["ipTuple"]
<1>1. /\ lo2["isLookUp"] = lo["isLookUp"] /\ lo2["revRsp"] = lo["revRsp"]
      /\ lo2["shortCut"] = lo["shortCut"] /\ hi2["ipTuple"] = n /\ hi2["tcpTuple"] = hi["tcpTuple"]
  BY DEF Kept
<1>2. n \in 0 .. N /\ N \in Nat /\ N2 \in Nat /\ N <= N2  BY DEF AtSplitter, Longer
<1>3. n \in 0 .. N2 /\ n + 1 \in 1 .. N + 1 /\ (n + 1 \in 1 .. N => n + 1 \in 1 .. N2)  BY <1>2
<1>4. S2["revRsp"][n + 1] = S["revRsp"][n + 1] /\ S2["shortCut"][n + 1] = S["shortCut"][n + 1]
  BY <1>3 DEF Longer, PipeStreams
<1>5. n + 1 \in 1 .. N => p2[n + 1] = p[n + 1]  BY DEF Longer
<1> QED  BY <1>1, <1>3, <1>4, <1>5 DEF AtSplitter

LEMMA SameHeader ==
    ASSUME NEW N, NEW p, NEW S, NEW N2, NEW p2, NEW S2, Longer(N, p, S, N2, p2, S2),
           NEW lo, NEW hi, NEW lo2, NEW hi2, AtHeader(N, p, S, lo, hi), header' = header,
           Kept(lo, lo2, {"tcpMeta", "tcpTuple"}), Kept(hi, hi2, {"tcpHeader"})
    PROVE  AtHeader(N2, p2, S2, lo2, hi2)'
<1> DEFINE n == lo["tcpMeta"]
<1>1. /\ lo2["tcpMeta"] = n /\ lo2["tcpTuple"] = lo["tcpTuple"]
      /\ hi2["tcpHeader"] = hi["tcpHeader"]
  BY DEF Kept
<1>2. n \in 0 .. N /\ N \in Nat /\ N2 \in Nat /\ N <= N2  BY DEF AtHeader, Longer
<1>3. n \in 0 .. N2 /\ n + 1 \in 1 .. N + 1 /\ (n \in 1 .. N => n \in 1 .. N2 /\ n \in 1 .. N + 1)
  BY <1>2
<1>4. S2["tcpHeader"][n + 1] = S["tcpHeader"][n + 1]
      /\ (n \in 1 .. N => S2["tcpHeader"][n] = S["tcpHeader"][n] /\ p2[n] = p[n])
  BY <1>3 DEF Longer, PipeStreams
<1> QED  BY <1>1, <1>3, <1>4 DEF AtHeader

LEMMA SameBreakdown ==
    ASSUME NEW N, NEW p, NEW S, NEW N2, NEW p2, NEW S2, Longer(N, p, S, N2, p2, S2),
           NEW lo, NEW hi, NEW lo2, NEW hi2, NEW b, AtBreakdown(N, p, S, lo, hi, b),
           breakdown' = breakdown,
           Kept(lo, lo2, {"readCmd"}), Kept(hi, hi2, {"accessFlag", "memCmd"})
    PROVE  AtBreakdown(N2, p2, S2, lo2, hi2, b)'
<1>1. /\ lo2["readCmd"] = lo["readCmd"] /\ hi2["accessFlag"] = hi["accessFlag"]
      /\ hi2["memCmd"] = hi["memCmd"]
  BY DEF Kept
<1>2. b \in 0 .. N /\ N \in Nat /\ N2 \in Nat /\ N <= N2  BY DEF AtBreakdown, Longer
<1>3. b \in 0 .. N2 /\ b + 1 \in 1 .. N + 1 /\ (b \in 1 .. N => b \in 1 .. N2 /\ b \in 1 .. N + 1)
  BY <1>2
<1>4. /\ S2["readCmd"][b + 1] = S["readCmd"][b + 1] /\ S2["memCmd"][b + 1] = S["memCmd"][b + 1]
      /\ b \in 1 .. N => S2["memCmd"][b] = S["memCmd"][b] /\ p2[b] = p[b]
  BY <1>3 DEF Longer, PipeStreams
<1> QED  BY <1>1, <1>3, <1>4 DEF AtBreakdown

LEMMA SameMemory ==
    ASSUME NEW N, NEW p, NEW S, NEW N2, NEW p2, NEW S2, Longer(N, p, S, N2, p2, S2),
           NEW lo, NEW hi, NEW lo2, NEW hi2, NEW m, AtMemory(N, p, S, lo, hi, m),
           Kept(lo, lo2, {"memCmd"}), Kept(hi, hi2, {"memData"})
    PROVE  AtMemory(N2, p2, S2, lo2, hi2, m)'
<1>1. lo2["memCmd"] = lo["memCmd"] /\ hi2["memData"] = hi["memData"]  BY DEF Kept
<1>2. m \in 1 .. N + 1 /\ N \in Nat /\ N2 \in Nat /\ N <= N2  BY DEF AtMemory, Longer
<1>3. m \in 1 .. N2 + 1 /\ (m \in 1 .. N => m \in 1 .. N2)  BY <1>2
<1>4. /\ S2["memCmd"][m] = S["memCmd"][m] /\ S2["memData"][m] = S["memData"][m]
      /\ m \in 1 .. N => p2[m] = p[m]
  BY <1>2 DEF Longer, PipeStreams
<1> QED  BY <1>1, <1>3, <1>4 DEF AtMemory

LEMMA SameStitcher ==
    ASSUME NEW N, NEW p, NEW S, NEW N2, NEW p2, NEW S2, Longer(N, p, S, N2, p2, S2),
           NEW lo, NEW hi, NEW lo2, NEW hi2, NEW t, NEW j,
           AtStitcher(N, p, S, lo, hi, t, j), stitch' = stitch,
           Kept(lo, lo2, {"tcpHeader", "accessFlag", "memData"}), Kept(hi, hi2, {"tcpPkg1"})
    PROVE  AtStitcher(N2, p2, S2, lo2, hi2, t, j)'
<1>1. /\ lo2["tcpHeader"] = lo["tcpHeader"] /\ lo2["accessFlag"] = lo["accessFlag"]
      /\ lo2["memData"] = lo["memData"] /\ hi2["tcpPkg1"] = hi["tcpPkg1"]
  BY DEF Kept
<1>2. t \in 1 .. N + 1 /\ N \in Nat /\ N2 \in Nat /\ N <= N2  BY DEF AtStitcher, Longer
<1>3. t \in 1 .. N2 + 1 /\ (t \in 1 .. N => t \in 1 .. N2)  BY <1>2
<1>4. /\ S2["tcpHeader"][t] = S["tcpHeader"][t] /\ S2["tcpPkg1"][t] = S["tcpPkg1"][t]
      /\ S2["readCmd"][t] = S["readCmd"][t] /\ S2["memData"][t] = S["memData"][t]
      /\ t \in 1 .. N => p2[t] = p[t]
  BY <1>2 DEF Longer, PipeStreams
<1> QED  BY <1>1, <1>3, <1>4 DEF AtStitcher

LEMMA SameSum ==
    ASSUME NEW N, NEW p, NEW S, NEW N2, NEW p2, NEW S2, Longer(N, p, S, N2, p2, S2),
           NEW lo, NEW hi, NEW lo2, NEW hi2, AtSum(N, p, S, lo, hi), summed' = summed,
           Kept(lo, lo2, {"tcpPkg1"}), Kept(hi, hi2, {"tcpPkg2", "subSums"})
    PROVE  AtSum(N2, p2, S2, lo2, hi2)'
<1> DEFINE n == hi["subSums"] + 1
<1>1. /\ lo2["tcpPkg1"] = lo["tcpPkg1"] /\ hi2["tcpPkg2"] = hi["tcpPkg2"]
      /\ hi2["subSums"] = hi["subSums"]
  BY DEF Kept
<1>2. n \in 1 .. N + 1 /\ N \in Nat /\ N2 \in Nat /\ N <= N2  BY DEF AtSum, Longer
<1> HIDE DEF n
<1>3. n \in 1 .. N2 + 1 /\ (n \in 1 .. N => n \in 1 .. N2)  BY <1>2
<1>4. /\ S2["tcpPkg1"][n] = S["tcpPkg1"][n] /\ S2["tcpPkg2"][n] = S["tcpPkg2"][n]
      /\ n \in 1 .. N => p2[n] = p[n]
  BY <1>2 DEF Longer, PipeStreams
<1> QED  BY <1>1, <1>3, <1>4 DEF AtSum, n

LEMMA SameOut ==
    ASSUME NEW N, NEW p, NEW S, NEW N2, NEW p2, NEW S2, Longer(N, p, S, N2, p2, S2),
           NEW lo, NEW lo2, AtOut(N, p, S, lo), out' = out, delivered' = delivered,
           Kept(lo, lo2, {"tcpPkg2", "ipHeader", "checksum"})
    PROVE  AtOut(N2, p2, S2, lo2)'
<1> DEFINE n == Len(delivered) + 1
<1>1. /\ lo2["tcpPkg2"] = lo["tcpPkg2"] /\ lo2["ipHeader"] = lo["ipHeader"]
      /\ lo2["checksum"] = lo["checksum"]
  BY DEF Kept
<1>2. n \in 1 .. N + 1 /\ N \in Nat /\ N2 \in Nat /\ N <= N2  BY DEF AtOut, Longer
<1> HIDE DEF n
<1>3. n \in 1 .. N2 + 1 /\ (n \in 1 .. N => n \in 1 .. N2)  BY <1>2
<1>4. S2["tcpPkg2"][n] = S["tcpPkg2"][n] /\ (n \in 1 .. N => p2[n] = p[n])
  BY <1>2 DEF Longer, PipeStreams
<1> QED  BY <1>1, <1>3, <1>4 DEF AtOut, n

\* The functions whose streams are not in R and in P.
Elsewhere(N, p, S, lo2, hi2, b, m, t, j, R, P) ==
    /\ "revReq" \notin R /\ "revRsp" \notin P => AtReverse(lo2, hi2)'
    /\ R \cap {"isLookUp", "revRsp", "shortCut"} = {}
          /\ P \cap {"ipTuple", "tcpTuple"} = {} /\ splitter' = splitter
       => AtSplitter(N, p, S, lo2, hi2)'
    /\ R \cap {"ipTuple", "ipMeta"} = {} /\ "ipHeader" \notin P => AtIp(lo2, hi2)'
    /\ R \cap {"tcpMeta", "tcpTuple"} = {} /\ "tcpHeader" \notin P /\ header' = header
       => AtHeader(N, p, S, lo2, hi2)'
    /\ "readCmd" \notin R /\ P \cap {"accessFlag", "memCmd"} = {}
          /\ breakdown' = breakdown
       => AtBreakdown(N, p, S, lo2, hi2, b)'
    /\ "memCmd" \notin R /\ "memData" \notin P => AtMemory(N, p, S, lo2, hi2, m)'
    /\ R \cap {"tcpHeader", "accessFlag", "memData"} = {} /\ "tcpPkg1" \notin P
          /\ stitch' = stitch
       => AtStitcher(N, p, S, lo2, hi2, t, j)'
    /\ "tcpPkg1" \notin R /\ P \cap {"tcpPkg2", "subSums"} = {} /\ summed' = summed
       => AtSum(N, p, S, lo2, hi2)'
    /\ "subSums" \notin R /\ "checksum" \notin P => AtChecksum(lo2, hi2)'
    /\ R \cap {"tcpPkg2", "ipHeader", "checksum"} = {} /\ out' = out
          /\ delivered' = delivered
       => AtOut(N, p, S, lo2)'

LEMMA Others ==
    ASSUME NEW N \in Nat, NEW p, NEW S, NEW lo, NEW hi, NEW b, NEW m, NEW t, NEW j,
           Functions(N, p, S, lo, hi, b, m, t, j), NEW R, NEW P,
           NEW lo2, NEW hi2, Kept(lo, lo2, PipeStreams \ R), Kept(hi, hi2, PipeStreams \ P),
           NEW N2, NEW p2, NEW S2, Longer(N, p, S, N2, p2, S2)
    PROVE  Elsewhere(N2, p2, S2, lo2, hi2, b, m, t, j, R, P)
<1>0. Longer(N, p, S, N2, p2, S2)  OBVIOUS
<1>1. ASSUME NEW X \in SUBSET PipeStreams, R \cap X = {} PROVE Kept(lo, lo2, X)
  BY <1>1 DEF Kept
<1>2. ASSUME NEW X \in SUBSET PipeStreams, P \cap X = {} PROVE Kept(hi, hi2, X)
  BY <1>2 DEF Kept
<1>3. ASSUME "revReq" \notin R, "revRsp" \notin P PROVE AtReverse(lo2, hi2)'
  <2>1. Kept(lo, lo2, {"revReq"}) /\ Kept(hi, hi2, {"revRsp"})
    BY <1>1, <1>2, <1>3 DEF PipeStreams
  <2> QED  BY <2>1, SameReverse DEF Functions
<1>4. ASSUME R \cap {"isLookUp", "revRsp", "shortCut"} = {},
             P \cap {"ipTuple", "tcpTuple"} = {}, splitter' = splitter
      PROVE  AtSplitter(N2, p2, S2, lo2, hi2)'
  <2>1. Kept(lo, lo2, {"isLookUp", "revRsp", "shortCut"}) /\ Kept(hi, hi2, {"ipTuple", "tcpTuple"})
    BY <1>1, <1>2, <1>4 DEF PipeStreams
  <2> QED  BY <1>0, <1>4, <2>1, SameSplitter DEF Functions
<1>5. ASSUME R \cap {"ipTuple", "ipMeta"} = {}, "ipHeader" \notin P PROVE AtIp(lo2, hi2)'
  <2>1. Kept(lo, lo2, {"ipTuple", "ipMeta"}) /\ Kept(hi, hi2, {"ipHeader"})
    BY <1>1, <1>2, <1>5 DEF PipeStreams
  <2> QED  BY <2>1, SameIp DEF Functions
<1>6. ASSUME R \cap {"tcpMeta", "tcpTuple"} = {}, "tcpHeader" \notin P, header' = header
      PROVE  AtHeader(N2, p2, S2, lo2, hi2)'
  <2>1. Kept(lo, lo2, {"tcpMeta", "tcpTuple"}) /\ Kept(hi, hi2, {"tcpHeader"})
    BY <1>1, <1>2, <1>6 DEF PipeStreams
  <2> QED  BY <1>0, <1>6, <2>1, SameHeader DEF Functions
<1>7. ASSUME "readCmd" \notin R, P \cap {"accessFlag", "memCmd"} = {}, breakdown' = breakdown
      PROVE  AtBreakdown(N2, p2, S2, lo2, hi2, b)'
  <2>1. Kept(lo, lo2, {"readCmd"}) /\ Kept(hi, hi2, {"accessFlag", "memCmd"})
    BY <1>1, <1>2, <1>7 DEF PipeStreams
  <2> QED  BY <1>0, <1>7, <2>1, SameBreakdown DEF Functions
<1>8. ASSUME "memCmd" \notin R, "memData" \notin P PROVE AtMemory(N2, p2, S2, lo2, hi2, m)'
  <2>1. Kept(lo, lo2, {"memCmd"}) /\ Kept(hi, hi2, {"memData"})
    BY <1>1, <1>2, <1>8 DEF PipeStreams
  <2> QED  BY <1>0, <2>1, SameMemory DEF Functions
<1>9. ASSUME R \cap {"tcpHeader", "accessFlag", "memData"} = {}, "tcpPkg1" \notin P,
             stitch' = stitch
      PROVE  AtStitcher(N2, p2, S2, lo2, hi2, t, j)'
  <2>1. Kept(lo, lo2, {"tcpHeader", "accessFlag", "memData"}) /\ Kept(hi, hi2, {"tcpPkg1"})
    BY <1>1, <1>2, <1>9 DEF PipeStreams
  <2> QED  BY <1>0, <1>9, <2>1, SameStitcher DEF Functions
<1>10. ASSUME "tcpPkg1" \notin R, P \cap {"tcpPkg2", "subSums"} = {}, summed' = summed
       PROVE  AtSum(N2, p2, S2, lo2, hi2)'
  <2>1. Kept(lo, lo2, {"tcpPkg1"}) /\ Kept(hi, hi2, {"tcpPkg2", "subSums"})
    BY <1>1, <1>2, <1>10 DEF PipeStreams
  <2> QED  BY <1>0, <1>10, <2>1, SameSum DEF Functions
<1>11. ASSUME "subSums" \notin R, "checksum" \notin P PROVE AtChecksum(lo2, hi2)'
  <2>1. Kept(lo, lo2, {"subSums"}) /\ Kept(hi, hi2, {"checksum"})
    BY <1>1, <1>2, <1>11 DEF PipeStreams
  <2> QED  BY <2>1, SameChecksum DEF Functions
<1>12. ASSUME R \cap {"tcpPkg2", "ipHeader", "checksum"} = {}, out' = out,
              delivered' = delivered
       PROVE  AtOut(N2, p2, S2, lo2)'
  <2>1. Kept(lo, lo2, {"tcpPkg2", "ipHeader", "checksum"})
    BY <1>1, <1>12 DEF PipeStreams
  <2> QED  BY <1>0, <1>12, <2>1, SameOut DEF Functions
<1> QED
  BY <1>3, <1>4, <1>5, <1>6, <1>7, <1>8, <1>9, <1>10, <1>11, <1>12 DEF Elsewhere

LEMMA MovedKept == ASSUME NEW f, NEW X PROVE Kept(f, Moved(f, X), PipeStreams \ X)
BY DEF Kept, Moved

LEMMA OthersMoved ==
    ASSUME NEW N \in Nat, NEW p, NEW S, NEW lo, NEW hi, NEW b, NEW m, NEW t, NEW j,
           Functions(N, p, S, lo, hi, b, m, t, j), NEW R, NEW P
    PROVE  Elsewhere(N, p, S, Moved(lo, R), Moved(hi, P), b, m, t, j, R, P)
<1>1. Kept(lo, Moved(lo, R), PipeStreams \ R) /\ Kept(hi, Moved(hi, P), PipeStreams \ P)
  BY MovedKept
<1>2. Longer(N, p, S, N, p, S)  BY DEF Longer
<1> QED  BY <1>1, <1>2, Others

LEMMA AnswersKept ==
    ASSUME AtAnswers, NEW R, NEW W, Transfer(R, W), R \cap Answers = {},
           DOMAIN W \cap Answers = {}
    PROVE  \A s \in Answers : q'[s] = q[s]
<1> TAKE s \in Answers
<1>1. s \notin R /\ s \notin DOMAIN W /\ s \in Names  BY TxPathAssumption DEF Answers
<1>2. PICK T : q[s] \in Seq(T)
  <2>1. q[s] = << >> \/ q[s] = << ml.ev.session >>  BY DEF AtAnswers
  <2>2. << >> \in Seq({ml.ev.session}) /\ << ml.ev.session >> \in Seq({ml.ev.session})
    OBVIOUS
  <2> QED  BY <2>1, <2>2
<1> QED  BY <1>1, <1>2, TransferEffect

LEMMA FlowsOn ==
    ASSUME NEW N, NEW p, NEW S, NEW I, NEW lo, NEW hi, NEW b, NEW m, NEW t, NEW j,
           InFlow(N, p, S, I, lo, hi, b, m, t, j),
           NEW lo2, NEW hi2, Windows(N, S, I, lo2, hi2)',
           Kept(hi, hi2, MlStreams), \A s \in Answers : q'[s] = q[s],
           NEW b2, NEW m2, NEW t2, NEW j2, Functions(N, p, S, lo2, hi2, b2, m2, t2, j2)',
           ml' = ml, accepted' = accepted, delivered' \in Seq(Packets)
    PROVE  Flow'
<1>1. /\ N \in Nat /\ History(N, p, S, I) /\ AtLoader(N, S, hi) /\ AtEnds(N, p) /\ AtAnswers
  BY DEF InFlow
<1>2. AtLoader(N, S, hi2)  BY <1>1 DEF AtLoader, Kept
<1>3. AtEnds(N, p)'  BY <1>1 DEF AtEnds
<1>4. AtAnswers'  BY <1>1 DEF AtAnswers, Stray
<1>5. InFlow(N, p, S, I, lo2, hi2, b2, m2, t2, j2)'
  BY <1>1, <1>2, <1>3, <1>4 DEF InFlow
<1> QED  BY <1>5 DEF Flow

\* A step of a function of the pipe.
LEMMA PipeStep ==
    ASSUME NEW N, NEW p, NEW S, NEW I, NEW lo, NEW hi, NEW b, NEW m, NEW t, NEW j,
           InFlow(N, p, S, I, lo, hi, b, m, t, j),
           NEW R, NEW W, Transfer(R, W), R \subseteq PipeStreams,
           NEW P, P \subseteq DOMAIN W, DOMAIN W \subseteq PipeStreams \ MlStreams,
           \A s \in P : W[s] = << I[s][hi[s] + 1] >> /\ hi[s] + 1 <= S[s][N + 1],
           \A s \in DOMAIN W \ P : W[s] = << >>,
           NEW b2, NEW m2, NEW t2, NEW j2,
           Functions(N, p, S, Moved(lo, R), Moved(hi, P), b2, m2, t2, j2)',
           ml' = ml, accepted' = accepted, delivered' \in Seq(Packets)
    PROVE  Flow'
<1> DEFINE lo2 == Moved(lo, R)
           hi2 == Moved(hi, P)
<1>1. Windows(N, S, I, lo2, hi2)'
  <2>1. \A s \in PipeStreams \cap P :
           /\ s \in DOMAIN W /\ W[s] = << I[s][hi[s] + 1] >>
           /\ hi[s] + 1 <= S[s][N + 1]
    OBVIOUS
  <2>2. \A s \in PipeStreams \ P : s \in DOMAIN W => W[s] = << >>  OBVIOUS
  <2>3. Windows(N, S, I, lo, hi)  BY DEF InFlow
  <2> QED  BY <2>1, <2>2, <2>3, Move
<1>2. Kept(hi, hi2, MlStreams)
  <2>1. MlStreams \subseteq PipeStreams \ P
    <3>1. MlStreams \subseteq PipeStreams  BY DEF MlStreams, PipeStreams
    <3> QED  BY <3>1
  <2> QED  BY <2>1, MovedKept DEF Kept
<1>3. \A s \in Answers : q'[s] = q[s]
  <2>1. PipeStreams \cap Answers = {}  BY DEF PipeStreams, Answers
  <2>2. R \cap Answers = {} /\ DOMAIN W \cap Answers = {}  BY <2>1
  <2> QED  BY <2>2, AnswersKept DEF InFlow
<1>4. Functions(N, p, S, lo2, hi2, b2, m2, t2, j2)'  OBVIOUS
<1> HIDE DEF lo2, hi2
<1> QED  BY <1>1, <1>2, <1>3, <1>4, FlowsOn

\* What is known of every stream.
LEMMA StreamFacts ==
    ASSUME NEW N, NEW p, NEW S, NEW I, NEW lo, NEW hi, NEW b, NEW m, NEW t, NEW j,
           InFlow(N, p, S, I, lo, hi, b, m, t, j)
    PROVE  /\ N \in Nat
           /\ \A s \in PipeStreams :
                 /\ lo[s] \in Nat /\ hi[s] \in Nat /\ lo[s] <= hi[s] /\ hi[s] <= S[s][N + 1]
                 /\ Has(s) => lo[s] < hi[s] /\ Front(s) = I[s][lo[s] + 1]
                 /\ \A n \in 1 .. N + 1 : S[s][n] \in Nat /\ S[s][n] <= S[s][N + 1]
                 /\ \A n \in 1 .. N :
                       /\ S[s][n + 1] = S[s][n] + Len(Content(p[n], n)[s])
                       /\ \A k \in 1 .. Len(Content(p[n], n)[s]) :
                             I[s][S[s][n] + k] = Content(p[n], n)[s][k]
           /\ \A n \in 1 .. N : p[n] \in Plan
           /\ \A s \in Single : hi[s] <= N /\ \A n \in 1 .. N : I[s][n] = Content(p[n], n)[s][1]
           /\ Functions(N, p, S, lo, hi, b, m, t, j)
<1>1. N \in Nat /\ History(N, p, S, I) /\ Windows(N, S, I, lo, hi)
      /\ Functions(N, p, S, lo, hi, b, m, t, j)
  BY DEF InFlow
<1>2. ASSUME NEW s \in PipeStreams
      PROVE  /\ lo[s] \in Nat /\ hi[s] \in Nat /\ lo[s] <= hi[s] /\ hi[s] <= S[s][N + 1]
             /\ Has(s) => lo[s] < hi[s] /\ Front(s) = I[s][lo[s] + 1]
             /\ \A n \in 1 .. N + 1 : S[s][n] \in Nat /\ S[s][n] <= S[s][N + 1]
             /\ \A n \in 1 .. N :
                   /\ S[s][n + 1] = S[s][n] + Len(Content(p[n], n)[s])
                   /\ \A k \in 1 .. Len(Content(p[n], n)[s]) :
                         I[s][S[s][n] + k] = Content(p[n], n)[s][k]
  BY <1>1, HistoryFacts, FrontIs
<1>3. \A n \in 1 .. N : p[n] \in Plan  BY <1>1 DEF History
<1>4. ASSUME NEW s \in Single
      PROVE  hi[s] <= N /\ \A n \in 1 .. N : I[s][n] = Content(p[n], n)[s][1]
  <2>1. s \in PipeStreams  BY DEF Single, PipeStreams
  <2>2. \A n \in 1 .. N + 1 : S[s][n] = n - 1  BY <1>1 DEF History
  <2>3. N + 1 \in 1 .. N + 1 /\ (N + 1) - 1 = N  BY <1>1
  <2>4. hi[s] <= N  BY <1>2, <2>1, <2>2, <2>3
  <2>5. ASSUME NEW n \in 1 .. N PROVE I[s][n] = Content(p[n], n)[s][1]
    <3>1. Len(Content(p[n], n)[s]) = 1  BY <1>3, Sizes
    <3>2. n \in 1 .. N + 1 /\ n - 1 + 1 = n /\ 1 \in 1 .. 1  BY <1>1
    <3>3. I[s][S[s][n] + 1] = Content(p[n], n)[s][1]  BY <1>2, <2>1, <3>1, <3>2
    <3>4. S[s][n] + 1 = n  BY <2>2, <3>2
    <3> QED  BY <3>3, <3>4
  <2> QED  BY <2>4, <2>5
<1> QED  BY <1>1, <1>2, <1>3, <1>4

\* The values of packet n.
LEMMA ItemAt ==
    ASSUME NEW N, NEW p, NEW S, NEW I, NEW lo, NEW hi, NEW b, NEW m, NEW t, NEW j,
           InFlow(N, p, S, I, lo, hi, b, m, t, j), NEW s \in PipeStreams, NEW n \in 1 .. N
    PROVE  /\ N \in Nat /\ p[n] \in Plan /\ Len(Content(p[n], n)[s]) \in Nat
           /\ S[s][n] \in Nat /\ S[s][n + 1] = S[s][n] + Len(Content(p[n], n)[s])
           /\ \A k \in 1 .. Len(Content(p[n], n)[s]) :
                 /\ I[s][S[s][n] + k] = Content(p[n], n)[s][k]
                 /\ S[s][n] + k <= S[s][N + 1]
<1>1. N \in Nat /\ p[n] \in Plan  BY StreamFacts
<1>2. n \in 1 .. N + 1 /\ n + 1 \in 1 .. N + 1 /\ N + 1 \in 1 .. N + 1  BY <1>1
<1>3. Len(Content(p[n], n)[s]) \in Nat  BY <1>1, SizesNat
<1>4. S[s][n] \in Nat /\ S[s][n + 1] <= S[s][N + 1] /\ S[s][N + 1] \in Nat
  BY <1>2, StreamFacts
<1>5. S[s][n + 1] = S[s][n] + Len(Content(p[n], n)[s])  BY StreamFacts
<1>6. ASSUME NEW k \in 1 .. Len(Content(p[n], n)[s])
      PROVE  /\ I[s][S[s][n] + k] = Content(p[n], n)[s][k]
             /\ S[s][n] + k <= S[s][N + 1]
  <2>1. I[s][S[s][n] + k] = Content(p[n], n)[s][k]  BY StreamFacts
  <2> DEFINE a == S[s][n]
             c == S[s][N + 1]
             d == Len(Content(p[n], n)[s])
  <2>2. a \in Nat /\ a + d <= c /\ c \in Nat /\ d \in Nat /\ k \in 1 .. d  BY <1>3, <1>4, <1>5
  <2> HIDE DEF a, c, d
  <2>3. a + k <= c  BY <2>2
  <2> QED  BY <2>1, <2>3 DEF a, c
<1> QED  BY <1>1, <1>3, <1>4, <1>5, <1>6

LEMMA FirstItem ==
    ASSUME NEW N, NEW p, NEW S, NEW I, NEW lo, NEW hi, NEW b, NEW m, NEW t, NEW j,
           InFlow(N, p, S, I, lo, hi, b, m, t, j), NEW s \in PipeStreams, NEW n \in 1 .. N,
           Len(Content(p[n], n)[s]) = 1
    PROVE  I[s][S[s][n] + 1] = Content(p[n], n)[s][1] /\ S[s][n] + 1 <= S[s][N + 1]
<1>1. 1 \in 1 .. Len(Content(p[n], n)[s])  OBVIOUS
<1> QED  BY <1>1, ItemAt

\* A step that puts one value, or none.
LEMMA PutOne ==
    ASSUME NEW N, NEW p, NEW S, NEW I, NEW lo, NEW hi, NEW b, NEW m, NEW t, NEW j,
           InFlow(N, p, S, I, lo, hi, b, m, t, j),
           NEW R, R \subseteq PipeStreams, NEW s \in PipeStreams \ MlStreams, NEW v,
           Transfer(R, To(s, v)), v = I[s][hi[s] + 1], hi[s] + 1 <= S[s][N + 1],
           NEW b2, NEW m2, NEW t2, NEW j2,
           Functions(N, p, S, Moved(lo, R), Moved(hi, {s}), b2, m2, t2, j2)',
           ml' = ml, accepted' = accepted, delivered' = delivered
    PROVE  Flow'
<1> DEFINE W == To(s, v)
           P == {s}
<1>1. DOMAIN W = P /\ W[s] = << v >>  BY ToFacts
<1>2. Transfer(R, W) /\ Functions(N, p, S, Moved(lo, R), Moved(hi, P), b2, m2, t2, j2)'
  OBVIOUS
<1> HIDE DEF W
<1>3. /\ P \subseteq DOMAIN W /\ DOMAIN W \subseteq PipeStreams \ MlStreams
      /\ \A x \in DOMAIN W \ P : W[x] = << >>
      /\ \A x \in P : W[x] = << I[x][hi[x] + 1] >> /\ hi[x] + 1 <= S[x][N + 1]
  BY <1>1
<1>4. delivered' \in Seq(Packets)  BY DEF InFlow, AtEnds
<1> HIDE DEF P
<1> QED  BY <1>2, <1>3, <1>4, PipeStep

LEMMA PutNone ==
    ASSUME NEW N, NEW p, NEW S, NEW I, NEW lo, NEW hi, NEW b, NEW m, NEW t, NEW j,
           InFlow(N, p, S, I, lo, hi, b, m, t, j),
           NEW R, R \subseteq PipeStreams, Transfer(R, Silent),
           NEW b2, NEW m2, NEW t2, NEW j2,
           Functions(N, p, S, Moved(lo, R), Moved(hi, {}), b2, m2, t2, j2)',
           ml' = ml, accepted' = accepted, delivered' \in Seq(Packets)
    PROVE  Flow'
<1> DEFINE W == Silent
           P == {}
<1>1. DOMAIN W = {}  BY SilentFacts
<1>2. Transfer(R, W) /\ Functions(N, p, S, Moved(lo, R), Moved(hi, P), b2, m2, t2, j2)'
  OBVIOUS
<1> HIDE DEF W
<1>3. /\ P \subseteq DOMAIN W /\ DOMAIN W \subseteq PipeStreams \ MlStreams
      /\ \A x \in DOMAIN W \ P : W[x] = << >>
      /\ \A x \in P : W[x] = << I[x][hi[x] + 1] >> /\ hi[x] + 1 <= S[x][N + 1]
  BY <1>1
<1> HIDE DEF P
<1> QED  BY <1>2, <1>3, PipeStep

-----------------------------------------------------------------------------
(***************************************************************************)
(* The functions                                                           *)
(***************************************************************************)
LEMMA ReverseFlow ==
    ASSUME NEW N, NEW p, NEW S, NEW I, NEW lo, NEW hi, NEW b, NEW m, NEW t, NEW j,
           InFlow(N, p, S, I, lo, hi, b, m, t, j),
           ReverseLookup, ml' = ml, accepted' = accepted
    PROVE  Flow'
<1> DEFINE R == {"revReq"}
           P == {"revRsp"}
           lo2 == Moved(lo, R)
           hi2 == Moved(hi, P)
<1>1. Has("revReq") /\ Transfer(R, To("revRsp", Front("revReq"))) /\ UNCHANGED pipeVars
  BY DEF ReverseLookup
<1>2. "revReq" \in PipeStreams /\ "revRsp" \in PipeStreams \ MlStreams
  BY DEF PipeStreams, MlStreams
<1>3. hi["revRsp"] = lo["revReq"]  BY StreamFacts DEF Functions, AtReverse
<1>4. S["revRsp"] = S["revReq"] /\ I["revRsp"] = I["revReq"]  BY DEF InFlow, History
<1>5. /\ lo["revReq"] \in Nat /\ lo["revReq"] < hi["revReq"] /\ hi["revReq"] \in Nat
      /\ hi["revReq"] <= S["revReq"][N + 1] /\ Front("revReq") = I["revReq"][lo["revReq"] + 1]
      /\ S["revReq"][N + 1] \in Nat
  <2>1. N \in Nat /\ N + 1 \in 1 .. N + 1  BY StreamFacts
  <2> QED  BY <1>1, <1>2, <2>1, StreamFacts
<1>6. Front("revReq") = I["revRsp"][hi["revRsp"] + 1] /\ hi["revRsp"] + 1 <= S["revRsp"][N + 1]
  BY <1>3, <1>4, <1>5
<1>7. AtReverse(lo2, hi2)'  BY <1>2, <1>3 DEF AtReverse, Moved
<1>8. Functions(N, p, S, lo2, hi2, b, m, t, j)'
  <2>1. N \in Nat /\ Functions(N, p, S, lo, hi, b, m, t, j)  BY StreamFacts
  <2>0. Elsewhere(N, p, S, lo2, hi2, b, m, t, j, R, P)  BY StreamFacts, OthersMoved
  <2> HIDE DEF lo2, hi2
  <2> QED  BY <2>0, <1>1, <1>7, <2>1 DEF Functions, Elsewhere, pipeVars
<1> QED  BY <1>1, <1>2, <1>6, <1>8, PutOne DEF pipeVars

LEMMA ChecksumFlow ==
    ASSUME NEW N, NEW p, NEW S, NEW I, NEW lo, NEW hi, NEW b, NEW m, NEW t, NEW j,
           InFlow(N, p, S, I, lo, hi, b, m, t, j),
           Checksum, ml' = ml, accepted' = accepted
    PROVE  Flow'
<1> DEFINE R == {"subSums"}
           P == {"checksum"}
           lo2 == Moved(lo, R)
           hi2 == Moved(hi, P)
<1>1. Has("subSums") /\ Transfer(R, To("checksum", Front("subSums"))) /\ UNCHANGED pipeVars
  BY DEF Checksum
<1>2. "subSums" \in PipeStreams /\ "checksum" \in PipeStreams \ MlStreams
  BY DEF PipeStreams, MlStreams
<1>3. hi["checksum"] = lo["subSums"]  BY StreamFacts DEF Functions, AtChecksum
<1>4. I["checksum"] = I["subSums"] /\ S["checksum"][N + 1] = N
  <2>1. N + 1 \in 1 .. N + 1 /\ (N + 1) - 1 = N  BY StreamFacts
  <2> QED  BY <2>1 DEF InFlow, History, Single
<1>5. /\ lo["subSums"] \in Nat /\ lo["subSums"] < hi["subSums"] /\ hi["subSums"] \in Nat
      /\ hi["subSums"] <= N /\ Front("subSums") = I["subSums"][lo["subSums"] + 1] /\ N \in Nat
  BY <1>1, <1>2, StreamFacts DEF Single
<1>6. Front("subSums") = I["checksum"][hi["checksum"] + 1]
      /\ hi["checksum"] + 1 <= S["checksum"][N + 1]
  BY <1>3, <1>4, <1>5
<1>7. AtChecksum(lo2, hi2)'  BY <1>2, <1>3 DEF AtChecksum, Moved
<1>8. Functions(N, p, S, lo2, hi2, b, m, t, j)'
  <2>1. N \in Nat /\ Functions(N, p, S, lo, hi, b, m, t, j)  BY StreamFacts
  <2>0. Elsewhere(N, p, S, lo2, hi2, b, m, t, j, R, P)  BY StreamFacts, OthersMoved
  <2> HIDE DEF lo2, hi2
  <2> QED  BY <2>0, <1>1, <1>7, <2>1 DEF Functions, Elsewhere, pipeVars
<1> QED  BY <1>1, <1>2, <1>6, <1>8, PutOne DEF pipeVars

LEMMA IpFlow ==
    ASSUME NEW N, NEW p, NEW S, NEW I, NEW lo, NEW hi, NEW b, NEW m, NEW t, NEW j,
           InFlow(N, p, S, I, lo, hi, b, m, t, j),
           IpHeader, ml' = ml, accepted' = accepted
    PROVE  Flow'
<1> DEFINE R == {"ipMeta", "ipTuple"}
           P == {"ipHeader"}
           lo2 == Moved(lo, R)
           hi2 == Moved(hi, P)
           v == Word(Front("ipMeta"), {Front("ipTuple")}, FALSE)
           n == lo["ipMeta"] + 1
<1>1. Has("ipMeta") /\ Has("ipTuple") /\ Transfer(R, To("ipHeader", v)) /\ UNCHANGED pipeVars
  BY DEF IpHeader
<1>2. /\ "ipMeta" \in PipeStreams \cap Single /\ "ipTuple" \in PipeStreams \cap Single
      /\ "ipHeader" \in PipeStreams \ MlStreams /\ "ipHeader" \in Single
  BY DEF PipeStreams, MlStreams, Single
<1>3. lo["ipTuple"] = lo["ipMeta"] /\ hi["ipHeader"] = lo["ipMeta"]
  BY StreamFacts DEF Functions, AtIp
<1>4. S["ipHeader"][N + 1] = N /\ N \in Nat
  <2>1. N \in Nat /\ N + 1 \in 1 .. N + 1 /\ (N + 1) - 1 = N  BY StreamFacts
  <2> QED  BY <2>1 DEF InFlow, History, Single
<1>5. /\ lo["ipMeta"] \in Nat /\ lo["ipMeta"] < hi["ipMeta"] /\ hi["ipMeta"] \in Nat
      /\ hi["ipMeta"] <= N
      /\ Front("ipMeta") = I["ipMeta"][n] /\ Front("ipTuple") = I["ipTuple"][n]
  BY <1>1, <1>2, <1>3, StreamFacts
<1>6. n \in 1 .. N  BY <1>4, <1>5
<1>7. v = I["ipHeader"][hi["ipHeader"] + 1] /\ hi["ipHeader"] + 1 <= S["ipHeader"][N + 1]
  <2> HIDE DEF n
  <2>1. /\ I["ipMeta"][n] = Content(p[n], n)["ipMeta"][1]
        /\ I["ipTuple"][n] = Content(p[n], n)["ipTuple"][1]
        /\ I["ipHeader"][n] = Content(p[n], n)["ipHeader"][1]
    BY <1>2, <1>6, StreamFacts
  <2>2. /\ Content(p[n], n)["ipMeta"][1] = n /\ Content(p[n], n)["ipTuple"][1] = p[n].tuple
        /\ Content(p[n], n)["ipHeader"][1] = Word(n, {p[n].tuple}, FALSE)
    BY DEF Content
  <2>3. v = I["ipHeader"][n]  BY <1>5, <2>1, <2>2
  <2> HIDE DEF v
  <2>4. hi["ipHeader"] + 1 = n  BY <1>3 DEF n
  <2>5. n <= S["ipHeader"][N + 1]  BY <1>4, <1>6
  <2> QED  BY <2>3, <2>4, <2>5
<1>8. AtIp(lo2, hi2)'  BY <1>2, <1>3 DEF AtIp, Moved
<1>9. Functions(N, p, S, lo2, hi2, b, m, t, j)'
  <2>1. N \in Nat /\ Functions(N, p, S, lo, hi, b, m, t, j)  BY StreamFacts
  <2>2. UNCHANGED <<splitter, header, breakdown, stitch, summed, out, delivered>>
    BY <1>1 DEF pipeVars
  <2>0. Elsewhere(N, p, S, lo2, hi2, b, m, t, j, R, P)  BY StreamFacts, OthersMoved
  <2> HIDE DEF lo2, hi2
  <2> QED  BY <2>0, <1>8, <2>1, <2>2 DEF Functions, Elsewhere
<1>10. R \subseteq PipeStreams  BY <1>2
<1> HIDE DEF v, R
<1> QED  BY <1>1, <1>2, <1>7, <1>9, <1>10, PutOne DEF pipeVars

LEMMA SplitterGetFlow ==
    ASSUME NEW N, NEW p, NEW S, NEW I, NEW lo, NEW hi, NEW b, NEW m, NEW t, NEW j,
           InFlow(N, p, S, I, lo, hi, b, m, t, j),
           SplitterGet, ml' = ml, accepted' = accepted
    PROVE  Flow'
<1> DEFINE R == {"isLookUp"}
           P == {}
           lo2 == Moved(lo, R)
           hi2 == Moved(hi, P)
           n == hi["ipTuple"]
<1>1. /\ splitter = "getMeta" /\ Has("isLookUp") /\ Transfer(R, Silent)
      /\ splitter' = (IF Front("isLookUp") THEN "revRsp" ELSE "shortCut")
      /\ UNCHANGED <<header, breakdown, stitch, summed, out, delivered>>
  BY DEF SplitterGet
<1>2. "isLookUp" \in PipeStreams \cap Single /\ {"ipTuple", "tcpTuple", "revRsp", "shortCut"} \subseteq PipeStreams
  BY DEF PipeStreams, Single
<1>3. /\ n \in 0 .. N /\ hi["tcpTuple"] = n /\ lo["isLookUp"] = n
      /\ lo["revRsp"] = S["revRsp"][n + 1] /\ lo["shortCut"] = S["shortCut"][n + 1]
  BY <1>1, StreamFacts DEF Functions, AtSplitter
<1>4. n + 1 \in 1 .. N /\ Front("isLookUp") = I["isLookUp"][n + 1] /\ N \in Nat
  <2>1. /\ n < hi["isLookUp"] /\ hi["isLookUp"] <= N /\ hi["isLookUp"] \in Nat /\ N \in Nat
        /\ Front("isLookUp") = I["isLookUp"][n + 1]
    BY <1>1, <1>2, <1>3, StreamFacts
  <2> HIDE DEF n
  <2> QED  BY <1>3, <2>1
<1>5. Front("isLookUp") = p[n + 1].lookup
  <2> HIDE DEF n
  <2>1. I["isLookUp"][n + 1] = Content(p[n + 1], n + 1)["isLookUp"][1]
    BY <1>2, <1>4, StreamFacts
  <2> QED  BY <1>4, <2>1 DEF Content
<1>6. AtSplitter(N, p, S, lo2, hi2)'
  <2>1. /\ hi2["ipTuple"] = n /\ hi2["tcpTuple"] = hi["tcpTuple"]
        /\ lo2["revRsp"] = lo["revRsp"] /\ lo2["shortCut"] = lo["shortCut"]
        /\ lo2["isLookUp"] = n + 1
    BY <1>2, <1>3 DEF Moved
  <2>2. splitter' = (IF p[n + 1].lookup THEN "revRsp" ELSE "shortCut")  BY <1>1, <1>5
  <2>3. splitter' # "getMeta"  BY <2>2
  <2> HIDE DEF lo2, hi2, n
  <2> QED  BY <1>3, <1>4, <2>1, <2>2, <2>3 DEF AtSplitter
<1>7. Functions(N, p, S, lo2, hi2, b, m, t, j)'
  <2>1. N \in Nat /\ Functions(N, p, S, lo, hi, b, m, t, j)  BY StreamFacts
  <2>0. Elsewhere(N, p, S, lo2, hi2, b, m, t, j, R, P)  BY StreamFacts, OthersMoved
  <2> HIDE DEF lo2, hi2
  <2> QED  BY <2>0, <1>1, <1>6, <2>1 DEF Functions, Elsewhere
<1>8. delivered' \in Seq(Packets)  BY <1>1 DEF InFlow, AtEnds
<1> QED  BY <1>1, <1>2, <1>7, <1>8, PutNone

LEMMA SplitterPassFlow ==
    ASSUME NEW N, NEW p, NEW S, NEW I, NEW lo, NEW hi, NEW b, NEW m, NEW t, NEW j,
           InFlow(N, p, S, I, lo, hi, b, m, t, j),
           SplitterPass, ml' = ml, accepted' = accepted
    PROVE  Flow'
<1>0. PICK R : R = {splitter}  OBVIOUS
<1> DEFINE P == {"ipTuple", "tcpTuple"}
           W == [ipTuple |-> <<Front(splitter)>>, tcpTuple |-> <<Front(splitter)>>]
           lo2 == Moved(lo, R)
           hi2 == Moved(hi, P)
           n == hi["ipTuple"]
<1>1. /\ splitter # "getMeta" /\ Has(splitter) /\ Transfer(R, W) /\ splitter' = "getMeta"
      /\ UNCHANGED <<header, breakdown, stitch, summed, out, delivered>>
  BY <1>0 DEF SplitterPass
<1>2. /\ DOMAIN W = P /\ W["ipTuple"] = << Front(splitter) >>
      /\ W["tcpTuple"] = << Front(splitter) >>
  OBVIOUS
<1> HIDE DEF W
<1>3. /\ P \subseteq PipeStreams \ MlStreams /\ P \subseteq Single
      /\ {"revRsp", "shortCut", "isLookUp"} \subseteq PipeStreams
  BY DEF PipeStreams, MlStreams, Single
<1>4. /\ n \in 0 .. N /\ n + 1 \in 1 .. N /\ hi["tcpTuple"] = n /\ lo["isLookUp"] = n + 1
      /\ lo["revRsp"] = S["revRsp"][n + 1] /\ lo["shortCut"] = S["shortCut"][n + 1]
      /\ splitter = (IF p[n + 1].lookup THEN "revRsp" ELSE "shortCut") /\ N \in Nat
  BY <1>1, StreamFacts DEF Functions, AtSplitter
<1> DEFINE k == n + 1
<1>5. p[k] \in Plan /\ k \in 1 .. N /\ k \in 1 .. N + 1 /\ k + 1 \in 1 .. N + 1
  <2>1. n + 1 \in 1 .. N + 1 /\ n + 1 + 1 \in 1 .. N + 1  BY <1>4
  <2> QED  BY <1>4, <2>1, StreamFacts
<1>6. /\ S["revRsp"][k + 1] = S["revRsp"][k] + (IF p[k].lookup THEN 1 ELSE 0)
      /\ S["shortCut"][k + 1] = S["shortCut"][k] + (IF p[k].lookup THEN 0 ELSE 1)
      /\ S["revRsp"][k] \in Nat /\ S["shortCut"][k] \in Nat
  <2> HIDE DEF n, k
  <2>1. /\ Len(Content(p[k], k)["revRsp"]) = (IF p[k].lookup THEN 1 ELSE 0)
        /\ Len(Content(p[k], k)["shortCut"]) = (IF p[k].lookup THEN 0 ELSE 1)
    BY <1>5, Sizes
  <2>2. /\ S["revRsp"][k] \in Nat
        /\ S["revRsp"][k + 1] = S["revRsp"][k] + Len(Content(p[k], k)["revRsp"])
    BY <1>3, <1>5, ItemAt
  <2>3. /\ S["shortCut"][k] \in Nat
        /\ S["shortCut"][k + 1] = S["shortCut"][k] + Len(Content(p[k], k)["shortCut"])
    BY <1>3, <1>5, ItemAt
  <2> QED  BY <2>1, <2>2, <2>3
<1>7. Front(splitter) = p[k].tuple
  <2> HIDE DEF k
  <2>1. CASE p[k].lookup
    <3>0. splitter = "revRsp"  BY <1>4, <2>1 DEF k
    <3>1. Len(Content(p[k], k)["revRsp"]) = 1  BY <1>5, <2>1, Sizes
    <3>2. Front(splitter) = I["revRsp"][S["revRsp"][k] + 1]
      BY <1>1, <1>3, <1>4, <3>0, StreamFacts DEF k
    <3>3. I["revRsp"][S["revRsp"][k] + 1] = Content(p[k], k)["revRsp"][1]
      <4>1. "revRsp" \in PipeStreams  BY <1>3
      <4> QED  BY <1>5, <3>1, <4>1, FirstItem
    <3> QED  BY <2>1, <3>2, <3>3 DEF Content
  <2>2. CASE ~p[k].lookup
    <3>0. splitter = "shortCut"  BY <1>4, <2>2 DEF k
    <3>1. Len(Content(p[k], k)["shortCut"]) = 1  BY <1>5, <2>2, Sizes
    <3>2. Front(splitter) = I["shortCut"][S["shortCut"][k] + 1]
      BY <1>1, <1>3, <1>4, <3>0, StreamFacts DEF k
    <3>3. I["shortCut"][S["shortCut"][k] + 1] = Content(p[k], k)["shortCut"][1]
      <4>1. "shortCut" \in PipeStreams  BY <1>3
      <4> QED  BY <1>5, <3>1, <4>1, FirstItem
    <3> QED  BY <2>2, <3>2, <3>3 DEF Content
  <2> QED  BY <2>1, <2>2
<1>8. \A s \in P : W[s] = << I[s][hi[s] + 1] >> /\ hi[s] + 1 <= S[s][N + 1]
  <2> HIDE DEF k
  <2>1. ASSUME NEW s \in P PROVE I[s][k] = p[k].tuple /\ S[s][N + 1] = N
    <3>1. s \in Single /\ N + 1 \in 1 .. N + 1 /\ (N + 1) - 1 = N  BY <1>3, <1>4
    <3>2. I[s][k] = Content(p[k], k)[s][1]  BY <1>5, <3>1, StreamFacts
    <3>3. S[s][N + 1] = N  BY <3>1 DEF InFlow, History
    <3> QED  BY <3>2, <3>3 DEF Content
  <2>2. \A s \in P : hi[s] + 1 = k  BY <1>4 DEF k
  <2>3. k <= N  BY <1>5
  <2> QED  BY <1>2, <1>7, <2>1, <2>2, <2>3
<1>9. AtSplitter(N, p, S, lo2, hi2)'
  <2>1. hi2["ipTuple"] = k /\ hi2["tcpTuple"] = k /\ lo2["isLookUp"] = k
    BY <1>0, <1>1, <1>3, <1>4 DEF Moved
  <2>2. lo2["revRsp"] = S["revRsp"][k + 1] /\ lo2["shortCut"] = S["shortCut"][k + 1]
    <3>1. lo["revRsp"] = S["revRsp"][k] /\ lo["shortCut"] = S["shortCut"][k]  BY <1>4
    <3>2. lo2["revRsp"] = lo["revRsp"] + (IF p[k].lookup THEN 1 ELSE 0)
      BY <1>0, <1>3, <1>4, <1>6, <3>1 DEF Moved
    <3>3. lo2["shortCut"] = lo["shortCut"] + (IF p[k].lookup THEN 0 ELSE 1)
      BY <1>0, <1>3, <1>4, <1>6, <3>1 DEF Moved
    <3> QED  BY <1>6, <3>1, <3>2, <3>3
  <2>3. k \in 0 .. N  BY <1>4
  <2> HIDE DEF lo2, hi2, n, k
  <2> QED  BY <1>1, <2>1, <2>2, <2>3 DEF AtSplitter
<1>10. Functions(N, p, S, lo2, hi2, b, m, t, j)'
  <2>1. Functions(N, p, S, lo, hi, b, m, t, j)  BY StreamFacts
  <2>2. R = {"revRsp"} \/ R = {"shortCut"}  BY <1>0, <1>4
  <2>0. Elsewhere(N, p, S, lo2, hi2, b, m, t, j, R, P)  BY StreamFacts, OthersMoved
  <2> HIDE DEF lo2, hi2
  <2> QED  BY <2>0, <1>1, <1>4, <1>9, <2>1, <2>2 DEF Functions, Elsewhere
<1>11. /\ P \subseteq DOMAIN W /\ DOMAIN W \subseteq PipeStreams \ MlStreams
       /\ \A s \in DOMAIN W \ P : W[s] = << >>
  BY <1>2, <1>3
<1>12. delivered' \in Seq(Packets) /\ R \subseteq PipeStreams
  <2>1. R \subseteq {"revRsp", "shortCut"}  BY <1>0, <1>4
  <2> QED  BY <1>1, <1>3, <2>1 DEF InFlow, AtEnds
<1> HIDE DEF P
<1> QED  BY <1>1, <1>8, <1>10, <1>11, <1>12, PipeStep

LEMMA HeaderFirstFlow ==
    ASSUME NEW N, NEW p, NEW S, NEW I, NEW lo, NEW hi, NEW b, NEW m, NEW t, NEW j,
           InFlow(N, p, S, I, lo, hi, b, m, t, j),
           HeaderFirst, ml' = ml, accepted' = accepted
    PROVE  Flow'
<1> DEFINE R == {"tcpTuple", "tcpMeta"}
           P == {"tcpHeader"}
           meta == Front("tcpMeta")
           tuple == Front("tcpTuple")
           v == Word(meta.pkt, {tuple} \cup meta.sars, FALSE)
           lo2 == Moved(lo, R)
           hi2 == Moved(hi, P)
           n == lo["tcpMeta"] + 1
<1>1. /\ header.word = 0 /\ Has("tcpTuple") /\ Has("tcpMeta") /\ Transfer(R, To("tcpHeader", v))
      /\ header' = [word |-> 1, meta |-> meta, tuple |-> tuple]
      /\ UNCHANGED <<splitter, breakdown, stitch, summed, out, delivered>>
  BY DEF HeaderFirst
<1>2. /\ "tcpMeta" \in PipeStreams \cap Single /\ "tcpTuple" \in PipeStreams \cap Single
      /\ "tcpHeader" \in PipeStreams \ MlStreams
  BY DEF PipeStreams, MlStreams, Single
<1>3. /\ lo["tcpMeta"] \in 0 .. N /\ lo["tcpTuple"] = lo["tcpMeta"]
      /\ hi["tcpHeader"] = S["tcpHeader"][n] /\ N \in Nat
  <2>1. AtHeader(N, p, S, lo, hi) /\ N \in Nat  BY StreamFacts DEF Functions
  <2>2. header = [word |-> 0] \/ \E i \in Nat \ {0} : \E x, y : header = [word |-> i, meta |-> x, tuple |-> y]
    <3>1. ASSUME NEW i \in 1 .. HeaderSize(p[lo["tcpMeta"]]) - 1 PROVE i \in Nat \ {0}  OBVIOUS
    <3> QED  BY <2>1, <3>1 DEF AtHeader
  <2>3. header = [word |-> 0]  BY <1>1, <2>2
  <2>4. ~ \E i \in 1 .. HeaderSize(p[lo["tcpMeta"]]) - 1 :
             header = [word |-> i, meta |-> MetaOf(p[lo["tcpMeta"]], lo["tcpMeta"]),
                       tuple |-> p[lo["tcpMeta"]].tuple]
    <3> SUFFICES ASSUME NEW i \in 1 .. HeaderSize(p[lo["tcpMeta"]]) - 1,
                        header = [word |-> i, meta |-> MetaOf(p[lo["tcpMeta"]], lo["tcpMeta"]),
                                  tuple |-> p[lo["tcpMeta"]].tuple]
                 PROVE  FALSE
      OBVIOUS
    <3>1. header.word = i /\ i # 0  OBVIOUS
    <3> QED  BY <1>1, <3>1
  <2> QED  BY <2>1, <2>4 DEF AtHeader
<1>4. /\ n \in 1 .. N
      /\ meta = I["tcpMeta"][n] /\ tuple = I["tcpTuple"][n]
  <2>1. /\ lo["tcpMeta"] < hi["tcpMeta"] /\ hi["tcpMeta"] <= N /\ hi["tcpMeta"] \in Nat
        /\ meta = I["tcpMeta"][n] /\ tuple = I["tcpTuple"][n]
    BY <1>1, <1>2, <1>3, StreamFacts
  <2> QED  BY <1>3, <2>1
<1>5. /\ meta = MetaOf(p[n], n) /\ tuple = p[n].tuple /\ p[n] \in Plan
  <2> HIDE DEF n, meta, tuple
  <2>1. /\ I["tcpMeta"][n] = Content(p[n], n)["tcpMeta"][1]
        /\ I["tcpTuple"][n] = Content(p[n], n)["tcpTuple"][1] /\ p[n] \in Plan
    BY <1>2, <1>4, StreamFacts
  <2> QED  BY <1>4, <2>1 DEF Content
<1>6. v = I["tcpHeader"][hi["tcpHeader"] + 1] /\ hi["tcpHeader"] + 1 <= S["tcpHeader"][N + 1]
  <2> HIDE DEF n
  <2>1. v = HeaderWord(p[n], n, 1)
    <3>1. {p[n].tuple} \cup p[n].sars = {p[n].tuple}  BY <1>5, PlanFacts
    <3>2. meta.pkt = n /\ meta.sars = p[n].sars  BY <1>5 DEF MetaOf
    <3>3. v = Word(n, {p[n].tuple}, FALSE)  BY <1>5, <3>1, <3>2
    <3> HIDE DEF v
    <3> QED  BY <3>3 DEF HeaderWord
  <2> HIDE DEF v
  <2>2. Len(Content(p[n], n)["tcpHeader"]) = HeaderSize(p[n]) /\ HeaderSize(p[n]) \in 3 .. 4
    BY <1>5, Sizes, PlanFacts
  <2>3. 1 \in 1 .. Len(Content(p[n], n)["tcpHeader"]) /\ 1 \in 1 .. HeaderSize(p[n])  BY <2>2
  <2>4. /\ I["tcpHeader"][S["tcpHeader"][n] + 1] = Content(p[n], n)["tcpHeader"][1]
        /\ S["tcpHeader"][n] + 1 <= S["tcpHeader"][N + 1]
    BY <1>2, <1>4, <2>3, ItemAt
  <2>5. Content(p[n], n)["tcpHeader"][1] = HeaderWord(p[n], n, 1)  BY <2>3 DEF Content
  <2> QED  BY <1>3, <2>1, <2>4, <2>5
<1>7. AtHeader(N, p, S, lo2, hi2)'
  <2>1. lo2["tcpMeta"] = n /\ lo2["tcpTuple"] = n /\ hi2["tcpHeader"] = S["tcpHeader"][n] + 1
    BY <1>2, <1>3 DEF Moved
  <2>2. header' = [word |-> 1, meta |-> MetaOf(p[n], n), tuple |-> p[n].tuple]  BY <1>1, <1>5
  <2>3. n \in 0 .. N /\ 1 \in 1 .. HeaderSize(p[n]) - 1  BY <1>4, <1>5, PlanFacts
  <2> HIDE DEF lo2, hi2, n
  <2> QED  BY <1>4, <2>1, <2>2, <2>3 DEF AtHeader
<1>8. Functions(N, p, S, lo2, hi2, b, m, t, j)'
  <2>1. Functions(N, p, S, lo, hi, b, m, t, j)  BY StreamFacts
  <2>0. Elsewhere(N, p, S, lo2, hi2, b, m, t, j, R, P)  BY StreamFacts, OthersMoved
  <2> HIDE DEF lo2, hi2
  <2> QED  BY <2>0, <1>1, <1>3, <1>7, <2>1 DEF Functions, Elsewhere
<1>9. R \subseteq PipeStreams  BY <1>2
<1> HIDE DEF v, R
<1> QED  BY <1>1, <1>2, <1>6, <1>8, <1>9, PutOne

LEMMA HeaderNextFlow ==
    ASSUME NEW N, NEW p, NEW S, NEW I, NEW lo, NEW hi, NEW b, NEW m, NEW t, NEW j,
           InFlow(N, p, S, I, lo, hi, b, m, t, j),
           HeaderNext, ml' = ml, accepted' = accepted
    PROVE  Flow'
<1> DEFINE R == {}
           P == {"tcpHeader"}
           last == header.word = 3 \/ (header.word = 2 /\ header.meta.length = 0)
           done == header.word = 3 \/ (header.word = 2 /\ ~header.meta.syn)
           v == [pkt |-> header.meta.pkt, tuples |-> {header.tuple} \cup header.meta.sars,
                 last |-> last, syn |-> header.meta.syn]
           lo2 == Moved(lo, R)
           hi2 == Moved(hi, P)
           n == lo["tcpMeta"]
<1>1. /\ header.word > 0 /\ Transfer(R, To("tcpHeader", v))
      /\ header' = (IF done THEN [word |-> 0] ELSE [header EXCEPT !.word = @ + 1])
      /\ UNCHANGED <<splitter, breakdown, stitch, summed, out, delivered>>
  BY DEF HeaderNext
<1>2. {"tcpMeta", "tcpTuple"} \subseteq PipeStreams /\ "tcpHeader" \in PipeStreams \ MlStreams
  BY DEF PipeStreams, MlStreams
<1>3. PICK i : /\ n \in 0 .. N /\ lo["tcpTuple"] = n /\ n \in 1 .. N /\ N \in Nat
               /\ i \in 1 .. HeaderSize(p[n]) - 1
               /\ header = [word |-> i, meta |-> MetaOf(p[n], n), tuple |-> p[n].tuple]
               /\ hi["tcpHeader"] = S["tcpHeader"][n] + i
  <2>1. AtHeader(N, p, S, lo, hi) /\ N \in Nat  BY StreamFacts DEF Functions
  <2>2. header # [word |-> 0]  BY <1>1
  <2> QED  BY <2>1, <2>2 DEF AtHeader
<1>4. p[n] \in Plan /\ HeaderSize(p[n]) = (IF p[n].syn THEN 4 ELSE 3) /\ p[n].syn \in BOOLEAN
      /\ (p[n].syn => p[n].length # 0)
  BY <1>3, StreamFacts, PlanFacts DEF HeaderSize
<1>5. i \in 1 .. 3 /\ i + 1 \in 1 .. HeaderSize(p[n]) /\ (i = 3 => p[n].syn)
      /\ (i + 1 = HeaderSize(p[n]) <=> i = 3 \/ (i = 2 /\ ~p[n].syn))
  BY <1>3, <1>4
<1>6. /\ header.word = i /\ header.meta.length = p[n].length /\ header.meta.syn = p[n].syn
      /\ header.meta.pkt = n /\ header.meta.sars = p[n].sars /\ header.tuple = p[n].tuple
  <2> HIDE DEF n
  <2> QED  BY <1>3 DEF MetaOf
<1>7. v = I["tcpHeader"][hi["tcpHeader"] + 1] /\ hi["tcpHeader"] + 1 <= S["tcpHeader"][N + 1]
  <2>1. v = HeaderWord(p[n], n, i + 1)
    <3>1. {p[n].tuple} \cup p[n].sars = {p[n].tuple}  BY <1>4, PlanFacts
    <3>2. i + 1 # 1 /\ (last <=> i + 1 = 4 \/ (i + 1 = 3 /\ p[n].length = 0))  BY <1>5, <1>6
    <3>3. last = (i + 1 = 4 \/ (i + 1 = 3 /\ p[n].length = 0))  BY <3>2
    <3> HIDE DEF last, n
    <3> QED  BY <1>6, <3>1, <3>2, <3>3 DEF HeaderWord
  <2> HIDE DEF v, n
  <2>2. Len(Content(p[n], n)["tcpHeader"]) = HeaderSize(p[n])  BY <1>4, Sizes
  <2> DEFINE k == i + 1
  <2>3. k \in 1 .. Len(Content(p[n], n)["tcpHeader"])  BY <1>5, <2>2
  <2>4. /\ I["tcpHeader"][S["tcpHeader"][n] + k] = Content(p[n], n)["tcpHeader"][k]
        /\ S["tcpHeader"][n] + k <= S["tcpHeader"][N + 1] /\ S["tcpHeader"][n] \in Nat
    <3> HIDE DEF k
    <3>1. n \in 1 .. N /\ "tcpHeader" \in PipeStreams  BY <1>2, <1>3
    <3>2. /\ S["tcpHeader"][n] \in Nat
          /\ \A x \in 1 .. Len(Content(p[n], n)["tcpHeader"]) :
                /\ I["tcpHeader"][S["tcpHeader"][n] + x] = Content(p[n], n)["tcpHeader"][x]
                /\ S["tcpHeader"][n] + x <= S["tcpHeader"][N + 1]
      BY <3>1, ItemAt
    <3> QED  BY <2>3, <3>2
  <2>5. Content(p[n], n)["tcpHeader"][i + 1] = HeaderWord(p[n], n, i + 1)  BY <1>5 DEF Content
  <2>6. hi["tcpHeader"] + 1 = S["tcpHeader"][n] + (i + 1)  BY <1>3, <1>5, <2>4
  <2> QED  BY <2>1, <2>4, <2>5, <2>6
<1>8. AtHeader(N, p, S, lo2, hi2)'
  <2>1. lo2["tcpMeta"] = n /\ lo2["tcpTuple"] = n /\ hi2["tcpHeader"] = S["tcpHeader"][n] + (i + 1)
    <3>1. S["tcpHeader"][n] \in Nat  BY <1>2, <1>3, ItemAt
    <3>2. hi2["tcpHeader"] = hi["tcpHeader"] + 1  BY <1>2 DEF Moved
    <3>3. hi2["tcpHeader"] = S["tcpHeader"][n] + (i + 1)  BY <1>3, <1>5, <3>1, <3>2
    <3> HIDE DEF hi2
    <3> QED  BY <1>2, <1>3, <3>3 DEF Moved
  <2> HIDE DEF lo2, hi2
  <2>2. CASE done
    <3>1. i + 1 = HeaderSize(p[n])  BY <1>5, <1>6, <2>2
    <3> HIDE DEF n, done
    <3>2. S["tcpHeader"][n + 1] = S["tcpHeader"][n] + HeaderSize(p[n])
      <4>1. Len(Content(p[n], n)["tcpHeader"]) = HeaderSize(p[n])  BY <1>4, Sizes
      <4>2. S["tcpHeader"][n + 1] = S["tcpHeader"][n] + Len(Content(p[n], n)["tcpHeader"])
        BY <1>2, <1>3, ItemAt
      <4> QED  BY <4>1, <4>2
    <3>3. header' = [word |-> 0]  BY <1>1, <2>2
    <3> QED  BY <1>3, <2>1, <3>1, <3>2, <3>3 DEF AtHeader
  <2>3. CASE ~done
    <3>1. i + 1 # HeaderSize(p[n]) /\ HeaderSize(p[n]) \in Nat  BY <1>4, <1>5, <1>6, <2>3
    <3>2. i + 1 \in 1 .. HeaderSize(p[n]) - 1  BY <1>5, <3>1
    <3> HIDE DEF n, done
    <3>3. header' = [word |-> i + 1, meta |-> MetaOf(p[n], n), tuple |-> p[n].tuple]
      BY <1>1, <1>3, <2>3
    <3> QED  BY <1>3, <2>1, <3>2, <3>3 DEF AtHeader
  <2> QED  BY <2>2, <2>3
<1>9. Functions(N, p, S, lo2, hi2, b, m, t, j)'
  <2>1. Functions(N, p, S, lo, hi, b, m, t, j)  BY StreamFacts
  <2>0. Elsewhere(N, p, S, lo2, hi2, b, m, t, j, R, P)  BY StreamFacts, OthersMoved
  <2> HIDE DEF lo2, hi2
  <2> QED  BY <2>0, <1>1, <1>3, <1>8, <2>1 DEF Functions, Elsewhere
<1>10. R \subseteq PipeStreams  OBVIOUS
<1> HIDE DEF v, R
<1> QED  BY <1>1, <1>2, <1>7, <1>9, <1>10, PutOne

\* The next packet that has something in stream s.
LEMMA NextWith ==
    ASSUME NEW N, NEW p, NEW S, NEW I, NEW lo, NEW hi, NEW b, NEW m, NEW t, NEW j,
           InFlow(N, p, S, I, lo, hi, b, m, t, j), NEW s \in PipeStreams,
           NEW n \in 1 .. N + 1, S[s][n] < S[s][N + 1]
    PROVE  \E k \in 1 .. N : S[s][k] = S[s][n] /\ Len(Content(p[k], k)[s]) # 0
<1>1. N \in Nat /\ Fit(N, Contents(s, p), S[s], I[s])  BY DEF InFlow, History
<1>2. \E k \in 1 .. N : S[s][k] = S[s][n] /\ Len(Contents(s, p)[k]) # 0  BY <1>1, Locate
<1> QED  BY <1>2 DEF Contents

LEMMA BreakFirstFlow ==
    ASSUME NEW N, NEW p, NEW S, NEW I, NEW lo, NEW hi, NEW b, NEW m, NEW t, NEW j,
           InFlow(N, p, S, I, lo, hi, b, m, t, j),
           BreakFirst, ml' = ml, accepted' = accepted
    PROVE  Flow'
<1> DEFINE R == {"readCmd"}
           P == {"memCmd", "accessFlag"}
           cmd == Front("readCmd")
           W == [memCmd |-> << [pkt |-> cmd.pkt, words |-> cmd.first] >>,
                 accessFlag |-> << IF cmd.second > 0 THEN 1 ELSE 0 >>]
           lo2 == Moved(lo, R)
           hi2 == Moved(hi, P)
<1>1. /\ breakdown = NoAccess /\ Has("readCmd") /\ Transfer(R, W)
      /\ breakdown' = (IF cmd.second > 0 THEN [pkt |-> cmd.pkt, words |-> cmd.second]
                       ELSE NoAccess)
      /\ UNCHANGED <<splitter, header, stitch, summed, out, delivered>>
  BY DEF BreakFirst
<1>2. /\ DOMAIN W = P /\ W["memCmd"] = << [pkt |-> cmd.pkt, words |-> cmd.first] >>
      /\ W["accessFlag"] = << IF cmd.second > 0 THEN 1 ELSE 0 >>
  OBVIOUS
<1> HIDE DEF W
<1>3. P \subseteq PipeStreams \ MlStreams /\ "readCmd" \in PipeStreams
      /\ "memCmd" \in PipeStreams /\ "accessFlag" \in PipeStreams
  BY DEF PipeStreams, MlStreams
<1>4. /\ b + 1 \in 1 .. N + 1 /\ lo["readCmd"] = S["readCmd"][b + 1]
      /\ hi["accessFlag"] = S["readCmd"][b + 1] /\ hi["memCmd"] = S["memCmd"][b + 1]
      /\ N \in Nat
  <2>1. AtBreakdown(N, p, S, lo, hi, b) /\ N \in Nat  BY StreamFacts DEF Functions
  <2>2. ASSUME NEW x \in 1 .. N PROVE breakdown # [pkt |-> x, words |-> p[x].second]
    BY <1>1 DEF NoAccess
  <2> QED  BY <2>1, <2>2 DEF AtBreakdown
<1>5. PICK n \in 1 .. N : S["readCmd"][n] = S["readCmd"][b + 1]
                          /\ Len(Content(p[n], n)["readCmd"]) # 0
  <2>1. lo["readCmd"] < hi["readCmd"] /\ hi["readCmd"] <= S["readCmd"][N + 1]
        /\ hi["readCmd"] \in Nat /\ lo["readCmd"] \in Nat
    BY <1>1, <1>3, StreamFacts
  <2>2. S["readCmd"][N + 1] \in Nat
    <3>1. N + 1 \in 1 .. N + 1  BY <1>4
    <3> QED  BY <1>3, <3>1, StreamFacts
  <2>3. S["readCmd"][b + 1] < S["readCmd"][N + 1]  BY <1>4, <2>1, <2>2
  <2> QED  BY <1>3, <1>4, <2>3, NextWith
<1>6. /\ p[n] \in Plan /\ p[n].first \in Nat /\ p[n].second \in Nat /\ p[n].first # 0
      /\ S["readCmd"][n] \in Nat /\ S["memCmd"][n] \in Nat
      /\ S["readCmd"][n + 1] = S["readCmd"][n] + 1
      /\ S["memCmd"][n + 1] = S["memCmd"][n] + (IF p[n].second = 0 THEN 1 ELSE 2)
      /\ S["accessFlag"] = S["readCmd"]
  <2>1. p[n] \in Plan  BY ItemAt, <1>3
  <2>2. p[n].first \in Nat /\ p[n].second \in Nat  BY <2>1, PlanFacts
  <2>3. p[n].first # 0  BY <1>5, <2>1, Sizes
  <2>4. Len(Content(p[n], n)["readCmd"]) = 1
        /\ Len(Content(p[n], n)["memCmd"]) = (IF p[n].second = 0 THEN 1 ELSE 2)
    BY <2>1, <2>3, Sizes
  <2>5. S["readCmd"][n] \in Nat /\ S["readCmd"][n + 1] = S["readCmd"][n] + 1
    <3>1. S["readCmd"][n] \in Nat
          /\ S["readCmd"][n + 1] = S["readCmd"][n] + Len(Content(p[n], n)["readCmd"])
      BY <1>3, ItemAt
    <3> QED  BY <2>4, <3>1
  <2>6. S["memCmd"][n] \in Nat
        /\ S["memCmd"][n + 1] = S["memCmd"][n] + (IF p[n].second = 0 THEN 1 ELSE 2)
    <3>1. S["memCmd"][n] \in Nat
          /\ S["memCmd"][n + 1] = S["memCmd"][n] + Len(Content(p[n], n)["memCmd"])
      BY <1>3, ItemAt
    <3> QED  BY <2>4, <3>1
  <2>7. S["accessFlag"] = S["readCmd"]  BY DEF InFlow, History
  <2> QED  BY <2>1, <2>2, <2>3, <2>5, <2>6, <2>7
<1>7. cmd = [pkt |-> n, first |-> p[n].first, second |-> p[n].second]
  <2>1. cmd = I["readCmd"][S["readCmd"][n] + 1]  BY <1>1, <1>3, <1>4, <1>5, StreamFacts
  <2>2. Len(Content(p[n], n)["readCmd"]) = 1  BY <1>6, Sizes
  <2>3. 1 \in 1 .. Len(Content(p[n], n)["readCmd"])  BY <2>2
  <2>4. I["readCmd"][S["readCmd"][n] + 1] = Content(p[n], n)["readCmd"][1]
    BY <1>3, <2>3, ItemAt
  <2> HIDE DEF cmd
  <2> QED  BY <1>6, <2>1, <2>4 DEF Content
<1>8. hi["memCmd"] = S["memCmd"][n]
  <2>1. Together(N, S, "readCmd", "memCmd") /\ n \in 1 .. N + 1
    BY <1>4 DEF InFlow, History
  <2> QED  BY <1>4, <1>5, <2>1 DEF Together
<1>9. \A s \in P : W[s] = << I[s][hi[s] + 1] >> /\ hi[s] + 1 <= S[s][N + 1]
  <2>1. W["memCmd"] = << I["memCmd"][hi["memCmd"] + 1] >>
        /\ hi["memCmd"] + 1 <= S["memCmd"][N + 1]
    <3>1. Len(Content(p[n], n)["memCmd"]) = (IF p[n].second = 0 THEN 1 ELSE 2)  BY <1>6, Sizes
    <3>2. 1 \in 1 .. Len(Content(p[n], n)["memCmd"])  BY <3>1
    <3>3. /\ I["memCmd"][S["memCmd"][n] + 1] = Content(p[n], n)["memCmd"][1]
          /\ S["memCmd"][n] + 1 <= S["memCmd"][N + 1]
      BY <1>3, <3>2, ItemAt
    <3>4. Content(p[n], n)["memCmd"][1] = [pkt |-> n, words |-> p[n].first]
      BY <1>6 DEF Content
    <3>5. cmd.pkt = n /\ cmd.first = p[n].first  BY <1>7
    <3> QED  BY <1>2, <1>8, <3>3, <3>4, <3>5
  <2>2. W["accessFlag"] = << I["accessFlag"][hi["accessFlag"] + 1] >>
        /\ hi["accessFlag"] + 1 <= S["accessFlag"][N + 1]
    <3>1. Len(Content(p[n], n)["accessFlag"]) = 1  BY <1>6, Sizes
    <3>2. 1 \in 1 .. Len(Content(p[n], n)["accessFlag"])  BY <3>1
    <3>3. /\ I["accessFlag"][S["accessFlag"][n] + 1] = Content(p[n], n)["accessFlag"][1]
          /\ S["accessFlag"][n] + 1 <= S["accessFlag"][N + 1]
      BY <1>3, <3>2, ItemAt
    <3>4. Content(p[n], n)["accessFlag"][1] = (IF p[n].second > 0 THEN 1 ELSE 0)
      BY <1>6 DEF Content
    <3>5. cmd.second = p[n].second  BY <1>7
    <3>6. hi["accessFlag"] = S["accessFlag"][n]  BY <1>4, <1>5, <1>6
    <3> QED  BY <1>2, <3>3, <3>4, <3>5, <3>6
  <2> QED  BY <2>1, <2>2
<1>10. AtBreakdown(N, p, S, lo2, hi2, n)'
  <2>1. /\ lo2["readCmd"] = S["readCmd"][n + 1] /\ hi2["accessFlag"] = S["readCmd"][n + 1]
        /\ hi2["memCmd"] = S["memCmd"][n] + 1
    BY <1>3, <1>4, <1>5, <1>6, <1>8 DEF Moved
  <2>2. breakdown' = (IF p[n].second # 0 THEN [pkt |-> n, words |-> p[n].second] ELSE NoAccess)
    BY <1>1, <1>6, <1>7
  <2>3. n \in 0 .. N /\ n \in 1 .. N  BY <1>4
  <2> HIDE DEF lo2, hi2
  <2> QED  BY <1>6, <2>1, <2>2, <2>3 DEF AtBreakdown
<1>11. Functions(N, p, S, lo2, hi2, n, m, t, j)'
  <2>1. N \in Nat /\ Functions(N, p, S, lo, hi, b, m, t, j)  BY StreamFacts
  <2>0. Elsewhere(N, p, S, lo2, hi2, b, m, t, j, R, P)  BY StreamFacts, OthersMoved
  <2> HIDE DEF lo2, hi2
  <2> QED  BY <1>1, <1>10, <2>0, <2>1 DEF Functions, Elsewhere
<1>12. /\ P \subseteq DOMAIN W /\ DOMAIN W \subseteq PipeStreams \ MlStreams
       /\ \A s \in DOMAIN W \ P : W[s] = << >>
       /\ R \subseteq PipeStreams
  BY <1>2, <1>3
<1>13. delivered' \in Seq(Packets)  BY <1>1 DEF InFlow, AtEnds
<1> HIDE DEF R, P
<1> QED  BY <1>1, <1>9, <1>11, <1>12, <1>13, PipeStep

LEMMA BreakSecondFlow ==
    ASSUME NEW N, NEW p, NEW S, NEW I, NEW lo, NEW hi, NEW b, NEW m, NEW t, NEW j,
           InFlow(N, p, S, I, lo, hi, b, m, t, j),
           BreakSecond, ml' = ml, accepted' = accepted
    PROVE  Flow'
<1> DEFINE R == {}
           P == {"memCmd"}
           lo2 == Moved(lo, R)
           hi2 == Moved(hi, P)
<1>1. /\ breakdown # NoAccess /\ Transfer(R, To("memCmd", breakdown)) /\ breakdown' = NoAccess
      /\ UNCHANGED <<splitter, header, stitch, summed, out, delivered>>
  BY DEF BreakSecond
<1>2. "memCmd" \in PipeStreams \ MlStreams /\ {"readCmd", "accessFlag"} \subseteq PipeStreams
  BY DEF PipeStreams, MlStreams
<1>3. /\ b \in 1 .. N /\ p[b].first # 0 /\ p[b].second # 0 /\ N \in Nat
      /\ breakdown = [pkt |-> b, words |-> p[b].second]
      /\ hi["memCmd"] = S["memCmd"][b] + 1
      /\ lo["readCmd"] = S["readCmd"][b + 1] /\ hi["accessFlag"] = S["readCmd"][b + 1]
  BY <1>1, StreamFacts DEF Functions, AtBreakdown
<1>4. Len(Content(p[b], b)["memCmd"]) = 2 /\ S["memCmd"][b] \in Nat
      /\ S["memCmd"][b + 1] = S["memCmd"][b] + 2
  <2>1. p[b] \in Plan  BY <1>3, StreamFacts
  <2>2. Len(Content(p[b], b)["memCmd"]) = 2  BY <1>3, <2>1, Sizes
  <2>3. S["memCmd"][b] \in Nat
        /\ S["memCmd"][b + 1] = S["memCmd"][b] + Len(Content(p[b], b)["memCmd"])
    BY <1>2, <1>3, ItemAt
  <2> QED  BY <2>2, <2>3
<1>5. hi["memCmd"] + 1 = S["memCmd"][b] + 2  BY <1>3, <1>4
<1>6. breakdown = I["memCmd"][hi["memCmd"] + 1] /\ hi["memCmd"] + 1 <= S["memCmd"][N + 1]
  <2>1. 2 \in 1 .. Len(Content(p[b], b)["memCmd"])  BY <1>4
  <2>2. /\ I["memCmd"][S["memCmd"][b] + 2] = Content(p[b], b)["memCmd"][2]
        /\ S["memCmd"][b] + 2 <= S["memCmd"][N + 1]
    BY <1>2, <1>3, <2>1, ItemAt
  <2>3. Content(p[b], b)["memCmd"][2] = [pkt |-> b, words |-> p[b].second]
    BY <1>3 DEF Content
  <2> QED  BY <1>3, <1>5, <2>2, <2>3
<1>7. AtBreakdown(N, p, S, lo2, hi2, b)'
  <2>1. /\ lo2["readCmd"] = lo["readCmd"] /\ hi2["accessFlag"] = hi["accessFlag"]
        /\ hi2["memCmd"] = S["memCmd"][b + 1]
    BY <1>2, <1>4, <1>5 DEF Moved
  <2>2. b \in 0 .. N  BY <1>3
  <2> HIDE DEF lo2, hi2
  <2> QED  BY <1>1, <1>3, <2>1, <2>2 DEF AtBreakdown
<1>8. Functions(N, p, S, lo2, hi2, b, m, t, j)'
  <2>1. N \in Nat /\ Functions(N, p, S, lo, hi, b, m, t, j)  BY StreamFacts
  <2>0. Elsewhere(N, p, S, lo2, hi2, b, m, t, j, R, P)  BY StreamFacts, OthersMoved
  <2> HIDE DEF lo2, hi2
  <2> QED  BY <1>1, <1>7, <2>0, <2>1 DEF Functions, Elsewhere
<1>9. R \subseteq PipeStreams  OBVIOUS
<1> HIDE DEF R
<1> QED  BY <1>1, <1>2, <1>6, <1>8, <1>9, PutOne

\* The access that is read: the w words of packet n from word off on; the
\* memory goes on with packet m2.
Access(N, p, S, lo, hi, n, off, w, m2) ==
    /\ Front("memCmd") = [pkt |-> n, words |-> w]
    /\ hi["memData"] = S["memData"][n] + off
    /\ off + w <= p[n].first + p[n].second
    /\ \A i \in 1 .. w : off + i = p[n].first \/ off + i = p[n].first + p[n].second
                         <=> i = w
    /\ \/ /\ lo["memCmd"] + 1 = S["memCmd"][m2]
          /\ hi["memData"] + w = S["memData"][m2]
       \/ /\ m2 \in 1 .. N /\ p[m2].first # 0 /\ p[m2].second # 0
          /\ lo["memCmd"] + 1 = S["memCmd"][m2] + 1
          /\ hi["memData"] + w = S["memData"][m2] + p[m2].first

LEMMA MemoryAccess ==
    ASSUME NEW N, NEW p, NEW S, NEW I, NEW lo, NEW hi, NEW b, NEW m, NEW t, NEW j,
           InFlow(N, p, S, I, lo, hi, b, m, t, j), Has("memCmd")
    PROVE  \E n \in 1 .. N, off \in Nat, w \in Nat, m2 \in 1 .. N + 1 :
              Access(N, p, S, lo, hi, n, off, w, m2)
<1>1. "memCmd" \in PipeStreams /\ "memData" \in PipeStreams  BY DEF PipeStreams
<1>2. /\ lo["memCmd"] < hi["memCmd"] /\ hi["memCmd"] <= S["memCmd"][N + 1]
      /\ lo["memCmd"] \in Nat /\ hi["memCmd"] \in Nat /\ N \in Nat
      /\ Front("memCmd") = I["memCmd"][lo["memCmd"] + 1]
  BY <1>1, StreamFacts
<1>3. AtMemory(N, p, S, lo, hi, m)  BY StreamFacts DEF Functions
\* What is known of packet n, which has payload.
<1>4. ASSUME NEW n \in 1 .. N, p[n].first # 0
      PROVE  /\ p[n].first \in Nat /\ p[n].second \in Nat
             /\ S["memCmd"][n] \in Nat /\ S["memData"][n] \in Nat
             /\ S["memCmd"][n + 1] = S["memCmd"][n] + (IF p[n].second = 0 THEN 1 ELSE 2)
             /\ S["memData"][n + 1] = S["memData"][n] + p[n].first + p[n].second
             /\ I["memCmd"][S["memCmd"][n] + 1] = [pkt |-> n, words |-> p[n].first]
             /\ p[n].second # 0 =>
                   I["memCmd"][S["memCmd"][n] + 2] = [pkt |-> n, words |-> p[n].second]
             /\ n \in 1 .. N + 1 /\ n + 1 \in 1 .. N + 1
  <2>1. p[n] \in Plan  BY StreamFacts
  <2>2. p[n].first \in Nat /\ p[n].second \in Nat  BY <2>1, PlanFacts
  <2>3. /\ Len(Content(p[n], n)["memCmd"]) = (IF p[n].second = 0 THEN 1 ELSE 2)
        /\ Len(Content(p[n], n)["memData"]) = p[n].first + p[n].second
    BY <1>4, <2>1, Sizes
  <2>4. /\ S["memCmd"][n] \in Nat
        /\ S["memCmd"][n + 1] = S["memCmd"][n] + Len(Content(p[n], n)["memCmd"])
    BY <1>1, ItemAt
  <2>5. /\ S["memData"][n] \in Nat
        /\ S["memData"][n + 1] = S["memData"][n] + Len(Content(p[n], n)["memData"])
    BY <1>1, ItemAt
  <2>6. S["memData"][n + 1] = S["memData"][n] + p[n].first + p[n].second
    BY <2>2, <2>3, <2>5
  <2>7. \A k \in 1 .. Len(Content(p[n], n)["memCmd"]) :
           I["memCmd"][S["memCmd"][n] + k] = Content(p[n], n)["memCmd"][k]
    BY <1>1, ItemAt
  <2>8. 1 \in 1 .. Len(Content(p[n], n)["memCmd"])
        /\ (p[n].second # 0 => 2 \in 1 .. Len(Content(p[n], n)["memCmd"]))
    BY <2>3
  <2>9. /\ Content(p[n], n)["memCmd"][1] = [pkt |-> n, words |-> p[n].first]
        /\ p[n].second # 0 =>
              Content(p[n], n)["memCmd"][2] = [pkt |-> n, words |-> p[n].second]
    BY <1>4 DEF Content
  <2>10. n \in 1 .. N + 1 /\ n + 1 \in 1 .. N + 1  BY <1>2
  <2> QED  BY <2>2, <2>3, <2>4, <2>5, <2>6, <2>7, <2>8, <2>9, <2>10
<1>5. CASE lo["memCmd"] = S["memCmd"][m] /\ hi["memData"] = S["memData"][m]
  <2>1. m \in 1 .. N + 1 /\ S["memCmd"][N + 1] \in Nat
    <3>1. N + 1 \in 1 .. N + 1  BY <1>2
    <3> QED  BY <1>1, <1>3, <3>1, StreamFacts DEF AtMemory
  <2>2. S["memCmd"][m] < S["memCmd"][N + 1]  BY <1>2, <1>5, <2>1
  <2>3. PICK n \in 1 .. N : S["memCmd"][n] = S["memCmd"][m]
                            /\ Len(Content(p[n], n)["memCmd"]) # 0
    BY <1>1, <2>1, <2>2, NextWith
  <2>4. p[n].first # 0
    <3>1. p[n] \in Plan  BY StreamFacts
    <3> QED  BY <2>3, <3>1, Sizes
  <2>5. S["memData"][n] = S["memData"][m]
    <3>1. Together(N, S, "memCmd", "memData")  BY DEF InFlow, History
    <3>2. n \in 1 .. N + 1  BY <1>2
    <3> QED  BY <2>1, <2>3, <3>1, <3>2 DEF Together
  <2>6. /\ p[n].first \in Nat /\ p[n].second \in Nat
        /\ S["memCmd"][n] \in Nat /\ S["memData"][n] \in Nat
        /\ S["memCmd"][n + 1] = S["memCmd"][n] + (IF p[n].second = 0 THEN 1 ELSE 2)
        /\ S["memData"][n + 1] = S["memData"][n] + p[n].first + p[n].second
        /\ Front("memCmd") = [pkt |-> n, words |-> p[n].first]
        /\ n \in 1 .. N + 1 /\ n + 1 \in 1 .. N + 1
    BY <1>2, <1>4, <1>5, <2>3, <2>4
  <2> DEFINE w == p[n].first
             m2 == IF p[n].second = 0 THEN n + 1 ELSE n
  <2>7. hi["memData"] = S["memData"][n] + 0  BY <1>5, <2>5, <2>6
  <2>8. 0 + w <= p[n].first + p[n].second /\ m2 \in 1 .. N + 1 /\ w \in Nat  BY <2>6
  <2>9. \A i \in 1 .. w : 0 + i = p[n].first \/ 0 + i = p[n].first + p[n].second <=> i = w
    BY <2>6
  <2>10. \/ /\ lo["memCmd"] + 1 = S["memCmd"][m2]
            /\ hi["memData"] + w = S["memData"][m2]
         \/ /\ m2 \in 1 .. N /\ p[m2].first # 0 /\ p[m2].second # 0
            /\ lo["memCmd"] + 1 = S["memCmd"][m2] + 1
            /\ hi["memData"] + w = S["memData"][m2] + p[m2].first
    <3>1. CASE p[n].second = 0  BY <1>5, <2>3, <2>5, <2>6, <3>1
    <3>2. CASE p[n].second # 0  BY <1>5, <2>3, <2>4, <2>5, <2>6, <3>2
    <3> QED  BY <3>1, <3>2
  <2> HIDE DEF w, m2
  <2>11. Front("memCmd") = [pkt |-> n, words |-> w]  BY <2>6 DEF w
  <2>12. 0 \in Nat  OBVIOUS
  <2>13. Access(N, p, S, lo, hi, n, 0, w, m2)
    BY <2>7, <2>8, <2>9, <2>10, <2>11 DEF Access
  <2> QED  BY <2>8, <2>12, <2>13
<1>6. CASE /\ m \in 1 .. N /\ p[m].first # 0 /\ p[m].second # 0
           /\ lo["memCmd"] = S["memCmd"][m] + 1
           /\ hi["memData"] = S["memData"][m] + p[m].first
  <2>1. /\ p[m].first \in Nat /\ p[m].second \in Nat
        /\ S["memCmd"][m] \in Nat /\ S["memData"][m] \in Nat
        /\ S["memCmd"][m + 1] = S["memCmd"][m] + 2
        /\ S["memData"][m + 1] = S["memData"][m] + p[m].first + p[m].second
        /\ I["memCmd"][S["memCmd"][m] + 2] = [pkt |-> m, words |-> p[m].second]
        /\ m + 1 \in 1 .. N + 1
    BY <1>4, <1>6
  <2> DEFINE w == p[m].second
             off == p[m].first
             m2 == m + 1
  <2>2. Front("memCmd") = [pkt |-> m, words |-> w]
    <3>1. lo["memCmd"] + 1 = S["memCmd"][m] + 2  BY <1>6, <2>1
    <3> QED  BY <1>2, <2>1, <3>1
  <2>3. lo["memCmd"] + 1 = S["memCmd"][m2] /\ hi["memData"] + w = S["memData"][m2]
    BY <1>6, <2>1
  <2>4. /\ off \in Nat /\ w \in Nat /\ off + w <= p[m].first + p[m].second
        /\ m2 \in 1 .. N + 1 /\ hi["memData"] = S["memData"][m] + off
    BY <1>6, <2>1
  <2>5. \A i \in 1 .. w : off + i = p[m].first \/ off + i = p[m].first + p[m].second <=> i = w
    BY <2>1
  <2>6. m \in 1 .. N  BY <1>6
  <2> HIDE DEF w, off, m2
  <2>7. Access(N, p, S, lo, hi, m, off, w, m2)  BY <2>2, <2>3, <2>4, <2>5 DEF Access
  <2>8. off \in Nat /\ w \in Nat /\ m2 \in 1 .. N + 1  BY <2>4
  <2> QED  BY <2>6, <2>7, <2>8
<1> QED  BY <1>3, <1>5, <1>6 DEF AtMemory

LEMMA MemoryFlow ==
    ASSUME NEW N, NEW p, NEW S, NEW I, NEW lo, NEW hi, NEW b, NEW m, NEW t, NEW j,
           InFlow(N, p, S, I, lo, hi, b, m, t, j),
           MemoryRead, ml' = ml, accepted' = accepted
    PROVE  Flow'
<1> DEFINE R == {"memCmd"}
           P == {"memData"}
           cmd == Front("memCmd")
           W == [memData |-> [i \in 1 .. cmd.words |-> Word(cmd.pkt, {}, i = cmd.words)]]
<1>1. Has("memCmd") /\ Transfer(R, W) /\ UNCHANGED pipeVars  BY DEF MemoryRead
<1>0. PICK n \in 1 .. N, off \in Nat, w \in Nat, m2 \in 1 .. N + 1 :
         Access(N, p, S, lo, hi, n, off, w, m2)
  BY <1>1, MemoryAccess
<1>2. /\ cmd = [pkt |-> n, words |-> w]
      /\ hi["memData"] = S["memData"][n] + off
      /\ off + w <= p[n].first + p[n].second
      /\ \A i \in 1 .. w : off + i = p[n].first \/ off + i = p[n].first + p[n].second
                           <=> i = w
      /\ \/ /\ lo["memCmd"] + 1 = S["memCmd"][m2]
            /\ hi["memData"] + w = S["memData"][m2]
         \/ /\ m2 \in 1 .. N /\ p[m2].first # 0 /\ p[m2].second # 0
            /\ lo["memCmd"] + 1 = S["memCmd"][m2] + 1
            /\ hi["memData"] + w = S["memData"][m2] + p[m2].first
  BY <1>0 DEF Access
<1> DEFINE lo2 == Moved(lo, R)
           hi2 == [s \in PipeStreams |-> IF s \in P THEN hi[s] + w ELSE hi[s]]
<1>3. "memData" \in PipeStreams \ MlStreams /\ "memCmd" \in PipeStreams
  BY DEF PipeStreams, MlStreams
<1>4. DOMAIN W = P /\ W["memData"] = [i \in 1 .. w |-> Word(n, {}, i = w)]
  <2>1. cmd.pkt = n /\ cmd.words = w  BY <1>2
  <2> HIDE DEF cmd
  <2> QED  BY <2>1
<1> HIDE DEF W, cmd
<1>5. /\ N \in Nat /\ S["memData"][n] \in Nat /\ p[n] \in Plan
      /\ Len(Content(p[n], n)["memData"]) = p[n].first + p[n].second
  <2>1. N \in Nat /\ S["memData"][n] \in Nat /\ p[n] \in Plan  BY <1>3, ItemAt
  <2> QED  BY <2>1, Sizes
<1>6. W["memData"] = [i \in 1 .. w |-> I["memData"][hi["memData"] + i]]
  <2>1. ASSUME NEW i \in 1 .. w PROVE Word(n, {}, i = w) = I["memData"][hi["memData"] + i]
    <3> DEFINE k == off + i
               L == p[n].first + p[n].second
    <3>1. p[n].first \in Nat /\ p[n].second \in Nat  BY <1>5, PlanFacts
    <3>2. k \in 1 .. L  BY <1>2, <3>1
    <3>3. I["memData"][S["memData"][n] + k] = Content(p[n], n)["memData"][k]
      <4>1. k \in 1 .. Len(Content(p[n], n)["memData"])  BY <1>5, <3>2
      <4> HIDE DEF k
      <4>2. \A x \in 1 .. Len(Content(p[n], n)["memData"]) :
               /\ I["memData"][S["memData"][n] + x] = Content(p[n], n)["memData"][x]
               /\ S["memData"][n] + x <= S["memData"][N + 1]
        <5>1. n \in 1 .. N /\ "memData" \in PipeStreams  BY <1>3
        <5> QED  BY <5>1, ItemAt
      <4> QED  BY <4>1, <4>2
    <3>4. Content(p[n], n)["memData"][k] = Word(n, {}, k = p[n].first \/ k = L)
      <4> HIDE DEF k
      <4> QED  BY <3>2 DEF Content
    <3>5. (k = p[n].first \/ k = L) = (i = w)  BY <1>2
    <3>6. hi["memData"] + i = S["memData"][n] + k  BY <1>2, <1>5
    <3> HIDE DEF k, L
    <3> QED  BY <3>3, <3>4, <3>5, <3>6
  <2> QED  BY <1>4, <2>1
<1>7. hi["memData"] + w <= S["memData"][N + 1]
  <2> DEFINE L == p[n].first + p[n].second
  <2>1. L \in Nat  BY <1>5, PlanFacts
  <2>2. S["memData"][n + 1] = S["memData"][n] + Len(Content(p[n], n)["memData"])
    BY <1>3, ItemAt
  <2>3. n + 1 \in 1 .. N + 1 /\ N + 1 \in 1 .. N + 1  BY <1>5
  <2>4. S["memData"][n + 1] <= S["memData"][N + 1] /\ S["memData"][N + 1] \in Nat
    BY <1>3, <2>3, StreamFacts
  <2>5. S["memData"][n] + L <= S["memData"][N + 1] /\ off + w <= L
    BY <1>2, <1>5, <2>2, <2>4
  <2> HIDE DEF L
  <2> DEFINE a == S["memData"][n]
             c == S["memData"][N + 1]
             h == hi["memData"]
  <2>6. a \in Nat /\ c \in Nat /\ h = a + off /\ a + L <= c  BY <1>2, <1>5, <2>4, <2>5
  <2> HIDE DEF a, c, h
  <2>7. h + w <= c  BY <2>1, <2>5, <2>6
  <2> QED  BY <2>7 DEF h, c
<1>8. Windows(N, S, I, lo2, hi2)'
  <2> SUFFICES ASSUME NEW s \in PipeStreams
               PROVE  Window(s, I[s], lo2[s], hi2[s])' /\ hi2[s] <= S[s][N + 1]
    BY DEF Windows
  <2>1. Window(s, I[s], lo[s], hi[s]) /\ hi[s] <= S[s][N + 1] /\ s \in Names /\ hi[s] \in Nat
    BY TxPipeAssumption, StreamFacts DEF InFlow, Windows
  <2>2. lo2[s] = lo[s] + (IF s \in R THEN 1 ELSE 0)
    <3>1. lo[s] \in Nat  BY StreamFacts
    <3> QED  BY <3>1 DEF Moved
  <2>3. CASE s = "memData"
    <3>1. hi2[s] = hi[s] + w  BY <2>3
    <3>2. s \in DOMAIN W /\ W[s] = [i \in 1 .. w |-> I[s][hi[s] + i]]  BY <1>4, <1>6, <2>3
    <3>3. Window(s, I[s], lo[s] + (IF s \in R THEN 1 ELSE 0), hi[s] + w)'
      <4>1. Puts(s, W, I[s], hi[s], w)  BY <3>2 DEF Puts
      <4> QED  BY <1>1, <2>1, <4>1, WindowNext
    <3> HIDE DEF lo2, hi2
    <3> QED  BY <1>7, <2>2, <2>3, <3>1, <3>3
  <2>4. CASE s # "memData"
    <3>1. hi2[s] = hi[s] /\ hi[s] + 0 = hi[s]  BY <2>1, <2>4
    <3>2. s \notin DOMAIN W  BY <1>4, <2>4
    <3>3. Window(s, I[s], lo[s] + (IF s \in R THEN 1 ELSE 0), hi[s] + 0)'
      <4>1. Puts(s, W, I[s], hi[s], 0)  BY <3>2 DEF Puts
      <4> QED  BY <1>1, <2>1, <4>1, WindowNext
    <3> HIDE DEF lo2, hi2
    <3> QED  BY <2>1, <2>2, <3>1, <3>3
  <2> QED  BY <2>3, <2>4
<1>9. AtMemory(N, p, S, lo2, hi2, m2)'
  <2>1. lo2["memCmd"] = lo["memCmd"] + 1 /\ hi2["memData"] = hi["memData"] + w
    BY <1>3 DEF Moved
  <2> HIDE DEF lo2, hi2
  <2> QED  BY <1>2, <2>1 DEF AtMemory
<1>10. Functions(N, p, S, lo2, hi2, b, m2, t, j)'
  <2>1. Functions(N, p, S, lo, hi, b, m, t, j)  BY StreamFacts
  <2>2. Kept(hi, hi2, PipeStreams \ P)  BY DEF Kept
  <2>0. Elsewhere(N, p, S, lo2, hi2, b, m, t, j, R, P)
    <3>1. Longer(N, p, S, N, p, S)  BY <1>5 DEF Longer
    <3> HIDE DEF R, P, hi2
    <3> QED  BY <1>5, <2>1, <2>2, <3>1, MovedKept, Others
  <2>3. UNCHANGED <<splitter, header, breakdown, stitch, summed, out, delivered>>
    BY <1>1 DEF pipeVars
  <2> HIDE DEF lo2, hi2
  <2> QED  BY <1>9, <2>0, <2>1, <2>3 DEF Functions, Elsewhere
<1>11. Kept(hi, hi2, MlStreams)  BY DEF Kept, MlStreams, PipeStreams
<1>12. \A s \in Answers : q'[s] = q[s]
  <2>1. R \cap Answers = {} /\ DOMAIN W \cap Answers = {}  BY <1>4 DEF Answers
  <2> HIDE DEF R
  <2> QED  BY <1>1, <2>1, AnswersKept DEF InFlow
<1>13. delivered' \in Seq(Packets)  BY <1>1 DEF InFlow, AtEnds, pipeVars
<1> HIDE DEF lo2, hi2
<1> QED  BY <1>8, <1>10, <1>11, <1>12, <1>13, FlowsOn

\* The words of packet n, in the streams around tcpPkgStitcher.
LEMMA HeaderItems ==
    ASSUME NEW N, NEW p, NEW S, NEW I, NEW lo, NEW hi, NEW b, NEW m, NEW t, NEW j,
           InFlow(N, p, S, I, lo, hi, b, m, t, j), NEW n \in 1 .. N
    PROVE  /\ S["tcpHeader"][n] \in Nat
           /\ S["tcpHeader"][n + 1] = S["tcpHeader"][n] + HeaderSize(p[n])
           /\ \A k \in 1 .. HeaderSize(p[n]) :
                 I["tcpHeader"][S["tcpHeader"][n] + k] = HeaderWord(p[n], n, k)
<1>1. "tcpHeader" \in PipeStreams /\ n \in 1 .. N  BY DEF PipeStreams
<1>2. p[n] \in Plan /\ S["tcpHeader"][n] \in Nat
      /\ S["tcpHeader"][n + 1] = S["tcpHeader"][n] + Len(Content(p[n], n)["tcpHeader"])
  BY <1>1, ItemAt
<1>3. Len(Content(p[n], n)["tcpHeader"]) = HeaderSize(p[n])  BY <1>2, Sizes
<1>4. \A k \in 1 .. Len(Content(p[n], n)["tcpHeader"]) :
         /\ I["tcpHeader"][S["tcpHeader"][n] + k] = Content(p[n], n)["tcpHeader"][k]
         /\ S["tcpHeader"][n] + k <= S["tcpHeader"][N + 1]
  BY <1>1, ItemAt
<1>5. \A k \in 1 .. HeaderSize(p[n]) : Content(p[n], n)["tcpHeader"][k] = HeaderWord(p[n], n, k)
  BY DEF Content
<1> QED  BY <1>2, <1>3, <1>4, <1>5

LEMMA DataItems ==
    ASSUME NEW N, NEW p, NEW S, NEW I, NEW lo, NEW hi, NEW b, NEW m, NEW t, NEW j,
           InFlow(N, p, S, I, lo, hi, b, m, t, j), NEW n \in 1 .. N
    PROVE  /\ S["memData"][n] \in Nat
           /\ S["memData"][n + 1] = S["memData"][n] + (p[n].first + p[n].second)
           /\ \A k \in 1 .. p[n].first + p[n].second :
                 I["memData"][S["memData"][n] + k]
                    = Word(n, {}, k = p[n].first \/ k = p[n].first + p[n].second)
<1>1. "memData" \in PipeStreams /\ n \in 1 .. N  BY DEF PipeStreams
<1>2. p[n] \in Plan /\ S["memData"][n] \in Nat
      /\ S["memData"][n + 1] = S["memData"][n] + Len(Content(p[n], n)["memData"])
  BY <1>1, ItemAt
<1>3. Len(Content(p[n], n)["memData"]) = p[n].first + p[n].second  BY <1>2, Sizes
<1>4. \A k \in 1 .. Len(Content(p[n], n)["memData"]) :
         /\ I["memData"][S["memData"][n] + k] = Content(p[n], n)["memData"][k]
         /\ S["memData"][n] + k <= S["memData"][N + 1]
  BY <1>1, ItemAt
<1>5. \A k \in 1 .. p[n].first + p[n].second :
         Content(p[n], n)["memData"][k]
            = Word(n, {}, k = p[n].first \/ k = p[n].first + p[n].second)
  BY DEF Content
<1> QED  BY <1>2, <1>3, <1>4, <1>5

\* The flag whether the memory is accessed twice.
LEMMA FlagItem ==
    ASSUME NEW N, NEW p, NEW S, NEW I, NEW lo, NEW hi, NEW b, NEW m, NEW t, NEW j,
           InFlow(N, p, S, I, lo, hi, b, m, t, j), NEW n \in 1 .. N
    PROVE  /\ S["readCmd"][n] \in Nat
           /\ S["readCmd"][n + 1] = S["readCmd"][n] + (IF p[n].first = 0 THEN 0 ELSE 1)
           /\ p[n].first # 0 =>
                 I["accessFlag"][S["readCmd"][n] + 1] = (IF p[n].second > 0 THEN 1 ELSE 0)
<1>1. "accessFlag" \in PipeStreams /\ n \in 1 .. N  BY DEF PipeStreams
<1>2. p[n] \in Plan /\ S["accessFlag"][n] \in Nat
      /\ S["accessFlag"][n + 1] = S["accessFlag"][n] + Len(Content(p[n], n)["accessFlag"])
  BY <1>1, ItemAt
<1>3. Len(Content(p[n], n)["accessFlag"]) = (IF p[n].first = 0 THEN 0 ELSE 1)  BY <1>2, Sizes
<1>4. \A k \in 1 .. Len(Content(p[n], n)["accessFlag"]) :
         /\ I["accessFlag"][S["accessFlag"][n] + k] = Content(p[n], n)["accessFlag"][k]
         /\ S["accessFlag"][n] + k <= S["accessFlag"][N + 1]
  BY <1>1, ItemAt
<1>5. p[n].first # 0 =>
         Content(p[n], n)["accessFlag"][1] = (IF p[n].second > 0 THEN 1 ELSE 0)
  BY DEF Content
<1>6. S["accessFlag"] = S["readCmd"]  BY DEF InFlow, History
<1>7. p[n].first # 0 =>
         I["accessFlag"][S["accessFlag"][n] + 1] = (IF p[n].second > 0 THEN 1 ELSE 0)
  <2> SUFFICES ASSUME p[n].first # 0
               PROVE  I["accessFlag"][S["accessFlag"][n] + 1]
                         = (IF p[n].second > 0 THEN 1 ELSE 0)
    OBVIOUS
  <2>1. 1 \in 1 .. Len(Content(p[n], n)["accessFlag"])  BY <1>3
  <2>2. I["accessFlag"][S["accessFlag"][n] + 1] = Content(p[n], n)["accessFlag"][1]
    BY <1>4, <2>1
  <2> QED  BY <1>5, <2>2
<1> QED  BY <1>2, <1>3, <1>6, <1>7

LEMMA PacketItems ==
    ASSUME NEW N, NEW p, NEW S, NEW I, NEW lo, NEW hi, NEW b, NEW m, NEW t, NEW j,
           InFlow(N, p, S, I, lo, hi, b, m, t, j), NEW n \in 1 .. N
    PROVE  /\ S["tcpPkg1"][n] \in Nat
           /\ S["tcpPkg1"][n + 1] = S["tcpPkg1"][n] + PacketSize(p[n])
           /\ \A k \in 1 .. PacketSize(p[n]) :
                 /\ I["tcpPkg1"][S["tcpPkg1"][n] + k] = PacketWord(p[n], n, k)
                 /\ S["tcpPkg1"][n] + k <= S["tcpPkg1"][N + 1]
<1>1. "tcpPkg1" \in PipeStreams /\ n \in 1 .. N  BY DEF PipeStreams
<1>2. p[n] \in Plan /\ S["tcpPkg1"][n] \in Nat
      /\ S["tcpPkg1"][n + 1] = S["tcpPkg1"][n] + Len(Content(p[n], n)["tcpPkg1"])
  BY <1>1, ItemAt
<1>3. Len(Content(p[n], n)["tcpPkg1"]) = PacketSize(p[n])  BY <1>2, Sizes
<1>4. \A k \in 1 .. Len(Content(p[n], n)["tcpPkg1"]) :
         /\ I["tcpPkg1"][S["tcpPkg1"][n] + k] = Content(p[n], n)["tcpPkg1"][k]
         /\ S["tcpPkg1"][n] + k <= S["tcpPkg1"][N + 1]
  BY <1>1, ItemAt
<1>5. \A k \in 1 .. PacketSize(p[n]) : Content(p[n], n)["tcpPkg1"][k] = PacketWord(p[n], n, k)
  BY DEF Content
<1> QED  BY <1>2, <1>3, <1>4, <1>5

\* tcpPkgStitcher puts the next word of packet t.
LEMMA StitchPut ==
    ASSUME NEW N, NEW p, NEW S, NEW I, NEW lo, NEW hi, NEW b, NEW m, NEW t, NEW j,
           InFlow(N, p, S, I, lo, hi, b, m, t, j), t \in 1 .. N, j + 1 <= PacketSize(p[t]),
           NEW R, R \subseteq {"tcpHeader", "accessFlag", "memData"},
           NEW v, v = PacketWord(p[t], t, j + 1), Transfer(R, To("tcpPkg1", v)),
           NEW t2, NEW j2,
           AtStitcher(N, p, S, Moved(lo, R), Moved(hi, {"tcpPkg1"}), t2, j2)',
           UNCHANGED <<splitter, header, breakdown, summed, out, delivered>>,
           ml' = ml, accepted' = accepted
    PROVE  Flow'
<1> DEFINE P == {"tcpPkg1"}
           lo2 == Moved(lo, R)
           hi2 == Moved(hi, P)
<1>1. "tcpPkg1" \in PipeStreams \ MlStreams /\ R \subseteq PipeStreams
  BY DEF PipeStreams, MlStreams
<1>2. j \in Nat /\ hi["tcpPkg1"] = S["tcpPkg1"][t] + j
  BY StreamFacts DEF Functions, AtStitcher
<1>3. v = I["tcpPkg1"][hi["tcpPkg1"] + 1] /\ hi["tcpPkg1"] + 1 <= S["tcpPkg1"][N + 1]
  <2> DEFINE k == j + 1
  <2>1. p[t] \in Plan  BY StreamFacts
  <2>2. PacketSize(p[t]) \in Nat  BY <2>1, PlanFacts
  <2>3. k \in 1 .. PacketSize(p[t])  BY <1>2, <2>2
  <2>4. S["tcpPkg1"][t] \in Nat /\ v = PacketWord(p[t], t, k)  BY PacketItems
  <2>5. hi["tcpPkg1"] + 1 = S["tcpPkg1"][t] + k  BY <1>2, <2>4
  <2> HIDE DEF k
  <2>6. /\ I["tcpPkg1"][S["tcpPkg1"][t] + k] = PacketWord(p[t], t, k)
        /\ S["tcpPkg1"][t] + k <= S["tcpPkg1"][N + 1]
    BY <2>3, PacketItems
  <2> QED  BY <2>4, <2>5, <2>6
<1>4. Functions(N, p, S, lo2, hi2, b, m, t2, j2)'
  <2>1. N \in Nat /\ Functions(N, p, S, lo, hi, b, m, t, j)  BY StreamFacts
  <2>0. Elsewhere(N, p, S, lo2, hi2, b, m, t, j, R, P)  BY StreamFacts, OthersMoved
  <2>2. AtStitcher(N, p, S, lo2, hi2, t2, j2)'  OBVIOUS
  <2> HIDE DEF lo2, hi2
  <2> QED  BY <2>0, <2>1, <2>2 DEF Functions, Elsewhere
<1> QED  BY <1>1, <1>3, <1>4, PutOne

LEMMA StitchHeaderFlow ==
    ASSUME NEW N, NEW p, NEW S, NEW I, NEW lo, NEW hi, NEW b, NEW m, NEW t, NEW j,
           InFlow(N, p, S, I, lo, hi, b, m, t, j),
           StitchHeader, ml' = ml, accepted' = accepted
    PROVE  Flow'
<1> DEFINE R == {"tcpHeader"}
           word == Front("tcpHeader")
           flags == stitch.word = 2
           v == Word(word.pkt, word.tuples, word.last)
           lo2 == Moved(lo, R)
           hi2 == Moved(hi, {"tcpPkg1"})
<1>1. /\ stitch.state = "header" /\ Has("tcpHeader") /\ Transfer(R, To("tcpPkg1", v))
      /\ stitch' = [state |-> IF word.last \/ ~flags THEN "header"
                              ELSE IF word.syn THEN "option" ELSE "data",
                    flag |-> Unread,
                    word |-> IF word.last \/ flags THEN 0 ELSE stitch.word + 1]
      /\ UNCHANGED <<splitter, header, breakdown, summed, out, delivered>>
  BY DEF StitchHeader
<1>2. {"tcpHeader", "accessFlag", "memData", "tcpPkg1"} \subseteq PipeStreams
  BY DEF PipeStreams
<1>3. /\ t \in 1 .. N + 1 /\ j \in 0 .. 2 /\ (j # 0 => t \in 1 .. N) /\ N \in Nat
      /\ lo["tcpHeader"] = S["tcpHeader"][t] + j /\ hi["tcpPkg1"] = S["tcpPkg1"][t] + j
      /\ lo["accessFlag"] = S["readCmd"][t] + 0 /\ lo["memData"] = S["memData"][t] + 0
      /\ stitch.word = j
  <2>1. AtStitcher(N, p, S, lo, hi, t, j) /\ N \in Nat  BY StreamFacts DEF Functions
  <2>2. j \in Nat /\ j < 3  BY <1>1, <2>1 DEF AtStitcher
  <2>3. stitch = [state |-> stitch.state, flag |-> stitch.flag, word |-> j]
    BY <2>1, <2>2 DEF AtStitcher
  <2>4. stitch.word = j  BY <2>3
  <2> QED  BY <1>1, <2>1, <2>2, <2>4 DEF AtStitcher
<1>4. t \in 1 .. N
  <2>1. /\ lo["tcpHeader"] < hi["tcpHeader"] /\ hi["tcpHeader"] <= S["tcpHeader"][N + 1]
        /\ lo["tcpHeader"] \in Nat /\ hi["tcpHeader"] \in Nat
    BY <1>1, <1>2, StreamFacts
  <2>2. S["tcpHeader"][N + 1] \in Nat
    <3>1. N + 1 \in 1 .. N + 1  BY <1>3
    <3> QED  BY <1>2, <3>1, StreamFacts
  <2>3. CASE t = N + 1 /\ j = 0  BY <1>3, <2>1, <2>2, <2>3
  <2> QED  BY <1>3, <2>3
<1>5. /\ p[t] \in Plan /\ p[t].first \in Nat /\ p[t].second \in Nat /\ p[t].syn \in BOOLEAN
      /\ HeaderSize(p[t]) = (IF p[t].syn THEN 4 ELSE 3)
      /\ PacketSize(p[t]) = HeaderSize(p[t]) + p[t].first + p[t].second
      /\ p[t].syn => p[t].length # 0
      /\ ~p[t].syn => (p[t].length = 0 <=> p[t].first = 0)
      /\ p[t].first = 0 => p[t].second = 0
  <2>1. p[t] \in Plan  BY <1>4, StreamFacts
  <2> QED  BY <2>1, PlanFacts DEF HeaderSize
<1>6. word = HeaderWord(p[t], t, j + 1)
  <2>1. S["tcpHeader"][t] \in Nat /\ lo["tcpHeader"] + 1 = S["tcpHeader"][t] + (j + 1)
    BY <1>3, <1>4, HeaderItems
  <2>2. word = I["tcpHeader"][S["tcpHeader"][t] + (j + 1)]  BY <1>1, <1>2, <2>1, StreamFacts
  <2> DEFINE k == j + 1
  <2>3. k \in 1 .. HeaderSize(p[t])  BY <1>3, <1>5
  <2>4. I["tcpHeader"][S["tcpHeader"][t] + k] = HeaderWord(p[t], t, k)
    <3> HIDE DEF k
    <3> QED  BY <1>4, <2>3, HeaderItems
  <2> QED  BY <2>2, <2>4
<1> HIDE DEF word
<1>7. /\ word.pkt = t /\ word.tuples = {p[t].tuple}
      /\ word.last <=> j = 2 /\ PacketSize(p[t]) = 3
      /\ word.last \in BOOLEAN
      /\ j = 2 => word.syn = p[t].syn
  <2>1. CASE j = 0
    <3>1. word = Word(t, {p[t].tuple}, FALSE)  BY <1>6, <2>1 DEF HeaderWord
    <3> QED  BY <2>1, <3>1 DEF Word
  <2>2. CASE j # 0
    <3>1. word = [pkt |-> t, tuples |-> {p[t].tuple},
                  last |-> j + 1 = 4 \/ (j + 1 = 3 /\ p[t].length = 0), syn |-> p[t].syn]
      <4>1. j + 1 # 1  BY <1>3, <2>2
      <4> QED  BY <1>6, <4>1 DEF HeaderWord
    <3>2. /\ word.pkt = t /\ word.tuples = {p[t].tuple} /\ word.syn = p[t].syn
          /\ word.last = (j + 1 = 4 \/ (j + 1 = 3 /\ p[t].length = 0))
      BY <3>1
    <3>3. (j + 1 = 4 \/ (j + 1 = 3 /\ p[t].length = 0)) <=> j = 2 /\ PacketSize(p[t]) = 3
      BY <1>3, <1>5
    <3> QED  BY <3>2, <3>3
  <2> QED  BY <2>1, <2>2
<1>8. v = PacketWord(p[t], t, j + 1) /\ j + 1 <= PacketSize(p[t])
  <2>1. /\ j + 1 <= HeaderSize(p[t]) /\ j + 1 <= PacketSize(p[t])
        /\ (j = 2 /\ PacketSize(p[t]) = 3) <=> j + 1 = PacketSize(p[t])
    BY <1>3, <1>5
  <2>2. word.last = (j + 1 = PacketSize(p[t]))  BY <1>7, <2>1
  <2> QED  BY <1>7, <2>1, <2>2 DEF PacketWord
<1> HIDE DEF v
<1>9. /\ lo2["tcpHeader"] = lo["tcpHeader"] + 1 /\ hi2["tcpPkg1"] = hi["tcpPkg1"] + 1
      /\ lo2["accessFlag"] = lo["accessFlag"] /\ lo2["memData"] = lo["memData"]
  BY <1>2 DEF Moved
<1>10. /\ S["tcpHeader"][t] \in Nat /\ S["tcpPkg1"][t] \in Nat
       /\ S["readCmd"][t] \in Nat /\ S["memData"][t] \in Nat
  BY <1>4, HeaderItems, PacketItems, FlagItem, DataItems
<1>11. CASE word.last
  <2>1. j = 2 /\ PacketSize(p[t]) = 3 /\ p[t].first = 0 /\ p[t].second = 0 /\ HeaderSize(p[t]) = 3
    BY <1>5, <1>7, <1>11
  <2>2. /\ S["tcpHeader"][t + 1] = S["tcpHeader"][t] + 3
        /\ S["tcpPkg1"][t + 1] = S["tcpPkg1"][t] + 3
        /\ S["readCmd"][t + 1] = S["readCmd"][t] + 0
        /\ S["memData"][t + 1] = S["memData"][t] + (0 + 0)
    <3>1. S["tcpHeader"][t + 1] = S["tcpHeader"][t] + HeaderSize(p[t])  BY <1>4, HeaderItems
    <3>2. S["tcpPkg1"][t + 1] = S["tcpPkg1"][t] + PacketSize(p[t])  BY <1>4, PacketItems
    <3>3. S["readCmd"][t + 1] = S["readCmd"][t] + (IF p[t].first = 0 THEN 0 ELSE 1)
      BY <1>4, FlagItem
    <3>4. S["memData"][t + 1] = S["memData"][t] + (p[t].first + p[t].second)
      BY <1>4, DataItems
    <3> QED  BY <2>1, <3>1, <3>2, <3>3, <3>4
  <2>3. /\ lo2["tcpHeader"] = S["tcpHeader"][t + 1] + 0
        /\ hi2["tcpPkg1"] = S["tcpPkg1"][t + 1] + 0
        /\ lo2["accessFlag"] = S["readCmd"][t + 1] + 0
        /\ lo2["memData"] = S["memData"][t + 1] + 0
    BY <1>3, <1>9, <1>10, <2>1, <2>2
  <2>4. stitch' = [state |-> "header", flag |-> Unread, word |-> 0]  BY <1>1, <1>11
  <2>5. t + 1 \in 1 .. N + 1  BY <1>3, <1>4
  <2> HIDE DEF lo2, hi2
  <2>6. AtStitcher(N, p, S, lo2, hi2, t + 1, 0)'  BY <2>3, <2>4, <2>5 DEF AtStitcher
  <2> QED  BY <1>1, <1>4, <1>8, <2>6, StitchPut DEF lo2, hi2
<1>12. CASE ~word.last /\ j # 2
  <2>1. /\ lo2["tcpHeader"] = S["tcpHeader"][t] + (j + 1)
        /\ hi2["tcpPkg1"] = S["tcpPkg1"][t] + (j + 1)
        /\ j + 1 \in 0 .. 2 /\ j + 1 # 0
    BY <1>3, <1>9, <1>10, <1>12
  <2>2. stitch' = [state |-> "header", flag |-> Unread, word |-> j + 1]
    BY <1>1, <1>3, <1>12
  <2> HIDE DEF lo2, hi2
  <2>3. AtStitcher(N, p, S, lo2, hi2, t, j + 1)'
    <3> DEFINE k == j + 1
    <3> HIDE DEF k
    <3>1. /\ lo2["tcpHeader"] = S["tcpHeader"][t] + k /\ hi2["tcpPkg1"] = S["tcpPkg1"][t] + k
          /\ k \in 0 .. 2 /\ k # 0
          /\ stitch' = [state |-> "header", flag |-> Unread, word |-> k]
      BY <2>1, <2>2 DEF k
    <3>2. k \in Nat /\ k <= 3 /\ k < 3  BY <3>1
    <3>3. AtStitcher(N, p, S, lo2, hi2, t, k)'
      BY <1>3, <1>4, <1>9, <3>1, <3>2 DEF AtStitcher, lo2, hi2
    <3> QED  BY <3>3 DEF k
  <2> QED  BY <1>1, <1>4, <1>8, <2>3, StitchPut DEF lo2, hi2
<1>13. CASE ~word.last /\ j = 2
  <2>1. /\ lo2["tcpHeader"] = S["tcpHeader"][t] + 3 /\ hi2["tcpPkg1"] = S["tcpPkg1"][t] + 3
        /\ lo2["accessFlag"] = S["readCmd"][t] + 0 /\ lo2["memData"] = S["memData"][t] + 0
    BY <1>3, <1>9, <1>10, <1>13
  <2>2. stitch' = [state |-> IF p[t].syn THEN "option" ELSE "data", flag |-> Unread, word |-> 0]
    BY <1>1, <1>3, <1>7, <1>13
  <2>3. ~p[t].syn => 3 - 3 < p[t].first + p[t].second  BY <1>5, <1>7, <1>13
  <2>4. 3 \in Nat /\ 3 <= 3 /\ ~(3 < 3) /\ 3 >= 3 /\ 3 - 3 = 0  OBVIOUS
  <2> HIDE DEF lo2, hi2
  <2>5. AtStitcher(N, p, S, lo2, hi2, t, 3)'
    <3>1. CASE p[t].syn
      <4>1. stitch' = [state |-> "option", flag |-> Unread, word |-> 0]  BY <2>2, <3>1
      <4> QED  BY <1>3, <1>4, <2>1, <2>4, <3>1, <4>1 DEF AtStitcher
    <3>2. CASE ~p[t].syn
      <4>1. stitch' = [state |-> "data", flag |-> Unread, word |-> 0]  BY <2>2, <3>2
      <4> QED  BY <1>3, <1>4, <2>1, <2>3, <2>4, <3>2, <4>1 DEF AtStitcher
    <3> QED  BY <3>1, <3>2
  <2> QED  BY <1>1, <1>4, <1>8, <2>5, StitchPut DEF lo2, hi2
<1> QED  BY <1>11, <1>12, <1>13

LEMMA StitchOptionFlow ==
    ASSUME NEW N, NEW p, NEW S, NEW I, NEW lo, NEW hi, NEW b, NEW m, NEW t, NEW j,
           InFlow(N, p, S, I, lo, hi, b, m, t, j),
           StitchOption, ml' = ml, accepted' = accepted
    PROVE  Flow'
<1> DEFINE R == {"tcpHeader"}
           word == Front("tcpHeader")
           v == Word(word.pkt, word.tuples, word.last)
           lo2 == Moved(lo, R)
           hi2 == Moved(hi, {"tcpPkg1"})
<1>1. /\ stitch.state = "option" /\ Has("tcpHeader") /\ Transfer(R, To("tcpPkg1", v))
      /\ stitch' = [stitch EXCEPT !.state = "header"]
      /\ UNCHANGED <<splitter, header, breakdown, summed, out, delivered>>
  BY DEF StitchOption
<1>2. {"tcpHeader", "accessFlag", "memData", "tcpPkg1"} \subseteq PipeStreams
  BY DEF PipeStreams
<1>3. /\ t \in 1 .. N /\ j = 3 /\ p[t].syn /\ N \in Nat
      /\ lo["tcpHeader"] = S["tcpHeader"][t] + 3 /\ hi["tcpPkg1"] = S["tcpPkg1"][t] + 3
      /\ lo["accessFlag"] = S["readCmd"][t] + 0 /\ lo["memData"] = S["memData"][t] + 0
      /\ stitch = [state |-> stitch.state, flag |-> stitch.flag, word |-> 0]
  <2>1. AtStitcher(N, p, S, lo, hi, t, j) /\ N \in Nat  BY StreamFacts DEF Functions
  <2> QED  BY <1>1, <2>1 DEF AtStitcher
<1>4. p[t] \in Plan /\ p[t].first = 0 /\ p[t].second = 0 /\ HeaderSize(p[t]) = 4
      /\ PacketSize(p[t]) = 4
  <2>1. p[t] \in Plan  BY <1>3, StreamFacts
  <2> QED  BY <1>3, <2>1, PlanFacts DEF HeaderSize
<1>5. /\ S["tcpHeader"][t] \in Nat /\ S["tcpHeader"][t + 1] = S["tcpHeader"][t] + 4
      /\ S["tcpPkg1"][t] \in Nat /\ S["tcpPkg1"][t + 1] = S["tcpPkg1"][t] + 4
      /\ S["readCmd"][t] \in Nat /\ S["readCmd"][t + 1] = S["readCmd"][t] + 0
      /\ S["memData"][t] \in Nat /\ S["memData"][t + 1] = S["memData"][t] + (0 + 0)
  <2>1. S["tcpHeader"][t] \in Nat /\ S["tcpHeader"][t + 1] = S["tcpHeader"][t] + HeaderSize(p[t])
    BY <1>3, HeaderItems
  <2>2. S["tcpPkg1"][t] \in Nat /\ S["tcpPkg1"][t + 1] = S["tcpPkg1"][t] + PacketSize(p[t])
    BY <1>3, PacketItems
  <2>3. S["readCmd"][t] \in Nat
        /\ S["readCmd"][t + 1] = S["readCmd"][t] + (IF p[t].first = 0 THEN 0 ELSE 1)
    BY <1>3, FlagItem
  <2>4. S["memData"][t] \in Nat
        /\ S["memData"][t + 1] = S["memData"][t] + (p[t].first + p[t].second)
    BY <1>3, DataItems
  <2> QED  BY <1>4, <2>1, <2>2, <2>3, <2>4
<1>6. word = HeaderWord(p[t], t, 4)
  <2>1. lo["tcpHeader"] + 1 = S["tcpHeader"][t] + 4  BY <1>3, <1>5
  <2>2. word = I["tcpHeader"][S["tcpHeader"][t] + 4]  BY <1>1, <1>2, <2>1, StreamFacts
  <2>3. 4 \in 1 .. HeaderSize(p[t])  BY <1>4
  <2>4. I["tcpHeader"][S["tcpHeader"][t] + 4] = HeaderWord(p[t], t, 4)
    BY <1>3, <2>3, HeaderItems
  <2> QED  BY <2>2, <2>4
<1> HIDE DEF word
<1>7. v = PacketWord(p[t], t, j + 1) /\ j + 1 <= PacketSize(p[t])
  <2>1. word = [pkt |-> t, tuples |-> {p[t].tuple}, last |-> TRUE, syn |-> p[t].syn]
    <3>1. 4 # 1 /\ (4 = 4 \/ (4 = 3 /\ p[t].length = 0)) = TRUE  OBVIOUS
    <3> QED  BY <1>6, <3>1 DEF HeaderWord
  <2>2. v = Word(t, {p[t].tuple}, TRUE)  BY <2>1
  <2>3. j + 1 = 4  BY <1>3
  <2>4. PacketWord(p[t], t, 4) = Word(t, {p[t].tuple}, TRUE)
    <3>1. 4 <= HeaderSize(p[t]) /\ (4 = PacketSize(p[t])) = TRUE  BY <1>4
    <3> QED  BY <3>1 DEF PacketWord
  <2>5. j + 1 <= PacketSize(p[t])  BY <1>4, <2>3
  <2> HIDE DEF v
  <2> QED  BY <2>2, <2>3, <2>4, <2>5
<1> HIDE DEF v
<1>8. /\ lo2["tcpHeader"] = S["tcpHeader"][t + 1] + 0
      /\ hi2["tcpPkg1"] = S["tcpPkg1"][t + 1] + 0
      /\ lo2["accessFlag"] = S["readCmd"][t + 1] + 0
      /\ lo2["memData"] = S["memData"][t + 1] + 0
  <2>1. /\ lo2["tcpHeader"] = lo["tcpHeader"] + 1 /\ hi2["tcpPkg1"] = hi["tcpPkg1"] + 1
        /\ lo2["accessFlag"] = lo["accessFlag"] /\ lo2["memData"] = lo["memData"]
    BY <1>2 DEF Moved
  <2> QED  BY <1>3, <1>5, <2>1
<1>9. stitch' = [state |-> "header", flag |-> stitch.flag, word |-> 0]  BY <1>1, <1>3
<1>10. t + 1 \in 1 .. N + 1  BY <1>3
<1>11. AtStitcher(N, p, S, lo2, hi2, t + 1, 0)'
  <2> HIDE DEF lo2, hi2
  <2> QED  BY <1>8, <1>9, <1>10 DEF AtStitcher
<1> QED  BY <1>1, <1>3, <1>7, <1>11, StitchPut

LEMMA StitchDataFlow ==
    ASSUME NEW N, NEW p, NEW S, NEW I, NEW lo, NEW hi, NEW b, NEW m, NEW t, NEW j,
           InFlow(N, p, S, I, lo, hi, b, m, t, j),
           StitchData, ml' = ml, accepted' = accepted
    PROVE  Flow'
<1> DEFINE word == Front("memData")
           two  == IF stitch.flag = Unread THEN Front("accessFlag") ELSE stitch.flag
           last == word.last /\ two = 0
           v == Word(word.pkt, {}, last)
           F == p[t].first
           G == p[t].second
<1>1. PICK R : R = {"memData"} \cup (IF stitch.flag = Unread THEN {"accessFlag"} ELSE {})
  OBVIOUS
<1> DEFINE lo2 == Moved(lo, R)
           hi2 == Moved(hi, {"tcpPkg1"})
<1>2. /\ stitch.state = "data" /\ Has("memData")
      /\ stitch.flag = Unread => Has("accessFlag")
      /\ Transfer(R, To("tcpPkg1", v))
      /\ stitch' = [state |-> IF last THEN "header" ELSE "data",
                    flag |-> IF word.last THEN 0 ELSE two, word |-> 0]
      /\ UNCHANGED <<splitter, header, breakdown, summed, out, delivered>>
  BY <1>1 DEF StitchData
<1>3. {"tcpHeader", "accessFlag", "memData", "tcpPkg1"} \subseteq PipeStreams
  BY DEF PipeStreams
<1>4. /\ t \in 1 .. N /\ ~p[t].syn /\ N \in Nat /\ j \in Nat /\ j >= 3 /\ j - 3 < F + G
      /\ lo["tcpHeader"] = S["tcpHeader"][t] + 3 /\ hi["tcpPkg1"] = S["tcpPkg1"][t] + j
      /\ lo["accessFlag"] = S["readCmd"][t] + (IF j = 3 THEN 0 ELSE 1)
      /\ lo["memData"] = S["memData"][t] + (j - 3)
      /\ stitch.flag = (IF j = 3 THEN Unread ELSE IF G # 0 /\ j - 3 < F THEN 1 ELSE 0)
  <2>1. AtStitcher(N, p, S, lo, hi, t, j) /\ N \in Nat  BY StreamFacts DEF Functions
  <2>2. /\ t \in 1 .. N /\ ~p[t].syn /\ j \in Nat /\ j >= 3 /\ j - 3 < F + G
        /\ lo["tcpHeader"] = S["tcpHeader"][t] + (IF j <= 3 THEN j ELSE 3)
        /\ hi["tcpPkg1"] = S["tcpPkg1"][t] + j
        /\ lo["accessFlag"] = S["readCmd"][t] + (IF j <= 3 THEN 0 ELSE 1)
        /\ lo["memData"] = S["memData"][t] + (IF j <= 3 THEN 0 ELSE j - 3)
        /\ stitch.flag = (IF j = 3 THEN Unread ELSE IF G # 0 /\ j - 3 < F THEN 1 ELSE 0)
    BY <1>2, <2>1 DEF AtStitcher
  <2>3. (j <= 3 <=> j = 3) /\ (j = 3 => j - 3 = 0)  BY <2>2
  <2> QED  BY <2>1, <2>2, <2>3
<1>5. /\ p[t] \in Plan /\ F \in Nat /\ G \in Nat /\ HeaderSize(p[t]) = 3
      /\ PacketSize(p[t]) = 3 + F + G /\ (F = 0 => G = 0) /\ F # 0
  <2>1. p[t] \in Plan  BY <1>4, StreamFacts
  <2>2. F \in Nat /\ G \in Nat /\ HeaderSize(p[t]) = 3
        /\ PacketSize(p[t]) = 3 + F + G /\ (F = 0 => G = 0)
    BY <1>4, <2>1, PlanFacts DEF HeaderSize
  <2> QED  BY <1>4, <2>1, <2>2
<1>6. /\ S["tcpHeader"][t] \in Nat /\ S["tcpPkg1"][t] \in Nat
      /\ S["readCmd"][t] \in Nat /\ S["memData"][t] \in Nat
  BY <1>4, HeaderItems, PacketItems, FlagItem, DataItems
<1>7. word = Word(t, {}, j - 2 = F \/ j - 2 = F + G)
  <2> DEFINE k == j - 2
  <2>1. k \in 1 .. F + G /\ lo["memData"] + 1 = S["memData"][t] + k  BY <1>4, <1>5, <1>6
  <2>2. word = I["memData"][S["memData"][t] + k]  BY <1>2, <1>3, <2>1, StreamFacts
  <2> HIDE DEF k
  <2>3. I["memData"][S["memData"][t] + k] = Word(t, {}, k = F \/ k = F + G)
    BY <1>4, <2>1, DataItems
  <2> QED  BY <2>2, <2>3 DEF k
<1>8. two = IF G # 0 /\ j - 3 < F THEN 1 ELSE 0
  <2>1. CASE j = 3
    <3>1. stitch.flag = Unread /\ Has("accessFlag")  BY <1>2, <1>4, <2>1
    <3>2. lo["accessFlag"] + 1 = S["readCmd"][t] + 1  BY <1>4, <1>6, <2>1
    <3>3. Front("accessFlag") = I["accessFlag"][S["readCmd"][t] + 1]
      BY <1>3, <3>1, <3>2, StreamFacts
    <3>4. Front("accessFlag") = (IF G > 0 THEN 1 ELSE 0)  BY <1>4, <1>5, <3>3, FlagItem
    <3>5. G > 0 <=> G # 0 /\ j - 3 < F  BY <1>5, <2>1
    <3> QED  BY <3>1, <3>4, <3>5
  <2>2. CASE j # 3
    <3>1. stitch.flag # Unread  BY <1>4, <2>2 DEF Unread
    <3> QED  BY <1>4, <2>2, <3>1
  <2> QED  BY <2>1, <2>2
<1> HIDE DEF word, two
<1>9. /\ word.pkt = t /\ word.last \in BOOLEAN
      /\ word.last <=> j - 2 = F \/ j - 2 = F + G
  BY <1>7 DEF Word
<1>10. last <=> j + 1 = 3 + F + G
  BY <1>4, <1>5, <1>8, <1>9
<1>11. v = PacketWord(p[t], t, j + 1) /\ j + 1 <= PacketSize(p[t])
  <2>1. last = (j + 1 = PacketSize(p[t]))  BY <1>5, <1>10
  <2>2. ~(j + 1 <= HeaderSize(p[t])) /\ j + 1 <= PacketSize(p[t])  BY <1>4, <1>5
  <2> HIDE DEF last
  <2> QED  BY <1>9, <2>1, <2>2 DEF PacketWord
<1> HIDE DEF v
<1>12. /\ lo2["memData"] = lo["memData"] + 1 /\ hi2["tcpPkg1"] = hi["tcpPkg1"] + 1
       /\ lo2["tcpHeader"] = lo["tcpHeader"]
       /\ lo2["accessFlag"] = S["readCmd"][t] + 1
  <2>1. "memData" \in R /\ "tcpHeader" \notin R /\ ("accessFlag" \in R <=> stitch.flag = Unread)
    BY <1>1
  <2>2. stitch.flag = Unread <=> j = 3  BY <1>4 DEF Unread
  <2>3. lo2["accessFlag"] = IF j = 3 THEN lo["accessFlag"] + 1 ELSE lo["accessFlag"]
    BY <1>3, <2>1, <2>2 DEF Moved
  <2>4. lo2["accessFlag"] = S["readCmd"][t] + 1  BY <1>4, <1>6, <2>3
  <2> QED  BY <1>3, <2>1, <2>4 DEF Moved
<1>13. R \subseteq {"tcpHeader", "accessFlag", "memData"}  BY <1>1
<1>14. CASE last
  <2>1. j + 1 = 3 + F + G  BY <1>10, <1>14
  <2>2. /\ S["tcpHeader"][t + 1] = S["tcpHeader"][t] + 3
        /\ S["tcpPkg1"][t + 1] = S["tcpPkg1"][t] + (j + 1)
        /\ S["readCmd"][t + 1] = S["readCmd"][t] + 1
        /\ S["memData"][t + 1] = S["memData"][t] + (F + G)
    <3>1. S["tcpHeader"][t + 1] = S["tcpHeader"][t] + HeaderSize(p[t])  BY <1>4, HeaderItems
    <3>2. S["tcpPkg1"][t + 1] = S["tcpPkg1"][t] + PacketSize(p[t])  BY <1>4, PacketItems
    <3>3. S["readCmd"][t + 1] = S["readCmd"][t] + (IF F = 0 THEN 0 ELSE 1)
      BY <1>4, FlagItem
    <3>4. S["memData"][t + 1] = S["memData"][t] + (F + G)  BY <1>4, DataItems
    <3> QED  BY <1>5, <2>1, <3>1, <3>2, <3>3, <3>4
  <2>3. j - 3 + 1 = F + G  BY <1>4, <1>5, <2>1
  <2>4. /\ lo2["tcpHeader"] = S["tcpHeader"][t + 1] + 0
        /\ hi2["tcpPkg1"] = S["tcpPkg1"][t + 1] + 0
        /\ lo2["accessFlag"] = S["readCmd"][t + 1] + 0
        /\ lo2["memData"] = S["memData"][t + 1] + 0
    BY <1>4, <1>5, <1>6, <1>12, <2>2, <2>3
  <2>5. stitch' = [state |-> "header", flag |-> IF word.last THEN 0 ELSE two, word |-> 0]
    BY <1>2, <1>14
  <2>6. t + 1 \in 1 .. N + 1  BY <1>4
  <2> HIDE DEF lo2, hi2
  <2>7. AtStitcher(N, p, S, lo2, hi2, t + 1, 0)'  BY <2>4, <2>5, <2>6 DEF AtStitcher
  <2> QED  BY <1>2, <1>4, <1>11, <1>13, <2>7, StitchPut DEF lo2, hi2
<1>15. CASE ~last
  <2> DEFINE k == j + 1
  <2>1. /\ k \in Nat /\ k >= 3 /\ ~(k <= 3) /\ ~(k < 3) /\ k # 3 /\ k - 3 < F + G
    BY <1>4, <1>5, <1>10, <1>15
  <2>2. /\ lo2["tcpHeader"] = S["tcpHeader"][t] + 3 /\ hi2["tcpPkg1"] = S["tcpPkg1"][t] + k
        /\ lo2["accessFlag"] = S["readCmd"][t] + 1 /\ lo2["memData"] = S["memData"][t] + (k - 3)
    BY <1>4, <1>6, <1>12
  <2>3. (IF word.last THEN 0 ELSE two) = (IF G # 0 /\ k - 3 < F THEN 1 ELSE 0)
    BY <1>4, <1>5, <1>8, <1>9, <1>10, <1>15
  <2>4. stitch' = [state |-> "data", flag |-> IF G # 0 /\ k - 3 < F THEN 1 ELSE 0, word |-> 0]
    BY <1>2, <1>15, <2>3
  <2> HIDE DEF lo2, hi2, k
  <2>5. AtStitcher(N, p, S, lo2, hi2, t, k)'
    <3>1. t \in 1 .. N + 1  BY <1>4
    <3> QED  BY <1>4, <2>1, <2>2, <2>4, <3>1 DEF AtStitcher
  <2> QED  BY <1>2, <1>4, <1>11, <1>13, <2>5, StitchPut DEF lo2, hi2
<1> QED  BY <1>14, <1>15

\* The words of packet n behind its first, and what they sum up to.
LEMMA RestItems ==
    ASSUME NEW N, NEW p, NEW S, NEW I, NEW lo, NEW hi, NEW b, NEW m, NEW t, NEW j,
           InFlow(N, p, S, I, lo, hi, b, m, t, j), NEW n \in 1 .. N
    PROVE  /\ S["tcpPkg2"][n] \in Nat
           /\ S["tcpPkg2"][n + 1] = S["tcpPkg2"][n] + (PacketSize(p[n]) - 1)
           /\ \A k \in 1 .. PacketSize(p[n]) - 1 :
                 /\ I["tcpPkg2"][S["tcpPkg2"][n] + k] = PacketWord(p[n], n, k + 1)
                 /\ S["tcpPkg2"][n] + k <= S["tcpPkg2"][N + 1]
<1>1. "tcpPkg2" \in PipeStreams /\ n \in 1 .. N  BY DEF PipeStreams
<1>2. p[n] \in Plan /\ S["tcpPkg2"][n] \in Nat
      /\ S["tcpPkg2"][n + 1] = S["tcpPkg2"][n] + Len(Content(p[n], n)["tcpPkg2"])
  BY <1>1, ItemAt
<1>3. Len(Content(p[n], n)["tcpPkg2"]) = PacketSize(p[n]) - 1  BY <1>2, Sizes
<1>4. \A k \in 1 .. Len(Content(p[n], n)["tcpPkg2"]) :
         /\ I["tcpPkg2"][S["tcpPkg2"][n] + k] = Content(p[n], n)["tcpPkg2"][k]
         /\ S["tcpPkg2"][n] + k <= S["tcpPkg2"][N + 1]
  BY <1>1, ItemAt
<1>5. \A k \in 1 .. PacketSize(p[n]) - 1 :
         Content(p[n], n)["tcpPkg2"][k] = PacketWord(p[n], n, k + 1)
  BY DEF Content
<1> QED  BY <1>2, <1>3, <1>4, <1>5

LEMMA SumItems ==
    ASSUME NEW N, NEW p, NEW S, NEW I, NEW lo, NEW hi, NEW b, NEW m, NEW t, NEW j,
           InFlow(N, p, S, I, lo, hi, b, m, t, j), NEW n \in 1 .. N
    PROVE  /\ I["subSums"][n] = PacketSum(p[n], n) /\ I["checksum"][n] = PacketSum(p[n], n)
           /\ I["ipHeader"][n] = Word(n, {p[n].tuple}, FALSE)
           /\ S["subSums"][N + 1] = N
<1>1. {"subSums", "checksum", "ipHeader"} \subseteq Single  BY DEF Single
<1>2. \A s \in Single : \A x \in 1 .. N : I[s][x] = Content(p[x], x)[s][1]  BY StreamFacts
<1>3. \A s \in {"subSums", "checksum", "ipHeader"} : I[s][n] = Content(p[n], n)[s][1]
  BY <1>1, <1>2
<1>4. /\ Content(p[n], n)["subSums"][1] = PacketSum(p[n], n)
      /\ Content(p[n], n)["checksum"][1] = PacketSum(p[n], n)
      /\ Content(p[n], n)["ipHeader"][1] = Word(n, {p[n].tuple}, FALSE)
  BY DEF Content
<1>5. S["subSums"][N + 1] = N
  <2>1. N + 1 \in 1 .. N + 1 /\ (N + 1) - 1 = N  BY StreamFacts
  <2> QED  BY <2>1 DEF InFlow, History, Single
<1> QED  BY <1>3, <1>4, <1>5

LEMMA SubChecksumsFlow ==
    ASSUME NEW N, NEW p, NEW S, NEW I, NEW lo, NEW hi, NEW b, NEW m, NEW t, NEW j,
           InFlow(N, p, S, I, lo, hi, b, m, t, j),
           SubChecksums, ml' = ml, accepted' = accepted
    PROVE  Flow'
<1> DEFINE R == {"tcpPkg1"}
           word == Front("tcpPkg1")
           sum == [pkts |-> summed.pkts \cup {word.pkt}, words |-> summed.words + 1]
           W == [tcpPkg2 |-> IF summed.words = 0 THEN << >> ELSE << word >>,
                 subSums |-> IF word.last THEN << sum >> ELSE << >>]
           n == hi["subSums"] + 1
<1>0. PICK k : k = summed.words  OBVIOUS
<1>1. /\ Has("tcpPkg1") /\ Transfer(R, W)
      /\ summed' = IF word.last THEN NoWords ELSE sum
      /\ UNCHANGED <<splitter, header, breakdown, stitch, out, delivered>>
  BY DEF SubChecksums
<1>2. PICK P : P = (IF k = 0 THEN {} ELSE {"tcpPkg2"})
                   \cup (IF word.last THEN {"subSums"} ELSE {})
  OBVIOUS
<1> DEFINE lo2 == Moved(lo, R)
           hi2 == Moved(hi, P)
<1>3. {"tcpPkg1", "tcpPkg2", "subSums"} \subseteq PipeStreams \ MlStreams
  BY DEF PipeStreams, MlStreams
<1>4. /\ n \in 1 .. N + 1 /\ k \in Nat /\ N \in Nat
      /\ lo["tcpPkg1"] = S["tcpPkg1"][n] + k
      /\ hi["tcpPkg2"] = S["tcpPkg2"][n] + (IF k = 0 THEN 0 ELSE k - 1)
      /\ \/ summed = NoWords /\ k = 0
         \/ /\ n \in 1 .. N /\ k \in 1 .. PacketSize(p[n]) - 1
            /\ summed = [pkts |-> {n}, words |-> k]
  <2>1. AtSum(N, p, S, lo, hi) /\ N \in Nat  BY StreamFacts DEF Functions
  <2>2. /\ n \in 1 .. N + 1
        /\ lo["tcpPkg1"] = S["tcpPkg1"][n] + k
        /\ hi["tcpPkg2"] = S["tcpPkg2"][n] + (IF k = 0 THEN 0 ELSE k - 1)
        /\ \/ summed = NoWords
           \/ /\ n \in 1 .. N /\ k \in 1 .. PacketSize(p[n]) - 1
              /\ summed = [pkts |-> {n}, words |-> k]
    BY <1>0, <2>1 DEF AtSum
  <2>3. CASE summed = NoWords
    <3>1. k = 0 /\ 0 \in Nat  BY <1>0, <2>3 DEF NoWords
    <3> QED  BY <2>1, <2>2, <2>3, <3>1
  <2>4. CASE /\ n \in 1 .. N /\ k \in 1 .. PacketSize(p[n]) - 1
             /\ summed = [pkts |-> {n}, words |-> k]
    <3>1. k \in Nat  BY <2>4
    <3> QED  BY <2>1, <2>2, <2>4, <3>1
  <2> QED  BY <2>2, <2>3, <2>4
<1>5. n \in 1 .. N
  <2>1. /\ lo["tcpPkg1"] < hi["tcpPkg1"] /\ hi["tcpPkg1"] <= S["tcpPkg1"][N + 1]
        /\ lo["tcpPkg1"] \in Nat /\ hi["tcpPkg1"] \in Nat
    BY <1>1, <1>3, StreamFacts
  <2>2. S["tcpPkg1"][N + 1] \in Nat
    <3>1. N + 1 \in 1 .. N + 1  BY <1>4
    <3> QED  BY <1>3, <3>1, StreamFacts
  <2> HIDE DEF n
  <2>3. CASE n = N + 1 /\ k = 0  BY <1>4, <2>1, <2>2, <2>3
  <2> QED  BY <1>4, <2>3
<1>6. /\ p[n] \in Plan /\ PacketSize(p[n]) \in Nat /\ PacketSize(p[n]) >= 3
      /\ k \in 0 .. PacketSize(p[n]) - 1
  <2> HIDE DEF n
  <2>1. p[n] \in Plan  BY <1>5, StreamFacts
  <2>2. PacketSize(p[n]) \in Nat /\ PacketSize(p[n]) >= 3  BY <2>1, PlanFacts
  <2> QED  BY <1>4, <2>1, <2>2
<1>7. word = PacketWord(p[n], n, k + 1)
  <2> DEFINE x == k + 1
  <2> HIDE DEF n
  <2>1. x \in 1 .. PacketSize(p[n])  BY <1>6
  <2>0. S["tcpPkg1"][n] \in Nat  BY <1>5, PacketItems
  <2>2. lo["tcpPkg1"] + 1 = S["tcpPkg1"][n] + x  BY <1>4, <2>0
  <2>3. word = I["tcpPkg1"][S["tcpPkg1"][n] + x]  BY <1>1, <1>3, <2>2, StreamFacts
  <2> HIDE DEF x
  <2>4. I["tcpPkg1"][S["tcpPkg1"][n] + x] = PacketWord(p[n], n, x)  BY <1>5, <2>1, PacketItems
  <2> QED  BY <2>3, <2>4 DEF x
<1> HIDE DEF word
<1>8. word.pkt = n /\ word.last \in BOOLEAN /\ (word.last <=> k + 1 = PacketSize(p[n]))
  <2> HIDE DEF n
  <2> QED  BY <1>7 DEF PacketWord, Word
<1>9. sum = [pkts |-> {n}, words |-> k + 1]
  <2>1. summed.pkts \cup {n} = {n} /\ summed.words = k  BY <1>0, <1>4 DEF NoWords
  <2> QED  BY <1>8, <2>1
<1>10. /\ DOMAIN W = {"tcpPkg2", "subSums"}
       /\ W["tcpPkg2"] = (IF k = 0 THEN << >> ELSE << word >>)
       /\ W["subSums"] = (IF word.last THEN << sum >> ELSE << >>)
  BY <1>0
<1> HIDE DEF W, sum
<1>11. k # 0 => /\ word = I["tcpPkg2"][hi["tcpPkg2"] + 1]
                /\ hi["tcpPkg2"] + 1 <= S["tcpPkg2"][N + 1]
  <2> SUFFICES ASSUME k # 0
               PROVE  /\ word = I["tcpPkg2"][hi["tcpPkg2"] + 1]
                      /\ hi["tcpPkg2"] + 1 <= S["tcpPkg2"][N + 1]
    OBVIOUS
  <2> HIDE DEF n
  <2>1. k \in 1 .. PacketSize(p[n]) - 1  BY <1>6
  <2>2. /\ I["tcpPkg2"][S["tcpPkg2"][n] + k] = PacketWord(p[n], n, k + 1)
        /\ S["tcpPkg2"][n] + k <= S["tcpPkg2"][N + 1] /\ S["tcpPkg2"][n] \in Nat
    BY <1>5, <2>1, RestItems
  <2>3. hi["tcpPkg2"] + 1 = S["tcpPkg2"][n] + k  BY <1>4, <2>1, <2>2
  <2> QED  BY <1>7, <2>2, <2>3
<1>12. word.last => /\ sum = I["subSums"][hi["subSums"] + 1]
                    /\ hi["subSums"] + 1 <= S["subSums"][N + 1]
  <2> SUFFICES ASSUME word.last PROVE sum = I["subSums"][n] /\ n <= S["subSums"][N + 1]
    OBVIOUS
  <2> HIDE DEF n
  <2>1. sum = PacketSum(p[n], n)  BY <1>8, <1>9 DEF PacketSum
  <2>0. \A x \in 1 .. N :
           /\ I["subSums"][x] = PacketSum(p[x], x) /\ I["checksum"][x] = PacketSum(p[x], x)
           /\ I["ipHeader"][x] = Word(x, {p[x].tuple}, FALSE)
           /\ S["subSums"][N + 1] = N
    BY SumItems
  <2>2. I["subSums"][n] = PacketSum(p[n], n) /\ S["subSums"][N + 1] = N  BY <1>5, <2>0
  <2> QED  BY <1>4, <1>5, <2>1, <2>2
<1>13. AtSum(N, p, S, lo2, hi2)'
  <2>1. lo2["tcpPkg1"] = S["tcpPkg1"][n] + (k + 1)
    <3>1. lo2["tcpPkg1"] = lo["tcpPkg1"] + 1  BY <1>3 DEF Moved
    <3> HIDE DEF n
    <3>2. S["tcpPkg1"][n] \in Nat  BY <1>5, PacketItems
    <3> QED  BY <1>4, <3>1, <3>2
  <2>2. hi2["tcpPkg2"] = S["tcpPkg2"][n] + k
    <3>1. hi2["tcpPkg2"] = (IF k = 0 THEN hi["tcpPkg2"] ELSE hi["tcpPkg2"] + 1)
      BY <1>2, <1>3 DEF Moved
    <3> HIDE DEF n
    <3>2. S["tcpPkg2"][n] \in Nat  BY <1>5, RestItems
    <3> QED  BY <1>4, <3>1, <3>2
  <2>3. hi2["subSums"] = (IF word.last THEN n ELSE hi["subSums"])
    BY <1>2, <1>3 DEF Moved
  <2>4. hi["subSums"] + 1 = n  OBVIOUS
  <2> HIDE DEF lo2, hi2, n
  <2>5. CASE word.last
    <3>1. k + 1 = PacketSize(p[n])  BY <1>8, <2>5
    <3>2. lo2["tcpPkg1"] = S["tcpPkg1"][n + 1]  BY <1>5, <2>1, <3>1, PacketItems
    <3>3. hi2["tcpPkg2"] = S["tcpPkg2"][n + 1]
      <4>1. k = PacketSize(p[n]) - 1  BY <1>4, <1>6, <3>1
      <4> QED  BY <1>5, <2>2, <4>1, RestItems
    <3>4. summed' = NoWords  BY <1>1, <2>5
    <3>5. n + 1 \in 1 .. N + 1 /\ hi2["subSums"] = n  BY <1>4, <1>5, <2>3, <2>5
    <3>6. S["tcpPkg1"][n + 1] + 0 = S["tcpPkg1"][n + 1] /\ S["tcpPkg2"][n + 1] + 0 = S["tcpPkg2"][n + 1]
      <4>1. "tcpPkg1" \in PipeStreams /\ "tcpPkg2" \in PipeStreams  BY <1>3
      <4>2. S["tcpPkg1"][n + 1] \in Nat /\ S["tcpPkg2"][n + 1] \in Nat
        BY <3>5, <4>1, StreamFacts
      <4> QED  BY <4>2
    <3>7. summed'.words = 0  BY <3>4 DEF NoWords
    <3>8. /\ lo2["tcpPkg1"] = S["tcpPkg1"][n + 1] + 0
          /\ hi2["tcpPkg2"] = S["tcpPkg2"][n + 1] + 0
      BY <3>2, <3>3, <3>6
    <3> QED  BY <3>4, <3>5, <3>7, <3>8 DEF AtSum
  <2>6. CASE ~word.last
    <3> DEFINE x == k + 1
    <3>1. x \in 1 .. PacketSize(p[n]) - 1 /\ x # 0 /\ x - 1 = k  BY <1>6, <1>8, <2>6
    <3>2. summed' = [pkts |-> {n}, words |-> x]  BY <1>1, <1>9, <2>6
    <3>3. lo2["tcpPkg1"] = S["tcpPkg1"][n] + x /\ hi2["tcpPkg2"] = S["tcpPkg2"][n] + (x - 1)
      BY <2>1, <2>2, <3>1
    <3>4. hi2["subSums"] + 1 = n  BY <2>3, <2>4, <2>6
    <3> HIDE DEF x
    <3>5. summed'.words = x  BY <3>2
    <3> QED  BY <1>4, <1>5, <3>1, <3>2, <3>3, <3>4, <3>5 DEF AtSum
  <2> QED  BY <2>5, <2>6
<1>14. Functions(N, p, S, lo2, hi2, b, m, t, j)'
  <2>1. N \in Nat /\ Functions(N, p, S, lo, hi, b, m, t, j)  BY StreamFacts
  <2>0. Elsewhere(N, p, S, lo2, hi2, b, m, t, j, R, P)  BY StreamFacts, OthersMoved
  <2>2. P \subseteq {"tcpPkg2", "subSums"}  BY <1>2
  <2> HIDE DEF lo2, hi2
  <2> QED  BY <1>1, <1>13, <2>0, <2>1, <2>2 DEF Functions, Elsewhere
<1>15. /\ P \subseteq DOMAIN W /\ DOMAIN W \subseteq PipeStreams \ MlStreams
       /\ \A s \in DOMAIN W \ P : W[s] = << >>
       /\ R \subseteq PipeStreams
  BY <1>2, <1>3, <1>10
<1>16. \A s \in P : W[s] = << I[s][hi[s] + 1] >> /\ hi[s] + 1 <= S[s][N + 1]
  BY <1>2, <1>10, <1>11, <1>12
<1>17. delivered' \in Seq(Packets)  BY <1>1 DEF InFlow, AtEnds
<1> HIDE DEF R
<1> QED  BY <1>1, <1>14, <1>15, <1>16, <1>17, PipeStep

\* A packet leaves, the one that is due, or none.
Delivers ==
    \/ delivered' = delivered
    \/ /\ Len(delivered) < Len(accepted)
       /\ delivered' = Append(delivered, accepted[Len(delivered) + 1])

\* Where pkgStitcher is when it is in the middle of packet n.
LEMMA OutFacts ==
    ASSUME NEW N, NEW p, NEW S, NEW I, NEW lo, NEW hi, NEW b, NEW m, NEW t, NEW j,
           InFlow(N, p, S, I, lo, hi, b, m, t, j)
    PROVE  \E n \in 1 .. N + 1, k \in Nat :
              /\ n = Len(delivered) + 1 /\ k = out.words /\ N \in Nat
              /\ delivered \in Seq(Packets) /\ Len(delivered) \in Nat /\ Len(accepted) = N
              /\ \A x \in 1 .. N : accepted[x] = WholeOf(p[x], x) /\ accepted[x] \in Packets
              /\ lo["tcpPkg2"] = S["tcpPkg2"][n] + k
              /\ lo["ipHeader"] = n - 1 + (IF k = 0 THEN 0 ELSE 1)
              /\ lo["checksum"] = n - 1 + (IF k <= 1 THEN 0 ELSE 1)
              /\ \/ out = NoOut /\ k = 0
                 \/ /\ n \in 1 .. N /\ k \in 1 .. PacketSize(p[n]) - 2
                    /\ out = [state |-> IF k = 1 THEN "checksum" ELSE "rest", pkts |-> {n},
                              tuples |-> {p[n].tuple}, words |-> k,
                              sum |-> IF k = 1 THEN NoWords ELSE PacketSum(p[n], n)]
<1> DEFINE n == Len(delivered) + 1
           k == out.words
<1>1. AtOut(N, p, S, lo) /\ N \in Nat  BY StreamFacts DEF Functions
<1>2. /\ delivered \in Seq(Packets) /\ accepted \in Seq(Packets) /\ Len(accepted) = N
      /\ \A x \in 1 .. N : accepted[x] = WholeOf(p[x], x)
  BY DEF InFlow, AtEnds
<1>3. Len(delivered) \in Nat  BY <1>2
<1>4. \A x \in 1 .. N : accepted[x] \in Packets  BY <1>2
<1>5. /\ n \in 1 .. N + 1
      /\ lo["tcpPkg2"] = S["tcpPkg2"][n] + k
      /\ lo["ipHeader"] = n - 1 + (IF k = 0 THEN 0 ELSE 1)
      /\ lo["checksum"] = n - 1 + (IF k <= 1 THEN 0 ELSE 1)
      /\ \/ out = NoOut
         \/ /\ n \in 1 .. N /\ k \in 1 .. PacketSize(p[n]) - 2
            /\ out = [state |-> IF k = 1 THEN "checksum" ELSE "rest", pkts |-> {n},
                      tuples |-> {p[n].tuple}, words |-> k,
                      sum |-> IF k = 1 THEN NoWords ELSE PacketSum(p[n], n)]
  BY <1>1 DEF AtOut
<1>6. out = NoOut => k = 0  BY DEF NoOut
<1>7. k \in Nat
  <2> HIDE DEF n, k
  <2>1. CASE out = NoOut  BY <1>6, <2>1
  <2>2. CASE k \in 1 .. PacketSize(p[n]) - 2  BY <2>2
  <2> QED  BY <1>5, <2>1, <2>2
<1>8. n = Len(delivered) + 1 /\ k = out.words  OBVIOUS
<1> HIDE DEF n, k
<1> QED  BY <1>1, <1>2, <1>3, <1>4, <1>5, <1>6, <1>7, <1>8

\* A record of pkgStitcher by its fields.
LEMMA OutIs ==
    ASSUME NEW e, NEW st, NEW P, NEW T, NEW w, NEW s,
           DOMAIN e = {"state", "pkts", "tuples", "words", "sum"}, e = [x \in DOMAIN e |-> e[x]],
           e.state = st, e.pkts = P, e.tuples = T, e.words = w, e.sum = s
    PROVE  e = [state |-> st, pkts |-> P, tuples |-> T, words |-> w, sum |-> s]
OBVIOUS

LEMMA JoinedIs ==
    ASSUME out = [state |-> out.state, pkts |-> out.pkts, tuples |-> out.tuples,
                  words |-> out.words, sum |-> out.sum], NEW word
    PROVE  Joined(word) = [state |-> out.state, pkts |-> out.pkts \cup {word.pkt},
                           tuples |-> out.tuples \cup word.tuples, words |-> out.words + 1,
                           sum |-> out.sum]
<1> DEFINE e == [out EXCEPT !.pkts = @ \cup {word.pkt}, !.tuples = @ \cup word.tuples,
                            !.words = @ + 1]
<1>1. DOMAIN e = {"state", "pkts", "tuples", "words", "sum"} /\ e = [x \in DOMAIN e |-> e[x]]
  OBVIOUS
<1>2. /\ e.state = out.state /\ e.pkts = out.pkts \cup {word.pkt}
      /\ e.tuples = out.tuples \cup word.tuples /\ e.words = out.words + 1 /\ e.sum = out.sum
  OBVIOUS
<1>3. Joined(word) = e  BY DEF Joined
<1> HIDE DEF e
<1> QED  BY <1>1, <1>2, <1>3, OutIs

\* The words that pkgStitcher takes.
LEMMA RestWord ==
    ASSUME NEW N, NEW p, NEW S, NEW I, NEW lo, NEW hi, NEW b, NEW m, NEW t, NEW j,
           InFlow(N, p, S, I, lo, hi, b, m, t, j), Has("tcpPkg2"),
           NEW n \in 1 .. N, NEW k \in Nat, k <= PacketSize(p[n]) - 2,
           lo["tcpPkg2"] = S["tcpPkg2"][n] + k
    PROVE  /\ Front("tcpPkg2").pkt = n
           /\ {p[n].tuple} \cup Front("tcpPkg2").tuples = {p[n].tuple}
           /\ k = 0 => Front("tcpPkg2").tuples = {p[n].tuple}
           /\ Front("tcpPkg2").last \in BOOLEAN
           /\ Front("tcpPkg2").last <=> k + 2 = PacketSize(p[n])
           /\ lo["tcpPkg2"] + 1 = S["tcpPkg2"][n] + (k + 1)
           /\ k + 2 = PacketSize(p[n]) => lo["tcpPkg2"] + 1 = S["tcpPkg2"][n + 1] + 0
           /\ PacketSize(p[n]) \in Nat /\ PacketSize(p[n]) >= 3
<1>1. p[n] \in Plan  BY StreamFacts
<1>2. PacketSize(p[n]) \in Nat /\ HeaderSize(p[n]) \in 3 .. 4 /\ PacketSize(p[n]) >= 3
  BY <1>1, PlanFacts
<1>3. "tcpPkg2" \in PipeStreams  BY DEF PipeStreams
<1>4. S["tcpPkg2"][n] \in Nat
      /\ S["tcpPkg2"][n + 1] = S["tcpPkg2"][n] + (PacketSize(p[n]) - 1)
  BY RestItems
<1>5. lo["tcpPkg2"] + 1 = S["tcpPkg2"][n] + (k + 1)  BY <1>4
<1>6. Front("tcpPkg2") = PacketWord(p[n], n, k + 2)
  <2> DEFINE x == k + 1
  <2>1. x \in 1 .. PacketSize(p[n]) - 1 /\ x + 1 = k + 2  BY <1>2
  <2>2. Front("tcpPkg2") = I["tcpPkg2"][S["tcpPkg2"][n] + x]
    BY <1>3, <1>5, StreamFacts
  <2> HIDE DEF x
  <2>3. I["tcpPkg2"][S["tcpPkg2"][n] + x] = PacketWord(p[n], n, x + 1)  BY <2>1, RestItems
  <2> QED  BY <2>1, <2>2, <2>3
<1>7. k + 2 = PacketSize(p[n]) => lo["tcpPkg2"] + 1 = S["tcpPkg2"][n + 1] + 0
  BY <1>2, <1>4, <1>5
<1>8. /\ Front("tcpPkg2").pkt = n
      /\ Front("tcpPkg2").tuples = (IF k + 2 <= HeaderSize(p[n]) THEN {p[n].tuple} ELSE {})
      /\ Front("tcpPkg2").last = (k + 2 = PacketSize(p[n]))
  BY <1>6 DEF PacketWord, Word
<1>9. k = 0 => k + 2 <= HeaderSize(p[n])  BY <1>2
<1> QED  BY <1>2, <1>5, <1>7, <1>8, <1>9

\* pkgStitcher takes from its streams.
LEMMA OutPut ==
    ASSUME NEW N, NEW p, NEW S, NEW I, NEW lo, NEW hi, NEW b, NEW m, NEW t, NEW j,
           InFlow(N, p, S, I, lo, hi, b, m, t, j),
           NEW R, R \subseteq {"tcpPkg2", "ipHeader", "checksum"}, Transfer(R, Silent),
           AtOut(N, p, S, Moved(lo, R))', delivered' \in Seq(Packets),
           UNCHANGED <<splitter, header, breakdown, stitch, summed>>,
           ml' = ml, accepted' = accepted
    PROVE  Flow'
<1> DEFINE P == {}
           lo2 == Moved(lo, R)
           hi2 == Moved(hi, P)
<1>1. R \subseteq PipeStreams  BY DEF PipeStreams
<1>2. Functions(N, p, S, lo2, hi2, b, m, t, j)'
  <2>1. N \in Nat /\ Functions(N, p, S, lo, hi, b, m, t, j)  BY StreamFacts
  <2>0. Elsewhere(N, p, S, lo2, hi2, b, m, t, j, R, P)  BY StreamFacts, OthersMoved
  <2>2. AtOut(N, p, S, lo2)'  OBVIOUS
  <2> HIDE DEF lo2, hi2
  <2> QED  BY <2>0, <2>1, <2>2 DEF Functions, Elsewhere
<1> QED  BY <1>1, <1>2, PutNone

\* The word was the last one of packet n.
Complete(N, p, S, lo, n) ==
    /\ n = Len(delivered) + 1
    /\ delivered \in Seq(Packets) /\ Len(accepted) = N
    /\ accepted[n] = WholeOf(p[n], n) /\ accepted[n] \in Packets
    /\ lo["tcpPkg2"] = S["tcpPkg2"][n + 1] + 0 /\ lo["ipHeader"] = n /\ lo["checksum"] = n

LEMMA OutDone ==
    ASSUME NEW N \in Nat, NEW p, NEW S, NEW lo, NEW n \in 1 .. N, Complete(N, p, S, lo, n),
           out' = NoOut, delivered' = Append(delivered, WholeOf(p[n], n))
    PROVE  AtOut(N, p, S, lo)' /\ delivered' \in Seq(Packets) /\ Delivers
<1>a. /\ n = Len(delivered) + 1
      /\ delivered \in Seq(Packets) /\ Len(accepted) = N
      /\ accepted[n] = WholeOf(p[n], n) /\ accepted[n] \in Packets
      /\ lo["tcpPkg2"] = S["tcpPkg2"][n + 1] + 0 /\ lo["ipHeader"] = n /\ lo["checksum"] = n
  BY DEF Complete
<1> USE <1>a
<1>1. delivered' \in Seq(Packets) /\ Len(delivered') = Len(delivered) + 1
      /\ Len(delivered) \in Nat
  BY AppendProperties
<1>2. n + 1 \in 1 .. N + 1 /\ (n + 1) - 1 + 0 = n /\ Len(delivered') + 1 = n + 1
  BY <1>1
<1>3. out'.words = 0 /\ 0 <= 1  BY DEF NoOut
<1>4. AtOut(N, p, S, lo)'  BY <1>2, <1>3 DEF AtOut
<1>5. Len(delivered) < Len(accepted)  BY <1>1
<1>6. delivered' = Append(delivered, accepted[Len(delivered) + 1])  OBVIOUS
<1> QED  BY <1>1, <1>4, <1>5, <1>6 DEF Delivers

LEMMA PkgHeaderFlow ==
    ASSUME NEW N, NEW p, NEW S, NEW I, NEW lo, NEW hi, NEW b, NEW m, NEW t, NEW j,
           InFlow(N, p, S, I, lo, hi, b, m, t, j),
           PkgHeader, ml' = ml, accepted' = accepted
    PROVE  Flow' /\ Delivers
<1> DEFINE R == {"ipHeader", "tcpPkg2"}
           ip == Front("ipHeader")
           tcp == Front("tcpPkg2")
           lo2 == Moved(lo, R)
<1>1. /\ out.state = "header" /\ Has("ipHeader") /\ Has("tcpPkg2")
      /\ out' = [Joined(tcp) EXCEPT !.state = "checksum", !.pkts = @ \cup {ip.pkt},
                                    !.tuples = @ \cup ip.tuples]
      /\ Transfer(R, Silent)
      /\ UNCHANGED <<splitter, header, breakdown, stitch, summed, delivered>>
  BY DEF PkgHeader
<1>2. PICK n \in 1 .. N + 1, k \in Nat :
              /\ n = Len(delivered) + 1 /\ k = out.words /\ N \in Nat
              /\ delivered \in Seq(Packets) /\ Len(delivered) \in Nat /\ Len(accepted) = N
              /\ \A x \in 1 .. N : accepted[x] = WholeOf(p[x], x) /\ accepted[x] \in Packets
              /\ lo["tcpPkg2"] = S["tcpPkg2"][n] + k
              /\ lo["ipHeader"] = n - 1 + (IF k = 0 THEN 0 ELSE 1)
              /\ lo["checksum"] = n - 1 + (IF k <= 1 THEN 0 ELSE 1)
              /\ \/ out = NoOut /\ k = 0
                 \/ /\ n \in 1 .. N /\ k \in 1 .. PacketSize(p[n]) - 2
                    /\ out = [state |-> IF k = 1 THEN "checksum" ELSE "rest", pkts |-> {n},
                              tuples |-> {p[n].tuple}, words |-> k,
                              sum |-> IF k = 1 THEN NoWords ELSE PacketSum(p[n], n)]
  BY OutFacts
<1>3. out = NoOut /\ k = 0  BY <1>1, <1>2
<1>4. {"ipHeader", "tcpPkg2", "checksum"} \subseteq PipeStreams /\ "ipHeader" \in Single
  BY DEF PipeStreams, Single
<1>5. n \in 1 .. N /\ ip = I["ipHeader"][n]
  <2>1. /\ lo["ipHeader"] < hi["ipHeader"] /\ hi["ipHeader"] <= N /\ hi["ipHeader"] \in Nat
        /\ ip = I["ipHeader"][lo["ipHeader"] + 1]
    BY <1>1, <1>4, StreamFacts
  <2>2. lo["ipHeader"] = n - 1 /\ lo["ipHeader"] + 1 = n  BY <1>2, <1>3
  <2> QED  BY <1>2, <2>1, <2>2
<1>6. ip.pkt = n /\ ip.tuples = {p[n].tuple}
  <2>0. \A x \in 1 .. N :
           /\ I["subSums"][x] = PacketSum(p[x], x) /\ I["checksum"][x] = PacketSum(p[x], x)
           /\ I["ipHeader"][x] = Word(x, {p[x].tuple}, FALSE)
           /\ S["subSums"][N + 1] = N
    BY SumItems
  <2>1. I["ipHeader"][n] = Word(n, {p[n].tuple}, FALSE)  BY <1>5, <2>0
  <2> QED  BY <1>5, <2>1 DEF Word
<1>7. PacketSize(p[n]) \in Nat /\ PacketSize(p[n]) >= 3
  <2>1. p[n] \in Plan  BY <1>5, StreamFacts
  <2> QED  BY <2>1, PlanFacts
<1>8. /\ tcp.pkt = n /\ tcp.tuples = {p[n].tuple}
      /\ lo["tcpPkg2"] + 1 = S["tcpPkg2"][n] + 1
  <2>1. 0 <= PacketSize(p[n]) - 2 /\ lo["tcpPkg2"] = S["tcpPkg2"][n] + 0 /\ 0 \in Nat
    BY <1>2, <1>3, <1>7
  <2>2. /\ tcp.pkt = n /\ tcp.tuples = {p[n].tuple}
        /\ lo["tcpPkg2"] + 1 = S["tcpPkg2"][n] + (0 + 1)
    BY <1>1, <1>5, <2>1, RestWord
  <2> QED  BY <2>2
<1> HIDE DEF ip, tcp
<1>9. out' = [state |-> "checksum", pkts |-> {n}, tuples |-> {p[n].tuple}, words |-> 1,
              sum |-> NoWords]
  <2>1. Joined(tcp) = [state |-> "header", pkts |-> {} \cup {tcp.pkt},
                       tuples |-> {} \cup tcp.tuples, words |-> 0 + 1, sum |-> NoWords]
    <3>1. out = [state |-> "header", pkts |-> {}, tuples |-> {}, words |-> 0, sum |-> NoWords]
      BY <1>3 DEF NoOut
    <3>2. out = [state |-> out.state, pkts |-> out.pkts, tuples |-> out.tuples,
                 words |-> out.words, sum |-> out.sum]
      BY <3>1
    <3>3. Joined(tcp) = [state |-> out.state, pkts |-> out.pkts \cup {tcp.pkt},
                         tuples |-> out.tuples \cup tcp.tuples, words |-> out.words + 1,
                         sum |-> out.sum]
      BY <3>2, JoinedIs
    <3> QED  BY <3>1, <3>3
  <2>2. Joined(tcp) = [state |-> "header", pkts |-> {n}, tuples |-> {p[n].tuple}, words |-> 1,
                       sum |-> NoWords]
    BY <1>8, <2>1
  <2> DEFINE e == [Joined(tcp) EXCEPT !.state = "checksum", !.pkts = @ \cup {ip.pkt},
                                      !.tuples = @ \cup ip.tuples]
  <2>3. DOMAIN e = {"state", "pkts", "tuples", "words", "sum"} /\ e = [x \in DOMAIN e |-> e[x]]
    BY <2>2
  <2>4. /\ e.state = "checksum" /\ e.pkts = {n} /\ e.tuples = {p[n].tuple}
        /\ e.words = 1 /\ e.sum = NoWords
    BY <1>6, <2>2
  <2>5. out' = e  BY <1>1
  <2> HIDE DEF e
  <2> QED  BY <2>3, <2>4, <2>5, OutIs
<1>10. /\ lo2["tcpPkg2"] = S["tcpPkg2"][n] + 1 /\ lo2["ipHeader"] = n - 1 + 1
       /\ lo2["checksum"] = n - 1 + 0
  <2>1. /\ lo2["tcpPkg2"] = lo["tcpPkg2"] + 1 /\ lo2["ipHeader"] = lo["ipHeader"] + 1
        /\ lo2["checksum"] = lo["checksum"]
    BY <1>4 DEF Moved
  <2> QED  BY <1>2, <1>3, <1>8, <2>1
<1>11. AtOut(N, p, S, lo2)'
  <2>0. out'.words = 1  BY <1>9
  <2>1. out'.words = 1 /\ Len(delivered') + 1 = n
    <3>1. delivered' = delivered  BY <1>1
    <3> QED  BY <1>2, <2>0, <3>1
  <2>2. 1 \in 1 .. PacketSize(p[n]) - 2 /\ 1 <= 1 /\ 1 # 0 /\ n \in 1 .. N + 1
    BY <1>2, <1>7
  <2> HIDE DEF lo2
  <2> QED  BY <1>5, <1>9, <1>10, <2>1, <2>2 DEF AtOut
<1>12. delivered' \in Seq(Packets) /\ Delivers  BY <1>1, <1>2 DEF Delivers
<1>13. R \subseteq {"tcpPkg2", "ipHeader", "checksum"}  OBVIOUS
<1> HIDE DEF R
<1> QED  BY <1>1, <1>11, <1>12, <1>13, OutPut

LEMMA PkgChecksumFlow ==
    ASSUME NEW N, NEW p, NEW S, NEW I, NEW lo, NEW hi, NEW b, NEW m, NEW t, NEW j,
           InFlow(N, p, S, I, lo, hi, b, m, t, j),
           PkgChecksum, ml' = ml, accepted' = accepted
    PROVE  Flow' /\ Delivers
<1> DEFINE R == {"tcpPkg2", "checksum"}
           word == Front("tcpPkg2")
           next == [Joined(word) EXCEPT !.sum = Front("checksum"), !.state = "rest"]
           lo2 == Moved(lo, R)
<1>1. /\ out.state = "checksum" /\ Has("tcpPkg2") /\ Has("checksum")
      /\ IF word.last THEN out' = NoOut /\ delivered' = Append(delivered, Packet(next))
         ELSE out' = next /\ UNCHANGED delivered
      /\ Transfer(R, Silent)
      /\ UNCHANGED <<splitter, header, breakdown, stitch, summed>>
  BY DEF PkgChecksum
<1>2. PICK n \in 1 .. N + 1, k \in Nat :
              /\ n = Len(delivered) + 1 /\ k = out.words /\ N \in Nat
              /\ delivered \in Seq(Packets) /\ Len(delivered) \in Nat /\ Len(accepted) = N
              /\ \A x \in 1 .. N : accepted[x] = WholeOf(p[x], x) /\ accepted[x] \in Packets
              /\ lo["tcpPkg2"] = S["tcpPkg2"][n] + k
              /\ lo["ipHeader"] = n - 1 + (IF k = 0 THEN 0 ELSE 1)
              /\ lo["checksum"] = n - 1 + (IF k <= 1 THEN 0 ELSE 1)
              /\ \/ out = NoOut /\ k = 0
                 \/ /\ n \in 1 .. N /\ k \in 1 .. PacketSize(p[n]) - 2
                    /\ out = [state |-> IF k = 1 THEN "checksum" ELSE "rest", pkts |-> {n},
                              tuples |-> {p[n].tuple}, words |-> k,
                              sum |-> IF k = 1 THEN NoWords ELSE PacketSum(p[n], n)]
  BY OutFacts
<1>3. /\ n \in 1 .. N /\ k = 1 /\ 1 <= PacketSize(p[n]) - 2
      /\ out = [state |-> "checksum", pkts |-> {n}, tuples |-> {p[n].tuple}, words |-> 1,
                sum |-> NoWords]
  <2>1. out # NoOut  BY <1>1 DEF NoOut
  <2>2. /\ n \in 1 .. N /\ k \in 1 .. PacketSize(p[n]) - 2
        /\ out = [state |-> IF k = 1 THEN "checksum" ELSE "rest", pkts |-> {n},
                  tuples |-> {p[n].tuple}, words |-> k,
                  sum |-> IF k = 1 THEN NoWords ELSE PacketSum(p[n], n)]
    BY <1>2, <2>1
  <2>3. out.state = (IF k = 1 THEN "checksum" ELSE "rest")  BY <2>2
  <2>4. k = 1  BY <1>1, <2>3
  <2> QED  BY <2>2, <2>4
<1>4. {"ipHeader", "tcpPkg2", "checksum"} \subseteq PipeStreams /\ "checksum" \in Single
  BY DEF PipeStreams, Single
<1>5. Front("checksum") = PacketSum(p[n], n)
  <2>1. Front("checksum") = I["checksum"][lo["checksum"] + 1]  BY <1>1, <1>4, StreamFacts
  <2>2. lo["checksum"] + 1 = n  BY <1>2, <1>3
  <2>3. \A x \in 1 .. N :
           /\ I["subSums"][x] = PacketSum(p[x], x) /\ I["checksum"][x] = PacketSum(p[x], x)
           /\ I["ipHeader"][x] = Word(x, {p[x].tuple}, FALSE)
           /\ S["subSums"][N + 1] = N
    BY SumItems
  <2> QED  BY <1>3, <2>1, <2>2, <2>3
<1>6. /\ word.pkt = n /\ {p[n].tuple} \cup word.tuples = {p[n].tuple}
      /\ word.last \in BOOLEAN /\ (word.last <=> 1 + 2 = PacketSize(p[n]))
      /\ lo["tcpPkg2"] + 1 = S["tcpPkg2"][n] + 2
      /\ 1 + 2 = PacketSize(p[n]) => lo["tcpPkg2"] + 1 = S["tcpPkg2"][n + 1] + 0
      /\ PacketSize(p[n]) \in Nat /\ PacketSize(p[n]) >= 3
  <2>1. 1 \in Nat /\ 1 <= PacketSize(p[n]) - 2 /\ lo["tcpPkg2"] = S["tcpPkg2"][n] + 1
    BY <1>2, <1>3
  <2>2. /\ word.pkt = n /\ {p[n].tuple} \cup word.tuples = {p[n].tuple}
        /\ word.last \in BOOLEAN /\ (word.last <=> 1 + 2 = PacketSize(p[n]))
        /\ lo["tcpPkg2"] + 1 = S["tcpPkg2"][n] + (1 + 1)
        /\ 1 + 2 = PacketSize(p[n]) => lo["tcpPkg2"] + 1 = S["tcpPkg2"][n + 1] + 0
        /\ PacketSize(p[n]) \in Nat /\ PacketSize(p[n]) >= 3
    BY <1>1, <1>3, <2>1, RestWord
  <2>3. 1 + 1 = 2  OBVIOUS
  <2> QED  BY <2>2, <2>3
<1> HIDE DEF word
<1>7. next = [state |-> "rest", pkts |-> {n}, tuples |-> {p[n].tuple}, words |-> 2,
              sum |-> PacketSum(p[n], n)]
  <2>1. Joined(word) = [state |-> out.state, pkts |-> out.pkts \cup {word.pkt},
                        tuples |-> out.tuples \cup word.tuples, words |-> out.words + 1,
                        sum |-> out.sum]
    <3>1. out = [state |-> out.state, pkts |-> out.pkts, tuples |-> out.tuples,
                 words |-> out.words, sum |-> out.sum]
      BY <1>3
    <3> QED  BY <3>1, JoinedIs
  <2>2. Joined(word) = [state |-> "checksum", pkts |-> {n}, tuples |-> {p[n].tuple},
                        words |-> 2, sum |-> NoWords]
    <3>1. /\ out.state = "checksum" /\ out.pkts = {n} /\ out.tuples = {p[n].tuple}
          /\ out.words = 1 /\ out.sum = NoWords
      BY <1>3
    <3>2. {n} \cup {word.pkt} = {n} /\ 1 + 1 = 2  BY <1>6
    <3> QED  BY <1>6, <2>1, <3>1, <3>2
  <2>3. /\ DOMAIN next = {"state", "pkts", "tuples", "words", "sum"}
        /\ next = [x \in DOMAIN next |-> next[x]]
    BY <2>2
  <2>4. /\ next.state = "rest" /\ next.pkts = {n} /\ next.tuples = {p[n].tuple}
        /\ next.words = 2 /\ next.sum = PacketSum(p[n], n)
    BY <1>5, <2>2
  <2> HIDE DEF next
  <2> QED  BY <2>3, <2>4, OutIs
<1> HIDE DEF next
<1>8. /\ lo2["tcpPkg2"] = lo["tcpPkg2"] + 1 /\ lo2["ipHeader"] = n /\ lo2["checksum"] = n
  <2>1. /\ lo2["tcpPkg2"] = lo["tcpPkg2"] + 1 /\ lo2["checksum"] = lo["checksum"] + 1
        /\ lo2["ipHeader"] = lo["ipHeader"]
    BY <1>4 DEF Moved
  <2>2. lo["ipHeader"] = n /\ lo["checksum"] + 1 = n  BY <1>2, <1>3
  <2> QED  BY <2>1, <2>2
<1>9. AtOut(N, p, S, lo2)' /\ delivered' \in Seq(Packets) /\ Delivers
  <2>1. CASE word.last
    <3>1. Packet(next) = WholeOf(p[n], n)
      <4>1. PacketSize(p[n]) - 1 = 2  BY <1>6, <2>1
      <4>2. Packet(next) = [pkts |-> {n}, tuples |-> {p[n].tuple}, words |-> 2,
                            sum |-> PacketSum(p[n], n)]
        BY <1>7 DEF Packet
      <4> QED  BY <4>1, <4>2 DEF WholeOf
    <3>2. out' = NoOut /\ delivered' = Append(delivered, WholeOf(p[n], n))
      BY <1>1, <2>1, <3>1
    <3>3. lo2["tcpPkg2"] = S["tcpPkg2"][n + 1] + 0  BY <1>6, <1>8, <2>1
    <3> HIDE DEF lo2
    <3>4. Complete(N, p, S, lo2, n)  BY <1>2, <1>3, <1>8, <3>3 DEF Complete
    <3> QED  BY <1>2, <1>3, <3>2, <3>4, OutDone
  <2>2. CASE ~word.last
    <3>1. out' = next /\ delivered' = delivered  BY <1>1, <2>2
    <3>2. lo2["tcpPkg2"] = S["tcpPkg2"][n] + 2  BY <1>6, <1>8
    <3>3. 2 \in 1 .. PacketSize(p[n]) - 2 /\ 2 # 1 /\ 2 # 0 /\ ~(2 <= 1) /\ n \in 1 .. N + 1
          /\ n - 1 + 1 = n
      BY <1>2, <1>6, <2>2
    <3>4. out'.words = 2 /\ Len(delivered') + 1 = n  BY <1>2, <1>7, <3>1
    <3> HIDE DEF lo2
    <3>5. AtOut(N, p, S, lo2)'  BY <1>3, <1>7, <1>8, <3>1, <3>2, <3>3, <3>4 DEF AtOut
    <3> QED  BY <1>2, <3>1, <3>5 DEF Delivers
  <2> QED  BY <2>1, <2>2
<1>10. R \subseteq {"tcpPkg2", "ipHeader", "checksum"}  OBVIOUS
<1> HIDE DEF R
<1> QED  BY <1>1, <1>9, <1>10, OutPut

LEMMA PkgRestFlow ==
    ASSUME NEW N, NEW p, NEW S, NEW I, NEW lo, NEW hi, NEW b, NEW m, NEW t, NEW j,
           InFlow(N, p, S, I, lo, hi, b, m, t, j),
           PkgRest, ml' = ml, accepted' = accepted
    PROVE  Flow' /\ Delivers
<1> DEFINE R == {"tcpPkg2"}
           word == Front("tcpPkg2")
           lo2 == Moved(lo, R)
<1>1. /\ out.state = "rest" /\ Has("tcpPkg2")
      /\ IF word.last THEN out' = NoOut /\ delivered' = Append(delivered, Packet(Joined(word)))
         ELSE out' = Joined(word) /\ UNCHANGED delivered
      /\ Transfer(R, Silent)
      /\ UNCHANGED <<splitter, header, breakdown, stitch, summed>>
  BY DEF PkgRest
<1>2. PICK n \in 1 .. N + 1, k \in Nat :
              /\ n = Len(delivered) + 1 /\ k = out.words /\ N \in Nat
              /\ delivered \in Seq(Packets) /\ Len(delivered) \in Nat /\ Len(accepted) = N
              /\ \A x \in 1 .. N : accepted[x] = WholeOf(p[x], x) /\ accepted[x] \in Packets
              /\ lo["tcpPkg2"] = S["tcpPkg2"][n] + k
              /\ lo["ipHeader"] = n - 1 + (IF k = 0 THEN 0 ELSE 1)
              /\ lo["checksum"] = n - 1 + (IF k <= 1 THEN 0 ELSE 1)
              /\ \/ out = NoOut /\ k = 0
                 \/ /\ n \in 1 .. N /\ k \in 1 .. PacketSize(p[n]) - 2
                    /\ out = [state |-> IF k = 1 THEN "checksum" ELSE "rest", pkts |-> {n},
                              tuples |-> {p[n].tuple}, words |-> k,
                              sum |-> IF k = 1 THEN NoWords ELSE PacketSum(p[n], n)]
  BY OutFacts
<1>3. /\ n \in 1 .. N /\ k > 1 /\ k <= PacketSize(p[n]) - 2
      /\ out = [state |-> "rest", pkts |-> {n}, tuples |-> {p[n].tuple}, words |-> k,
                sum |-> PacketSum(p[n], n)]
  <2>1. out # NoOut  BY <1>1 DEF NoOut
  <2>2. /\ n \in 1 .. N /\ k \in 1 .. PacketSize(p[n]) - 2
        /\ out = [state |-> IF k = 1 THEN "checksum" ELSE "rest", pkts |-> {n},
                  tuples |-> {p[n].tuple}, words |-> k,
                  sum |-> IF k = 1 THEN NoWords ELSE PacketSum(p[n], n)]
    BY <1>2, <2>1
  <2>3. out.state = (IF k = 1 THEN "checksum" ELSE "rest")  BY <2>2
  <2>4. k # 1  BY <1>1, <2>3
  <2>5. k > 1 /\ k <= PacketSize(p[n]) - 2
    <3>1. p[n] \in Plan  BY <2>2, StreamFacts
    <3>2. PacketSize(p[n]) \in Nat  BY <3>1, PlanFacts
    <3> QED  BY <2>2, <2>4, <3>2
  <2> QED  BY <2>2, <2>4, <2>5
<1>4. {"ipHeader", "tcpPkg2", "checksum"} \subseteq PipeStreams
  BY DEF PipeStreams
<1>5. /\ word.pkt = n /\ {p[n].tuple} \cup word.tuples = {p[n].tuple}
      /\ word.last \in BOOLEAN /\ (word.last <=> k + 2 = PacketSize(p[n]))
      /\ lo["tcpPkg2"] + 1 = S["tcpPkg2"][n] + (k + 1)
      /\ k + 2 = PacketSize(p[n]) => lo["tcpPkg2"] + 1 = S["tcpPkg2"][n + 1] + 0
      /\ PacketSize(p[n]) \in Nat
  BY <1>1, <1>2, <1>3, RestWord
<1> HIDE DEF word
<1>6. Joined(word) = [state |-> "rest", pkts |-> {n}, tuples |-> {p[n].tuple},
                      words |-> k + 1, sum |-> PacketSum(p[n], n)]
  <2>1. Joined(word) = [state |-> out.state, pkts |-> out.pkts \cup {word.pkt},
                        tuples |-> out.tuples \cup word.tuples, words |-> out.words + 1,
                        sum |-> out.sum]
    <3>1. out = [state |-> out.state, pkts |-> out.pkts, tuples |-> out.tuples,
                 words |-> out.words, sum |-> out.sum]
      BY <1>3
    <3> QED  BY <3>1, JoinedIs
  <2>2. /\ out.state = "rest" /\ out.pkts = {n} /\ out.tuples = {p[n].tuple}
        /\ out.words = k /\ out.sum = PacketSum(p[n], n)
    BY <1>3
  <2>3. {n} \cup {word.pkt} = {n}  BY <1>5
  <2> QED  BY <1>5, <2>1, <2>2, <2>3
<1>7. /\ lo2["tcpPkg2"] = lo["tcpPkg2"] + 1 /\ lo2["ipHeader"] = n /\ lo2["checksum"] = n
  <2>1. /\ lo2["tcpPkg2"] = lo["tcpPkg2"] + 1 /\ lo2["checksum"] = lo["checksum"]
        /\ lo2["ipHeader"] = lo["ipHeader"]
    BY <1>4 DEF Moved
  <2>2. lo["ipHeader"] = n /\ lo["checksum"] = n
    <3>1. k # 0 /\ ~(k <= 1) /\ n - 1 + 1 = n  BY <1>2, <1>3
    <3> QED  BY <1>2, <3>1
  <2> QED  BY <2>1, <2>2
<1>8. AtOut(N, p, S, lo2)' /\ delivered' \in Seq(Packets) /\ Delivers
  <2>1. CASE word.last
    <3>1. Packet(Joined(word)) = WholeOf(p[n], n)
      <4>1. PacketSize(p[n]) - 1 = k + 1  BY <1>5, <2>1
      <4>2. Packet(Joined(word)) = [pkts |-> {n}, tuples |-> {p[n].tuple}, words |-> k + 1,
                                    sum |-> PacketSum(p[n], n)]
        BY <1>6 DEF Packet
      <4> QED  BY <4>1, <4>2 DEF WholeOf
    <3>2. out' = NoOut /\ delivered' = Append(delivered, WholeOf(p[n], n))
      BY <1>1, <2>1, <3>1
    <3>3. lo2["tcpPkg2"] = S["tcpPkg2"][n + 1] + 0  BY <1>5, <1>7, <2>1
    <3> HIDE DEF lo2
    <3>4. Complete(N, p, S, lo2, n)  BY <1>2, <1>3, <1>7, <3>3 DEF Complete
    <3> QED  BY <1>2, <1>3, <3>2, <3>4, OutDone
  <2>2. CASE ~word.last
    <3> DEFINE x == k + 1
    <3>1. out' = Joined(word) /\ delivered' = delivered  BY <1>1, <2>2
    <3>2. lo2["tcpPkg2"] = S["tcpPkg2"][n] + x  BY <1>5, <1>7
    <3>3. x \in 1 .. PacketSize(p[n]) - 2 /\ x # 1 /\ x # 0 /\ ~(x <= 1) /\ n \in 1 .. N + 1
          /\ n - 1 + 1 = n
      BY <1>2, <1>3, <1>5, <2>2
    <3>4. out' = [state |-> "rest", pkts |-> {n}, tuples |-> {p[n].tuple},
                  words |-> x, sum |-> PacketSum(p[n], n)]
      BY <1>6, <3>1
    <3> HIDE DEF lo2, x
    <3>5. out'.words = x  BY <3>4
    <3>6. Len(delivered') + 1 = n  BY <1>2, <3>1
    <3>7. AtOut(N, p, S, lo2)'  BY <1>3, <1>7, <3>2, <3>3, <3>4, <3>5, <3>6 DEF AtOut
    <3> QED  BY <1>2, <3>1, <3>7 DEF Delivers
  <2> QED  BY <2>1, <2>2
<1>9. R \subseteq {"tcpPkg2", "ipHeader", "checksum"}  OBVIOUS
<1> HIDE DEF R
<1> QED  BY <1>1, <1>8, <1>9, OutPut

\* A step of the pipe.
LEMMA PipeFlow ==
    ASSUME Flow, PipeNext, ml' = ml, accepted' = accepted
    PROVE  Flow' /\ Delivers
<1>1. PICK N, p, S, I, lo, hi, b, m, t, j : InFlow(N, p, S, I, lo, hi, b, m, t, j)
  BY DEF Flow
<1>2. CASE ReverseLookup
  <2>1. Flow'  BY <1>1, <1>2, ReverseFlow
  <2> QED  BY <1>2, <2>1 DEF ReverseLookup, pipeVars, Delivers
<1>3. CASE SplitterGet
  <2>1. Flow'  BY <1>1, <1>3, SplitterGetFlow
  <2> QED  BY <1>3, <2>1 DEF SplitterGet, Delivers
<1>4. CASE SplitterPass
  <2>1. Flow'  BY <1>1, <1>4, SplitterPassFlow
  <2> QED  BY <1>4, <2>1 DEF SplitterPass, Delivers
<1>5. CASE IpHeader
  <2>1. Flow'  BY <1>1, <1>5, IpFlow
  <2> QED  BY <1>5, <2>1 DEF IpHeader, pipeVars, Delivers
<1>6. CASE HeaderFirst
  <2>1. Flow'  BY <1>1, <1>6, HeaderFirstFlow
  <2> QED  BY <1>6, <2>1 DEF HeaderFirst, Delivers
<1>7. CASE HeaderNext
  <2>1. Flow'  BY <1>1, <1>7, HeaderNextFlow
  <2> QED  BY <1>7, <2>1 DEF HeaderNext, Delivers
<1>8. CASE BreakFirst
  <2>1. Flow'  BY <1>1, <1>8, BreakFirstFlow
  <2> QED  BY <1>8, <2>1 DEF BreakFirst, Delivers
<1>9. CASE BreakSecond
  <2>1. Flow'  BY <1>1, <1>9, BreakSecondFlow
  <2> QED  BY <1>9, <2>1 DEF BreakSecond, Delivers
<1>10. CASE MemoryRead
  <2>1. Flow'  BY <1>1, <1>10, MemoryFlow
  <2> QED  BY <1>10, <2>1 DEF MemoryRead, pipeVars, Delivers
<1>11. CASE StitchHeader
  <2>1. Flow'  BY <1>1, <1>11, StitchHeaderFlow
  <2> QED  BY <1>11, <2>1 DEF StitchHeader, Delivers
<1>12. CASE StitchOption
  <2>1. Flow'  BY <1>1, <1>12, StitchOptionFlow
  <2> QED  BY <1>12, <2>1 DEF StitchOption, Delivers
<1>13. CASE StitchData
  <2>1. Flow'  BY <1>1, <1>13, StitchDataFlow
  <2> QED  BY <1>13, <2>1 DEF StitchData, Delivers
<1>14. CASE SubChecksums
  <2>1. Flow'  BY <1>1, <1>14, SubChecksumsFlow
  <2> QED  BY <1>14, <2>1 DEF SubChecksums, Delivers
<1>15. CASE Checksum
  <2>1. Flow'  BY <1>1, <1>15, ChecksumFlow
  <2> QED  BY <1>15, <2>1 DEF Checksum, pipeVars, Delivers
<1>16. CASE PkgHeader  BY <1>1, <1>16, PkgHeaderFlow
<1>17. CASE PkgChecksum  BY <1>1, <1>17, PkgChecksumFlow
<1>18. CASE PkgRest  BY <1>1, <1>18, PkgRestFlow
<1> QED
  BY <1>2, <1>3, <1>4, <1>5, <1>6, <1>7, <1>8, <1>9, <1>10, <1>11, <1>12, <1>13, <1>14, <1>15,
     <1>16, <1>17, <1>18
  DEF PipeNext, TupleSplitter, PseudoHeader, Breakdown, TcpStitcher, PkgStitcher

\* A step that leaves the streams of the pipe alone.
LEMMA StillFlow ==
    ASSUME NEW N, NEW p, NEW S, NEW I, NEW lo, NEW hi, NEW b, NEW m, NEW t, NEW j,
           InFlow(N, p, S, I, lo, hi, b, m, t, j),
           \A s \in PipeStreams : q'[s] = q[s],
           UNCHANGED <<pipeVars, accepted>>, AtAnswers'
    PROVE  Flow'
<1>1. /\ N \in Nat /\ History(N, p, S, I) /\ AtLoader(N, S, hi) /\ AtEnds(N, p)
      /\ Windows(N, S, I, lo, hi) /\ Functions(N, p, S, lo, hi, b, m, t, j)
  BY DEF InFlow
<1>2. Windows(N, S, I, lo, hi)'  BY <1>1 DEF Windows, Window
<1>3. AtEnds(N, p)'  BY <1>1 DEF AtEnds, pipeVars
<1>4. Functions(N, p, S, lo, hi, b, m, t, j)'
  <2> DEFINE R == {}
             P == {}
  <2>1. Kept(lo, lo, PipeStreams \ R) /\ Kept(hi, hi, PipeStreams \ P)  BY DEF Kept
  <2>2. Elsewhere(N, p, S, lo, hi, b, m, t, j, R, P)
    <3> HIDE DEF R, P
    <3>1. Longer(N, p, S, N, p, S)  BY <1>1 DEF Longer
    <3> QED  BY <1>1, <2>1, <3>1, Others
  <2>3. UNCHANGED <<splitter, header, breakdown, stitch, summed, out, delivered>>
    BY DEF pipeVars
  <2> QED  BY <1>1, <2>2, <2>3 DEF Functions, Elsewhere
<1>5. InFlow(N, p, S, I, lo, hi, b, m, t, j)'
  BY <1>1, <1>2, <1>3, <1>4 DEF InFlow
<1> QED  BY <1>5 DEF Flow

\* What a step does not read or write stays.
LEMMA StreamsStay ==
    ASSUME NEW N, NEW p, NEW S, NEW I, NEW lo, NEW hi, NEW b, NEW m, NEW t, NEW j,
           InFlow(N, p, S, I, lo, hi, b, m, t, j), NEW R, NEW W, Transfer(R, W)
    PROVE  /\ \A s \in PipeStreams : s \notin R /\ s \notin DOMAIN W => q'[s] = q[s]
           /\ \A s \in Answers : s \notin R /\ s \notin DOMAIN W => q'[s] = q[s]
<1>1. ASSUME NEW s \in PipeStreams, s \notin R, s \notin DOMAIN W PROVE q'[s] = q[s]
  <2>1. Window(s, I[s], lo[s], hi[s])  BY DEF InFlow, Windows
  <2>2. q[s] \in Seq({I[s][i] : i \in Nat})  BY <2>1, WindowFacts
  <2>3. s \in Names  BY TxPipeAssumption
  <2> QED  BY <1>1, <2>2, <2>3, TransferEffect
<1>2. ASSUME NEW s \in Answers, s \notin R, s \notin DOMAIN W PROVE q'[s] = q[s]
  <2>1. s \in Names  BY TxPathAssumption DEF Answers
  <2>2. q[s] = << >> \/ q[s] = << ml.ev.session >>  BY DEF InFlow, AtAnswers
  <2>3. << >> \in Seq({ml.ev.session}) /\ << ml.ev.session >> \in Seq({ml.ev.session})
    OBVIOUS
  <2>4. q[s] \in Seq({ml.ev.session})  BY <2>2, <2>3
  <2> QED  BY <1>2, <2>1, <2>4, TransferEffect
<1> QED  BY <1>1, <1>2

LEMMA EventFlow ==
    ASSUME Flow, EventNext, UNCHANGED <<pipeVars, ml, accepted>>
    PROVE  Flow'
<1>1. PICK N, p, S, I, lo, hi, b, m, t, j : InFlow(N, p, S, I, lo, hi, b, m, t, j)
  BY DEF Flow
<1> DEFINE Others2 == Arriving \cup Counting \cup {"toDelay", "toTx"}
<1>2. \A s \in PipeStreams : s \notin Others2
  BY DEF PipeStreams, Arriving, Counting
<1>3. \A s \in Answers : s \notin Others2
  BY DEF Answers, Arriving, Counting
<1>4. q' = q \/ \E R \in SUBSET Others2 : \E W : DOMAIN W \subseteq Others2 /\ Transfer(R, W)
  <2>1. CASE EventEngine
    <3> DEFINE R == Chosen \cup Counts
               W == IF Chosen = {} THEN Silent
                    ELSE To("toDelay", Front(CHOOSE s \in Chosen : TRUE))
    <3>1. Transfer(R, W)  BY <2>1 DEF EventEngine
    <3>2. R \subseteq Others2  BY DEF Chosen, Counts, Arriving
    <3>3. DOMAIN W \subseteq Others2
      <4>1. DOMAIN Silent = {}  BY SilentFacts
      <4>2. \A x : DOMAIN To("toDelay", x) = {"toDelay"}  BY ToFacts
      <4>3. DOMAIN W = {} \/ DOMAIN W = {"toDelay"}  BY <4>1, <4>2
      <4> HIDE DEF W
      <4> QED  BY <4>3
    <3> HIDE DEF R, W, Others2
    <3> QED  BY <3>1, <3>2, <3>3
  <2>2. CASE TakeEvent
    <3> DEFINE ev == Front("toDelay")
               R == {"toDelay"}
               V == To("adReads", 1)
               W == [adReads |-> << 1 >>, toTx |-> << ev >>, adWrites |-> << 1 >>]
    <3>1. Transfer(R, V) \/ Transfer(R, W)  BY <2>2 DEF TakeEvent
    <3>2. R \subseteq Others2  OBVIOUS
    <3>3. DOMAIN V \subseteq Others2 /\ DOMAIN W \subseteq Others2
      <4>1. DOMAIN V = {"adReads"}  BY ToFacts
      <4>2. DOMAIN W = {"adReads", "toTx", "adWrites"}  OBVIOUS
      <4> HIDE DEF V, W
      <4> QED  BY <4>1, <4>2 DEF Counting
    <3> HIDE DEF R, V, W, Others2
    <3> QED  BY <3>1, <3>2, <3>3
  <2>3. CASE \E s \in Sessions : Scan(s)
    <3>1. PICK s \in Sessions : Scan(s)  BY <2>3
    <3> DEFINE R == {}
               W == [toTx |-> << [type |-> "ACK", session |-> s, rt |-> 0] >>,
                     adWrites |-> << 1 >>]
    <3>2. q' = q \/ Transfer(R, W)  BY <3>1 DEF Scan
    <3>3. R \subseteq Others2 /\ DOMAIN W \subseteq Others2  BY DEF Counting
    <3> HIDE DEF R, W, Others2
    <3> QED  BY <3>2, <3>3
  <2> QED  BY <2>1, <2>2, <2>3 DEF EventNext
<1> HIDE DEF Others2
<1>5. /\ \A s \in PipeStreams : q'[s] = q[s]
      /\ \A s \in Answers : q'[s] = q[s]
  <2>1. CASE q' = q  BY <2>1
  <2>2. CASE \E R \in SUBSET Others2 : \E W : DOMAIN W \subseteq Others2 /\ Transfer(R, W)
    <3>0. PICK R \in SUBSET Others2 : \E W : DOMAIN W \subseteq Others2 /\ Transfer(R, W)
      BY <2>2
    <3>1. PICK W : DOMAIN W \subseteq Others2 /\ Transfer(R, W)
      BY <3>0
    <3>2. \A s \in PipeStreams \cup Answers : s \notin R /\ s \notin DOMAIN W
      BY <1>2, <1>3, <3>1
    <3> QED  BY <1>1, <3>1, <3>2, StreamsStay
  <2> QED  BY <1>4, <2>1, <2>2
<1>6. AtAnswers'
  <2>1. AtAnswers  BY <1>1 DEF InFlow
  <2> QED  BY <1>5, <2>1 DEF AtAnswers, Stray
<1> QED  BY <1>1, <1>5, <1>6, StillFlow

LEMMA MlReadFlow ==
    ASSUME IInv, Flow, MlRead
    PROVE  Flow'
<1>1. PICK N, p, S, I, lo, hi, b, m, t, j : InFlow(N, p, S, I, lo, hi, b, m, t, j)
  BY DEF Flow
<1> DEFINE ev == Front("toTx")
           R == {"toTx"}
           W == [s \in Asks(ev) \cup {"txReads"} |->
                    IF s = "txReads" THEN << 1 >> ELSE << ev.session >>]
<1>2. /\ ml = MlIdle /\ Has("toTx") /\ Transfer(R, W)
      /\ ml' = [state |-> "event", ev |-> ev, asked |-> Asks(ev), sars |-> {}, count |-> 0]
      /\ UNCHANGED <<pipeVars, accepted>>
  BY DEF MlRead
<1>3. ev \in Event
  <2>1. q["toTx"] \in Seq(Event) /\ q["toTx"] # << >>  BY <1>2 DEF IInv, Typed, Has
  <2> QED  BY <2>1, HeadTailProperties DEF Front
<1>4. Asks(ev) \subseteq Answers /\ (Stray(ev) => Asks(ev) = {})
  BY DEF Asks, Answers, Stray
<1>5. /\ DOMAIN W = Asks(ev) \cup {"txReads"}
      /\ \A s \in Asks(ev) : s \in Answers => W[s] = << ev.session >>
  <2>1. "txReads" \notin Answers  BY DEF Answers
  <2> QED  BY <2>1
<1> HIDE DEF ev, W
<1>6. \A s \in Answers : q[s] = << >>
  <2>1. AtAnswers  BY <1>1 DEF InFlow
  <2>2. \A x, y, z, u : MlIdle # [state |-> "event", ev |-> x, asked |-> y, sars |-> z, count |-> u]
    <3> TAKE x, y, z, u
    <3>1. MlIdle.state = "idle"  BY DEF MlIdle
    <3>2. [state |-> "event", ev |-> x, asked |-> y, sars |-> z, count |-> u].state = "event"
      OBVIOUS
    <3> QED  BY <3>1, <3>2
  <2> QED  BY <1>2, <2>1, <2>2 DEF AtAnswers
<1>7. \A s \in PipeStreams : q'[s] = q[s]
  <2>1. \A s \in PipeStreams : s \notin R /\ s \notin DOMAIN W
    BY <1>4, <1>5 DEF PipeStreams, Answers
  <2> HIDE DEF R
  <2> QED  BY <1>1, <1>2, <2>1, StreamsStay
<1>8. ASSUME NEW s \in Answers
      PROVE  q'[s] = (IF s \in Asks(ev) THEN << ev.session >> ELSE << >>)
  <2>1. s \notin R /\ s # "txReads" /\ s \in Names  BY TxPathAssumption DEF Answers
  <2>2. q[s] \in Seq({ev.session})
    <3>1. << >> \in Seq({ev.session})  OBVIOUS
    <3> QED  BY <1>6, <3>1
  <2>3. CASE s \in Asks(ev)
    <3>1. W[s] = << ev.session >> /\ s \in DOMAIN W  BY <1>5, <2>3
    <3>2. q'[s] = q[s] \o W[s]  BY <1>2, <2>1, <2>2, <3>1, TransferEffect
    <3>3. << >> \o << ev.session >> = << ev.session >>  OBVIOUS
    <3> QED  BY <1>6, <2>3, <3>1, <3>2, <3>3
  <2>4. CASE s \notin Asks(ev)
    <3>1. s \notin DOMAIN W  BY <1>5, <2>1, <2>4
    <3> QED  BY <1>2, <1>6, <2>1, <2>2, <2>4, <3>1, TransferEffect
  <2> QED  BY <2>3, <2>4
<1>9. AtAnswers'
  <2>1. /\ ml'.ev = ev /\ ml'.asked = Asks(ev) /\ ml'.sars = {} /\ ml'.count = 0
        /\ ml' = [state |-> "event", ev |-> ml'.ev, asked |-> ml'.asked, sars |-> ml'.sars,
                  count |-> ml'.count]
    BY <1>2
  <2>2. Stray(ml'.ev) => ml'.asked = {}  BY <1>4, <2>1 DEF Stray
  <2>3. \A s \in Answers : q'[s] = (IF s \in ml'.asked THEN << ml'.ev.session >> ELSE << >>)
    BY <1>8, <2>1
  <2>4. (Stray(ml.ev))' => ml'.asked = {}  BY <2>2 DEF Stray
  <2> QED  BY <1>3, <1>4, <2>1, <2>3, <2>4 DEF AtAnswers
<1> QED  BY <1>1, <1>2, <1>7, <1>9, StillFlow

-----------------------------------------------------------------------------
(***************************************************************************)
(* One more packet is accepted.                                            *)
(***************************************************************************)
MoreBefore(f, N, l) == [n \in Nat |-> IF n = N + 2 THEN f[N + 1] + l ELSE f[n]]
MoreItems(g, h, c)  == [i \in Nat |-> IF i <= h THEN g[i] ELSE c[i - h]]

LEMMA TogetherMore ==
    ASSUME NEW N \in Nat, NEW S, NEW s, NEW t, Together(N, S, s, t),
           \A n \in 1 .. N + 1 : S[s][n] \in Nat /\ S[s][n] <= S[s][N + 1] /\ S[t][n] \in Nat,
           NEW ls \in Nat, NEW lt \in Nat, ls = 0 => lt = 0,
           NEW S2, S2[s] = MoreBefore(S[s], N, ls), S2[t] = MoreBefore(S[t], N, lt)
    PROVE  Together(N + 1, S2, s, t)
<1>1. \A n \in 1 .. N + 1 : n \in Nat /\ n # N + 2
  OBVIOUS
<1>2. \A n \in 1 .. N + 1 : S2[s][n] = S[s][n] /\ S2[t][n] = S[t][n]
  BY <1>1 DEF MoreBefore
<1>3. S2[s][N + 2] = S[s][N + 1] + ls /\ S2[t][N + 2] = S[t][N + 1] + lt
  BY DEF MoreBefore
<1>4. ASSUME NEW n \in 1 .. N + 1, S2[s][n] = S2[s][N + 2] PROVE S2[t][n] = S2[t][N + 2]
  <2> DEFINE a == S[s][n]
             b == S[s][N + 1]
  <2>1. N + 1 \in 1 .. N + 1  OBVIOUS
  <2>2. a \in Nat /\ b \in Nat /\ a <= b /\ a = b + ls  BY <1>2, <1>3, <1>4, <2>1
  <2> HIDE DEF a, b
  <2>3. ls = 0 /\ a = b  BY <2>2
  <2>4. S[t][n] = S[t][N + 1]  BY <2>1, <2>3 DEF Together, a, b
  <2>5. S[t][N + 1] \in Nat /\ lt = 0  BY <2>1, <2>3
  <2> QED  BY <1>2, <1>3, <2>4, <2>5
<1>5. \A n \in 1 .. (N + 1) + 1 : n \in 1 .. N + 1 \/ n = N + 2
  OBVIOUS
<1>6. ASSUME NEW m \in 1 .. (N + 1) + 1, NEW n \in 1 .. (N + 1) + 1, S2[s][m] = S2[s][n]
      PROVE  S2[t][m] = S2[t][n]
  <2>1. CASE m \in 1 .. N + 1 /\ n \in 1 .. N + 1
    BY <1>2, <1>6, <2>1 DEF Together
  <2>2. CASE m \in 1 .. N + 1 /\ n = N + 2
    BY <1>4, <1>6, <2>2
  <2>3. CASE n \in 1 .. N + 1 /\ m = N + 2
    BY <1>4, <1>6, <2>3
  <2>4. CASE n = N + 2 /\ m = N + 2
    BY <2>4
  <2> QED  BY <1>5, <2>1, <2>2, <2>3, <2>4
<1> QED  BY <1>6 DEF Together

\* The history with packet N + 1, of plan pl.
OneMore(N, p, S, I, pl, p2, S2, I2) ==
    /\ History(N + 1, p2, S2, I2) /\ Longer(N, p, S, N + 1, p2, S2)
    /\ p2[N + 1] = pl
    /\ \A s \in PipeStreams :
          /\ S2[s][N + 2] = S[s][N + 1] + Len(Content(pl, N + 1)[s])
          /\ \A i \in 1 .. S[s][N + 1] : I2[s][i] = I[s][i]
          /\ \A k \in 1 .. Len(Content(pl, N + 1)[s]) :
                I2[s][S[s][N + 1] + k] = Content(pl, N + 1)[s][k]

LEMMA HistoryMore ==
    ASSUME NEW N \in Nat, NEW p, NEW S, NEW I, History(N, p, S, I), NEW pl \in Plan
    PROVE  \E p2, S2, I2 : OneMore(N, p, S, I, pl, p2, S2, I2)
<1> DEFINE c == Content(pl, N + 1)
           l(s) == Len(c[s])
           p2 == [p EXCEPT ![N + 1] = pl]
           S2 == [s \in PipeStreams |-> MoreBefore(S[s], N, l(s))]
           I2 == [s \in PipeStreams |-> MoreItems(I[s], S[s][N + 1], c[s])]
<1>1. \A s \in PipeStreams : l(s) \in Nat  BY SizesNat
<1>2. p \in [Nat -> Plan] /\ \A s \in PipeStreams : Fit(N, Contents(s, p), S[s], I[s])
  BY DEF History
<1>3. \A s \in PipeStreams : \A n \in 1 .. N + 1 : S[s][n] \in Nat /\ S[s][n] <= S[s][N + 1]
  BY HistoryFacts
<1>4. \A n \in 1 .. N + 1 : n \in Nat /\ n # N + 2
  OBVIOUS
<1>5. N + 1 \in Nat /\ N + 2 \in Nat /\ N + 1 \in 1 .. N + 1
  OBVIOUS
<1>6. p2 \in [Nat -> Plan] /\ p2[N + 1] = pl /\ \A n \in 1 .. N : p2[n] = p[n]
  <2>1. \A n \in 1 .. N : n \in Nat /\ n # N + 1  OBVIOUS
  <2> QED  BY <1>2, <1>5, <2>1
<1>7. ASSUME NEW s \in PipeStreams
      PROVE  /\ S2[s] = MoreBefore(S[s], N, l(s)) /\ S2[s] \in [Nat -> Nat]
             /\ S2[s][N + 2] = S[s][N + 1] + l(s)
             /\ \A n \in 1 .. N + 1 : S2[s][n] = S[s][n]
  <2>1. S2[s] = MoreBefore(S[s], N, l(s))  OBVIOUS
  <2>2. l(s) \in Nat /\ S[s] \in [Nat -> Nat]  BY <1>1, <1>2 DEF Fit
  <2> HIDE DEF S2, l
  <2>3. S[s][N + 1] \in Nat  BY <1>5, <2>2
  <2> QED  BY <1>4, <1>5, <2>1, <2>2, <2>3 DEF MoreBefore
<1>8. ASSUME NEW s \in PipeStreams
      PROVE  /\ I2[s] = MoreItems(I[s], S[s][N + 1], c[s])
             /\ \A i \in 1 .. S[s][N + 1] : I2[s][i] = I[s][i]
             /\ \A k \in 1 .. l(s) : I2[s][S[s][N + 1] + k] = c[s][k]
  <2>1. I2[s] = MoreItems(I[s], S[s][N + 1], c[s])  OBVIOUS
  <2> DEFINE h == S[s][N + 1]
  <2>2. h \in Nat /\ l(s) \in Nat  BY <1>1, <1>3, <1>5
  <2>3. I2[s] = MoreItems(I[s], h, c[s])  BY <2>1
  <2> HIDE DEF I2, h, l, c
  <2>4. ASSUME NEW i \in 1 .. h PROVE I2[s][i] = I[s][i]
    <3>1. i \in Nat /\ i <= h  BY <2>2
    <3> QED  BY <2>3, <3>1 DEF MoreItems
  <2>5. ASSUME NEW k \in 1 .. l(s) PROVE I2[s][h + k] = c[s][k]
    <3>1. h + k \in Nat /\ ~(h + k <= h) /\ (h + k) - h = k  BY <2>2
    <3> QED  BY <2>3, <3>1 DEF MoreItems
  <2> QED  BY <2>1, <2>4, <2>5 DEF h
<1> HIDE DEF p2, S2, I2
<1>9. ASSUME NEW s \in PipeStreams PROVE Fit(N + 1, Contents(s, p2), S2[s], I2[s])
  <2> DEFINE v == c[s]
             C == Contents(s, p)
             C2 == Contents(s, p2)
  <2>1. C2[N + 1] = v  BY <1>5, <1>6 DEF Contents
  <2>2. \A n \in 1 .. N : C2[n] = C[n]
    <3> TAKE n \in 1 .. N
    <3>1. n \in Nat /\ p2[n] = p[n]  BY <1>6
    <3> QED  BY <3>1 DEF Contents
  <2>3. Len(v) \in Nat /\ Fit(N, C, S[s], I[s])  BY <1>1, <1>2
  <2>4. S2[s][N + 2] = S[s][N + 1] + Len(v) /\ \A k \in 1 .. Len(v) : I2[s][S[s][N + 1] + k] = v[k]
    BY <1>7, <1>8
  <2>5. S2[s] \in [Nat -> Nat] /\ \A n \in 1 .. N + 1 : S2[s][n] = S[s][n]  BY <1>7
  <2>6. \A i \in 1 .. S[s][N + 1] : I2[s][i] = I[s][i]  BY <1>8
  <2> DEFINE f == S[s]
             g == I[s]
             f2 == S2[s]
             g2 == I2[s]
  <2>7. /\ Fit(N, C, f, g) /\ f2 \in [Nat -> Nat] /\ f2[N + 2] = f[N + 1] + Len(v)
        /\ \A n \in 1 .. N + 1 : f2[n] = f[n]
        /\ \A i \in 1 .. f[N + 1] : g2[i] = g[i]
        /\ \A k \in 1 .. Len(v) : g2[f[N + 1] + k] = v[k]
    BY <2>3, <2>4, <2>5, <2>6
  <2> HIDE DEF v, C, C2, l, c, f, g, f2, g2
  <2>8. Grown(N, C, f, g, v, C2, f2, g2)  BY <2>1, <2>2, <2>3, <2>7 DEF Grown
  <2>9. Fit(N + 1, C2, f2, g2)  BY <2>7, <2>8, FitMore
  <2> QED  BY <2>9 DEF C2, f2, g2
<1>10. ASSUME NEW s \in Single, NEW n \in 1 .. (N + 1) + 1 PROVE S2[s][n] = n - 1
  <2>1. s \in PipeStreams  BY DEF Single, PipeStreams
  <2>2. \A x \in 1 .. N + 1 : S[s][x] = x - 1  BY DEF History
  <2>3. CASE n \in 1 .. N + 1  BY <1>7, <2>1, <2>2, <2>3
  <2>4. CASE n = N + 2
    <3>1. l(s) = 1  BY Sizes
    <3>2. S2[s][N + 2] = S[s][N + 1] + 1  BY <1>7, <2>1, <3>1
    <3>3. S[s][N + 1] = (N + 1) - 1  BY <1>5, <2>2
    <3> QED  BY <2>4, <3>2, <3>3
  <2>5. n \in 1 .. N + 1 \/ n = N + 2  OBVIOUS
  <2> QED  BY <2>3, <2>4, <2>5
<1>11. /\ S2["revRsp"] = S2["revReq"] /\ I2["revRsp"] = I2["revReq"]
       /\ S2["accessFlag"] = S2["readCmd"] /\ I2["checksum"] = I2["subSums"]
  <2>0. {"revRsp", "revReq", "accessFlag", "readCmd", "checksum", "subSums"} \subseteq PipeStreams
    BY DEF PipeStreams
  <2>1. S["revRsp"] = S["revReq"] /\ I["revRsp"] = I["revReq"]
        /\ S["accessFlag"] = S["readCmd"] /\ I["checksum"] = I["subSums"]
    BY DEF History
  <2>2. l("accessFlag") = l("readCmd")  BY Sizes
  <2>3. c["revRsp"] = c["revReq"] /\ c["checksum"] = c["subSums"]  BY DEF Content
  <2>4. S["checksum"][N + 1] = S["subSums"][N + 1]
    <3>1. {"checksum", "subSums"} \subseteq Single  BY DEF Single
    <3> QED  BY <1>5, <3>1 DEF History
  <2>5. l("revRsp") = l("revReq")  BY <2>3
  <2> HIDE DEF c, l
  <2>6. S2["revRsp"] = S2["revReq"] /\ S2["accessFlag"] = S2["readCmd"]
    BY <1>7, <2>0, <2>1, <2>2, <2>5
  <2>7. I2["revRsp"] = I2["revReq"] /\ I2["checksum"] = I2["subSums"]
    BY <1>8, <2>0, <2>1, <2>3, <2>4
  <2> QED  BY <2>6, <2>7
<1>12. Together(N + 1, S2, "readCmd", "memCmd") /\ Together(N + 1, S2, "memCmd", "memData")
  <2>0. {"readCmd", "memCmd", "memData"} \subseteq PipeStreams  BY DEF PipeStreams
  <2>1. l("readCmd") = (IF pl.first = 0 THEN 0 ELSE 1)
        /\ l("memCmd") = (IF pl.first = 0 THEN 0 ELSE IF pl.second = 0 THEN 1 ELSE 2)
        /\ l("memData") = pl.first + pl.second
    BY Sizes
  <2>2. (pl.first = 0 => pl.second = 0) /\ pl.first \in Nat /\ pl.second \in Nat  BY PlanFacts
  <2>3. l("readCmd") \in Nat /\ l("memCmd") \in Nat /\ l("memData") \in Nat  BY <1>1, <2>0
  <2> HIDE DEF l
  <2>4. (l("readCmd") = 0 => l("memCmd") = 0) /\ (l("memCmd") = 0 => l("memData") = 0)
    BY <2>1, <2>2
  <2>5. Together(N, S, "readCmd", "memCmd") /\ Together(N, S, "memCmd", "memData")
    BY DEF History
  <2>6. /\ S2["readCmd"] = MoreBefore(S["readCmd"], N, l("readCmd"))
        /\ S2["memCmd"] = MoreBefore(S["memCmd"], N, l("memCmd"))
        /\ S2["memData"] = MoreBefore(S["memData"], N, l("memData"))
    BY <1>7, <2>0
  <2>7. \A n \in 1 .. N + 1 :
           /\ S["readCmd"][n] \in Nat /\ S["readCmd"][n] <= S["readCmd"][N + 1]
           /\ S["memCmd"][n] \in Nat /\ S["memCmd"][n] <= S["memCmd"][N + 1]
           /\ S["memData"][n] \in Nat
    BY <1>3, <2>0
  <2>8. Together(N + 1, S2, "readCmd", "memCmd")
    BY <2>3, <2>4, <2>5, <2>6, <2>7, TogetherMore
  <2>9. Together(N + 1, S2, "memCmd", "memData")
    BY <2>3, <2>4, <2>5, <2>6, <2>7, TogetherMore
  <2> QED  BY <2>8, <2>9
<1>13. History(N + 1, p2, S2, I2)
  BY <1>6, <1>9, <1>10, <1>11, <1>12 DEF History
<1>14. Longer(N, p, S, N + 1, p2, S2)
  <2>1. N + 1 \in Nat /\ N <= N + 1  OBVIOUS
  <2> QED  BY <1>6, <1>7, <2>1 DEF Longer
<1>15. OneMore(N, p, S, I, pl, p2, S2, I2)
  BY <1>6, <1>7, <1>8, <1>13, <1>14 DEF OneMore
<1> QED  BY <1>15

LEMMA MlContent ==
    ASSUME NEW pl, NEW n, NEW s \in MlStreams
    PROVE  Content(pl, n)[s] = << >> \/ \E x : Content(pl, n)[s] = << x >>
<1>1. /\ Content(pl, n)["ipMeta"] = << n >> /\ Content(pl, n)["tcpMeta"] = << MetaOf(pl, n) >>
      /\ Content(pl, n)["isLookUp"] = << pl.lookup >>
  BY DEF Content
<1>2. /\ Content(pl, n)["revReq"] = (IF pl.lookup THEN << pl.tuple >> ELSE << >>)
      /\ Content(pl, n)["shortCut"] = (IF pl.lookup THEN << >> ELSE << pl.tuple >>)
      /\ Content(pl, n)["readCmd"] =
            (IF pl.first = 0 THEN << >>
             ELSE << [pkt |-> n, first |-> pl.first, second |-> pl.second] >>)
  BY DEF Content
<1> QED  BY <1>1, <1>2 DEF MlStreams

\* metaLoader asks for a packet: what the packet needs comes behind what is
\* in the streams of metaLoader.
LEMMA AcceptFlow ==
    ASSUME NEW N, NEW p, NEW S, NEW I, NEW lo, NEW hi, NEW b, NEW m, NEW t, NEW j,
           InFlow(N, p, S, I, lo, hi, b, m, t, j), NEW pl \in Plan,
           NEW R, R \subseteq Answers, NEW W, Transfer(R, W), DOMAIN W \subseteq MlStreams,
           \A s \in MlStreams : IF s \in DOMAIN W THEN W[s] = Content(pl, N + 1)[s]
                                ELSE Content(pl, N + 1)[s] = << >>,
           accepted' = Append(accepted, WholeOf(pl, N + 1)), UNCHANGED pipeVars, AtAnswers'
    PROVE  Flow'
<1> DEFINE c == Content(pl, N + 1)
<1>1. /\ N \in Nat /\ History(N, p, S, I) /\ AtLoader(N, S, hi) /\ AtEnds(N, p)
      /\ Windows(N, S, I, lo, hi) /\ Functions(N, p, S, lo, hi, b, m, t, j)
  BY DEF InFlow
<1>2. PICK p2, S2, I2 : OneMore(N, p, S, I, pl, p2, S2, I2)
  BY <1>1, HistoryMore
<1>3. /\ History(N + 1, p2, S2, I2) /\ Longer(N, p, S, N + 1, p2, S2) /\ p2[N + 1] = pl
      /\ \A s \in PipeStreams :
            /\ S2[s][N + 2] = S[s][N + 1] + Len(c[s])
            /\ \A i \in 1 .. S[s][N + 1] : I2[s][i] = I[s][i]
            /\ \A k \in 1 .. Len(c[s]) : I2[s][S[s][N + 1] + k] = c[s][k]
  BY <1>2 DEF OneMore
<1>4. MlStreams \subseteq PipeStreams /\ PipeStreams \cap Answers = {}
  BY DEF MlStreams, PipeStreams, Answers
<1> DEFINE hi2 == [s \in PipeStreams |-> IF s \in MlStreams THEN S2[s][N + 2] ELSE hi[s]]
<1>5. \A s \in PipeStreams : hi2[s] = (IF s \in MlStreams THEN S2[s][N + 2] ELSE hi[s])
  OBVIOUS
<1>6. \A s \in PipeStreams : Len(c[s]) \in Nat /\ S[s][N + 1] \in Nat
  <2>1. N + 1 \in 1 .. N + 1  BY <1>1
  <2>2. \A s \in PipeStreams : Len(c[s]) \in Nat  BY SizesNat
  <2> HIDE DEF c
  <2> QED  BY <1>1, <2>1, <2>2, HistoryFacts
<1> HIDE DEF hi2, c
<1>7. ASSUME NEW s \in PipeStreams
      PROVE  Window(s, I2[s], lo[s], hi2[s])' /\ hi2[s] <= S2[s][(N + 1) + 1]
  <2>1. /\ Window(s, I[s], lo[s], hi[s]) /\ hi[s] <= S[s][N + 1]
        /\ lo[s] \in Nat /\ hi[s] \in Nat
    <3>1. Window(s, I[s], lo[s], hi[s]) /\ hi[s] <= S[s][N + 1]  BY <1>1 DEF Windows
    <3>2. lo[s] \in Nat /\ hi[s] \in Nat  BY <3>1 DEF Window
    <3> QED  BY <3>1, <3>2
  <2>2. \A i \in 1 .. hi[s] : I2[s][i] = I[s][i]
    <3> TAKE i \in 1 .. hi[s]
    <3>1. i \in 1 .. S[s][N + 1]  BY <1>6, <2>1
    <3> QED  BY <1>3, <3>1
  <2>3. Window(s, I2[s], lo[s], hi[s])  BY <2>1, <2>2, WindowAgree
  <2>4. s \notin R /\ s \in Names /\ (N + 1) + 1 = N + 2
    BY <1>1, <1>4, TxPipeAssumption
  <2>5. CASE s \in MlStreams
    <3> DEFINE n == Len(c[s])
               h == hi[s]
               J == I2[s]
    <3>1. h = S[s][N + 1] /\ hi2[s] = h + n /\ n \in Nat /\ h \in Nat
      BY <1>1, <1>3, <1>5, <1>6, <2>5 DEF AtLoader
    <3>2. \A k \in 1 .. n : J[h + k] = c[s][k]  BY <1>3, <3>1
    <3>3. c[s] = [i \in 1 .. n |-> J[h + i]]
      <4>1. CASE c[s] = << >>
        <5>1. n = 0  BY <4>1
        <5> QED  BY <4>1, <5>1
      <4>2. CASE \E x : c[s] = << x >>
        <5>1. PICK x : c[s] = << x >>  BY <4>2
        <5>2. n = 1 /\ c[s][1] = x  BY <5>1
        <5>3. x = J[h + 1]  BY <3>2, <5>2
        <5> HIDE DEF n, h, J
        <5>4. << x >> = [i \in 1 .. 1 |-> J[h + i]]  BY <3>1, <5>3, OneIs
        <5> QED  BY <5>1, <5>2, <5>4
      <4> QED  BY <2>5, <4>1, <4>2, MlContent DEF c
    <3>4. s \in DOMAIN W => W[s] = [i \in 1 .. n |-> J[h + i]]
      <4>1. s \in DOMAIN W => W[s] = c[s]  BY <2>5 DEF c
      <4> QED  BY <3>3, <4>1
    <3>5. s \notin DOMAIN W => n = 0
      <4>1. s \notin DOMAIN W => c[s] = << >>  BY <2>5 DEF c
      <4> QED  BY <4>1
    <3>6. Window(s, J, lo[s], h)  BY <2>3
    <3> HIDE DEF n, h, J
    <3>7. Window(s, J, lo[s] + (IF s \in R THEN 1 ELSE 0), h + n)'
      <4>1. Puts(s, W, J, h, n)  BY <3>4, <3>5 DEF Puts
      <4> QED  BY <2>4, <3>1, <3>6, <4>1, WindowNext
    <3>8. lo[s] + (IF s \in R THEN 1 ELSE 0) = lo[s]  BY <2>1, <2>4
    <3>9. Window(s, J, lo[s], hi2[s])'  BY <3>1, <3>7, <3>8
    <3>10. hi2[s] <= S2[s][(N + 1) + 1]
      <4>1. hi2[s] = S2[s][(N + 1) + 1] /\ hi2[s] \in Nat  BY <1>5, <2>4, <2>5, <3>1
      <4> QED  BY <4>1
    <3> QED  BY <3>9, <3>10 DEF J
  <2>6. CASE s \notin MlStreams
    <3>1. q'[s] = q[s]
      <4>1. s \notin DOMAIN W  BY <2>6
      <4> QED  BY <2>4, <4>1, StreamsStay
    <3>2. hi2[s] = hi[s]  BY <1>5, <2>6
    <3>3. Window(s, I2[s], lo[s], hi2[s])'  BY <2>3, <3>1, <3>2 DEF Window
    <3>4. hi2[s] <= S2[s][N + 2]  BY <1>3, <1>6, <2>1, <3>2
    <3> QED  BY <2>4, <3>3, <3>4
  <2> QED  BY <2>5, <2>6
<1>8. Windows(N + 1, S2, I2, lo, hi2)'  BY <1>7 DEF Windows
<1>9. AtLoader(N + 1, S2, hi2)
  <2>1. (N + 1) + 1 = N + 2  BY <1>1
  <2> QED  BY <1>4, <1>5, <2>1 DEF AtLoader
<1>10. Functions(N + 1, p2, S2, lo, hi2, b, m, t, j)'
  <2> DEFINE X == {}
             P == MlStreams
  <2>1. Kept(lo, lo, PipeStreams \ X) /\ Kept(hi, hi2, PipeStreams \ P)  BY <1>5 DEF Kept
  <2>2. Elsewhere(N + 1, p2, S2, lo, hi2, b, m, t, j, X, P)
    <3> HIDE DEF X, P
    <3> QED  BY <1>1, <1>3, <2>1, Others
  <2>3. UNCHANGED <<splitter, header, breakdown, stitch, summed, out, delivered>>
    BY DEF pipeVars
  <2>4. /\ "revRsp" \notin P /\ P \cap {"ipTuple", "tcpTuple"} = {} /\ "ipHeader" \notin P
        /\ "tcpHeader" \notin P /\ P \cap {"accessFlag", "memCmd"} = {} /\ "memData" \notin P
        /\ "tcpPkg1" \notin P /\ P \cap {"tcpPkg2", "subSums"} = {} /\ "checksum" \notin P
    BY DEF MlStreams
  <2> HIDE DEF P
  <2> QED  BY <2>2, <2>3, <2>4 DEF Functions, Elsewhere
<1>11. AtEnds(N + 1, p2)'
  <2>1. /\ accepted \in Seq(Packets) /\ Len(accepted) = N /\ delivered \in Seq(Packets)
        /\ \A n \in 1 .. N : accepted[n] = WholeOf(p[n], n)
    BY <1>1 DEF AtEnds
  <2> DEFINE w == WholeOf(pl, N + 1)
  <2>2. w \in Packets
    <3>1. pl.tuple \in Tuples /\ PacketSize(pl) \in Nat /\ PacketSize(pl) - 1 \in Nat
      BY PlanFacts
    <3>2. N + 1 \in Nat  BY <1>1
    <3> QED  BY <3>1, <3>2 DEF WholeOf, PacketSum, Packets
  <2> HIDE DEF w
  <2>3. /\ accepted' \in Seq(Packets) /\ Len(accepted') = N + 1 /\ accepted'[N + 1] = w
        /\ \A n \in 1 .. N : accepted'[n] = accepted[n]
    <3>1. accepted' = Append(accepted, w)  BY DEF w
    <3> QED  BY <2>1, <2>2, <3>1, AppendProperties
  <2>4. ASSUME NEW n \in 1 .. N + 1 PROVE accepted'[n] = WholeOf(p2[n], n)
    <3>1. CASE n \in 1 .. N
      <4>1. p2[n] = p[n]  BY <1>3, <3>1 DEF Longer
      <4> QED  BY <2>1, <2>3, <3>1, <4>1
    <3>2. CASE n = N + 1  BY <1>3, <2>3, <3>2 DEF w
    <3>3. n \in 1 .. N \/ n = N + 1  BY <1>1
    <3> QED  BY <3>1, <3>2, <3>3
  <2>5. delivered' = delivered  BY DEF pipeVars
  <2> QED  BY <2>1, <2>3, <2>4, <2>5 DEF AtEnds
<1>12. InFlow(N + 1, p2, S2, I2, lo, hi2, b, m, t, j)'
  <2>1. N + 1 \in Nat  BY <1>1
  <2> QED  BY <1>3, <1>8, <1>9, <1>10, <1>11, <2>1 DEF InFlow
<1> QED  BY <1>12 DEF Flow

-----------------------------------------------------------------------------
(***************************************************************************)
(* metaLoader                                                              *)
(***************************************************************************)
Accepts ==
    /\ Len(accepted') = Len(accepted) + 1
    /\ SubSeq(accepted', 1, Len(accepted)) = accepted
    /\ delivered' = delivered

\* It has an event, and what the tables have answered is about its session.
LEMMA Asked ==
    ASSUME AtAnswers, ml # MlIdle, \A s \in ml.asked : Has(s)
    PROVE  /\ ml = [state |-> "event", ev |-> ml.ev, asked |-> ml.asked, sars |-> ml.sars,
                    count |-> ml.count]
           /\ ml.ev \in Event /\ ml.asked \subseteq Answers
           /\ Sars \subseteq {ml.ev.session}
           /\ Stray(ml.ev) => ml.asked = {} /\ Sars = {}
           /\ \A s \in Answers : q[s] = (IF s \in ml.asked THEN << ml.ev.session >> ELSE << >>)
<1>1. /\ ml = [state |-> "event", ev |-> ml.ev, asked |-> ml.asked, sars |-> ml.sars,
               count |-> ml.count]
      /\ ml.ev \in Event /\ ml.asked \subseteq Answers
      /\ ml.sars \subseteq {ml.ev.session}
      /\ Stray(ml.ev) => ml.asked = {} /\ ml.sars = {}
      /\ \A s \in Answers : q[s] = (IF s \in ml.asked THEN << ml.ev.session >> ELSE << >>)
  BY DEF AtAnswers
<1>2. \A s \in ml.asked : Front(s) = ml.ev.session
  <2> TAKE s \in ml.asked
  <2>1. q[s] = << ml.ev.session >>  BY <1>1
  <2>2. Head(<< ml.ev.session >>) = ml.ev.session  OBVIOUS
  <2> QED  BY <2>1, <2>2 DEF Front
<1>3. Sars \subseteq {ml.ev.session}  BY <1>1, <1>2 DEF Sars
<1>4. Stray(ml.ev) => Sars = {}  BY <1>1 DEF Sars
<1> QED  BY <1>1, <1>3, <1>4

\* The answers are taken.
LEMMA AnswersTaken ==
    ASSUME AtAnswers, ml # MlIdle, \A s \in ml.asked : Has(s),
           NEW W, Transfer(ml.asked, W), DOMAIN W \cap Answers = {}
    PROVE  \A s \in Answers : q'[s] = << >>
<1> TAKE s \in Answers
<1>1. s \notin DOMAIN W /\ s \in Names  BY TxPathAssumption DEF Answers
<1>2. q[s] = (IF s \in ml.asked THEN << ml.ev.session >> ELSE << >>)  BY Asked
<1>3. q'[s] = (IF s \in ml.asked THEN Tail(q[s]) ELSE q[s]) \o << >>
  BY <1>1 DEF Transfer
<1>4. Tail(<< ml.ev.session >>) \o << >> = << >> /\ << >> \o << >> = << >>  OBVIOUS
<1> QED  BY <1>2, <1>3, <1>4

LEMMA EventIs ==
    ASSUME NEW f, NEW e, NEW a, NEW r, NEW c,
           DOMAIN f = {"state", "ev", "asked", "sars", "count"}, f = [x \in DOMAIN f |-> f[x]],
           f.state = "event", f.ev = e, f.asked = a, f.sars = r, f.count = c
    PROVE  f = [state |-> "event", ev |-> e, asked |-> a, sars |-> r, count |-> c]
OBVIOUS

LEMMA AnswersNext ==
    ASSUME AtAnswers, ml # MlIdle, \A s \in ml.asked : Has(s),
           \A s \in Answers : q'[s] = << >>,
           \/ ml' = MlIdle
           \/ ml.ev.type # "RST"
              /\ (ml' = [Loaded EXCEPT !.ev.type = "FIN"] \/ ml' = [Loaded EXCEPT !.count = @ + 1])
    PROVE  AtAnswers'
<1>1. CASE ml' = MlIdle
  BY <1>1 DEF AtAnswers
<1>2. /\ ml = [state |-> "event", ev |-> ml.ev, asked |-> ml.asked, sars |-> ml.sars,
               count |-> ml.count]
      /\ ml.ev \in Event /\ Sars \subseteq {ml.ev.session}
  BY Asked
<1> DEFINE X == Sars
<1>3. Loaded = [state |-> "event", ev |-> ml.ev, asked |-> {}, sars |-> X, count |-> ml.count]
  <2>1. /\ DOMAIN ml = {"state", "ev", "asked", "sars", "count"}
        /\ ml.state = "event"
    BY <1>2
  <2>2. /\ DOMAIN Loaded = {"state", "ev", "asked", "sars", "count"}
        /\ Loaded = [x \in DOMAIN Loaded |-> Loaded[x]]
        /\ Loaded.state = "event" /\ Loaded.ev = ml.ev /\ Loaded.asked = {}
        /\ Loaded.sars = X /\ Loaded.count = ml.count
    BY <2>1 DEF Loaded
  <2> HIDE DEF X
  <2> QED  BY <2>2, EventIs
<1>4. X \subseteq {ml.ev.session}  BY <1>2
<1> HIDE DEF X
<1>5. CASE ml' = [Loaded EXCEPT !.ev.type = "FIN"]
  <2> DEFINE e == [ml.ev EXCEPT !.type = "FIN"]
  <2>1. ml' = [state |-> "event", ev |-> e, asked |-> {}, sars |-> X, count |-> ml.count]
    BY <1>3, <1>5
  <2>2. e \in Event /\ e.session = ml.ev.session /\ e.type = "FIN"
    BY <1>2 DEF Event, EventType
  <2> HIDE DEF e
  <2>3. /\ ml'.ev = e /\ ml'.asked = {} /\ ml'.sars = X
        /\ ml' = [state |-> "event", ev |-> ml'.ev, asked |-> ml'.asked, sars |-> ml'.sars,
                  count |-> ml'.count]
    BY <2>1
  <2>4. (Stray(ml.ev))' = FALSE  BY <2>2, <2>3 DEF Stray
  <2> QED  BY <1>4, <2>2, <2>3, <2>4 DEF AtAnswers
<1>6. CASE ml.ev.type # "RST" /\ ml' = [Loaded EXCEPT !.count = @ + 1]
  <2>1. ml' = [state |-> "event", ev |-> ml.ev, asked |-> {}, sars |-> X,
               count |-> ml.count + 1]
    BY <1>3, <1>6
  <2>3. /\ ml'.ev = ml.ev /\ ml'.asked = {} /\ ml'.sars = X
        /\ ml' = [state |-> "event", ev |-> ml'.ev, asked |-> ml'.asked, sars |-> ml'.sars,
                  count |-> ml'.count]
    BY <2>1
  <2>4. (Stray(ml.ev))' = FALSE  BY <1>6, <2>3 DEF Stray
  <2> QED  BY <1>2, <1>4, <2>3, <2>4 DEF AtAnswers
<1> QED  BY <1>1, <1>5, <1>6

LEMMA AcceptsOne ==
    ASSUME NEW w, accepted \in Seq(Packets), accepted' = Append(accepted, w), delivered' = delivered
    PROVE  Accepts
<1> DEFINE T == Packets \cup {w}
<1>1. accepted \in Seq(T) /\ w \in T  OBVIOUS
<1> HIDE DEF T
<1>2. /\ accepted' \in Seq(T) /\ Len(accepted') = Len(accepted) + 1 /\ Len(accepted) \in Nat
      /\ \A n \in 1 .. Len(accepted) : accepted'[n] = accepted[n]
  BY <1>1, AppendProperties, LenProperties
<1>3. SubSeq(accepted', 1, Len(accepted)) = accepted
  BY <1>1, <1>2
<1> QED  BY <1>2, <1>3 DEF Accepts

LEMMA SendFlow ==
    ASSUME NEW N, NEW p, NEW S, NEW I, NEW lo, NEW hi, NEW b, NEW m, NEW t, NEW j,
           InFlow(N, p, S, I, lo, hi, b, m, t, j),
           ml # MlIdle, \A s \in ml.asked : Has(s),
           NEW length \in Nat, NEW syn \in BOOLEAN, NEW pay, pay[1] \in Nat, pay[2] \in Nat,
           pay[1] = 0 => pay[2] = 0,
           syn => length # 0 /\ pay[1] = 0, ~syn => (length = 0 <=> pay[1] = 0),
           SendPacket(length, syn, pay), UNCHANGED pipeVars,
           \/ ml' = MlIdle
           \/ ml.ev.type # "RST"
              /\ (ml' = [Loaded EXCEPT !.ev.type = "FIN"] \/ ml' = [Loaded EXCEPT !.count = @ + 1])
    PROVE  Flow' /\ Accepts
<1> DEFINE pl == [tuple |-> ml.ev.session, sars |-> Sars, lookup |-> TRUE, syn |-> syn,
                  length |-> length, first |-> pay[1], second |-> pay[2]]
           W == [ipMeta |-> <<Id>>, tcpMeta |-> <<Meta(length, syn)>>,
                 isLookUp |-> <<TRUE>>, revReq |-> <<ml.ev.session>>,
                 readCmd |-> IF pay[1] = 0 THEN <<>>
                             ELSE <<[pkt |-> Id, first |-> pay[1], second |-> pay[2]]>>]
<1>1. AtAnswers /\ AtEnds(N, p) /\ N \in Nat  BY DEF InFlow
<1>2. /\ ml.ev \in Event /\ ml.asked \subseteq Answers /\ Sars \subseteq {ml.ev.session}
  BY <1>1, Asked
<1>3. Id = N + 1 /\ accepted \in Seq(Packets)  BY <1>1 DEF AtEnds, Id
<1>4. /\ Transfer(ml.asked, W)
      /\ accepted' = Append(accepted, Whole(ml.ev.session,
                              2 + (IF syn THEN 1 ELSE 0) + pay[1] + pay[2]))
  BY DEF SendPacket
<1>5. pl \in Plan
  <2>1. ml.ev.session \in Tuples /\ Sars \subseteq Tuples
    BY <1>2 DEF Event, Tuples
  <2>2. pl \in [tuple : Tuples, sars : SUBSET Tuples, lookup : BOOLEAN, syn : BOOLEAN,
                length : Nat, first : Nat, second : Nat]
    BY <2>1
  <2>3. /\ pl.sars \subseteq {pl.tuple}
        /\ pl.syn => pl.length # 0 /\ pl.first = 0
        /\ ~pl.syn => (pl.length = 0 <=> pl.first = 0)
        /\ pl.first = 0 => pl.second = 0
    BY <1>2
  <2> HIDE DEF pl
  <2> QED  BY <2>2, <2>3 DEF Plan
<1>6. /\ DOMAIN W = {"ipMeta", "tcpMeta", "isLookUp", "revReq", "readCmd"}
      /\ W["ipMeta"] = << N + 1 >> /\ W["tcpMeta"] = << MetaOf(pl, N + 1) >>
      /\ W["isLookUp"] = << TRUE >> /\ W["revReq"] = << ml.ev.session >>
      /\ W["readCmd"] = IF pay[1] = 0 THEN << >>
                        ELSE << [pkt |-> N + 1, first |-> pay[1], second |-> pay[2]] >>
  <2>1. MetaOf(pl, N + 1) = Meta(length, syn)  BY <1>3 DEF MetaOf, Meta
  <2> QED  BY <1>3, <2>1
<1>7. accepted' = Append(accepted, WholeOf(pl, N + 1))
  <2>1. PacketSize(pl) = (IF syn THEN 4 ELSE 3) + pay[1] + pay[2]
    BY DEF PacketSize, HeaderSize
  <2>2. PacketSize(pl) - 1 = 2 + (IF syn THEN 1 ELSE 0) + pay[1] + pay[2]  BY <2>1
  <2>3. PacketSize(pl) = (2 + (IF syn THEN 1 ELSE 0) + pay[1] + pay[2]) + 1  BY <2>1
  <2>4. pl.tuple = ml.ev.session  OBVIOUS
  <2> HIDE DEF pl
  <2>5. WholeOf(pl, N + 1) = Whole(ml.ev.session, 2 + (IF syn THEN 1 ELSE 0) + pay[1] + pay[2])
    BY <1>3, <2>2, <2>3, <2>4 DEF WholeOf, Whole, PacketSum
  <2> QED  BY <1>4, <2>5
<1>8. \A s \in MlStreams : IF s \in DOMAIN W THEN W[s] = Content(pl, N + 1)[s]
                           ELSE Content(pl, N + 1)[s] = << >>
  <2>1. /\ Content(pl, N + 1)["ipMeta"] = << N + 1 >>
        /\ Content(pl, N + 1)["tcpMeta"] = << MetaOf(pl, N + 1) >>
        /\ Content(pl, N + 1)["isLookUp"] = << pl.lookup >>
        /\ Content(pl, N + 1)["revReq"] = (IF pl.lookup THEN << pl.tuple >> ELSE << >>)
        /\ Content(pl, N + 1)["shortCut"] = (IF pl.lookup THEN << >> ELSE << pl.tuple >>)
        /\ Content(pl, N + 1)["readCmd"] =
              (IF pl.first = 0 THEN << >>
               ELSE << [pkt |-> N + 1, first |-> pl.first, second |-> pl.second] >>)
    BY DEF Content
  <2>2. pl.lookup = TRUE /\ pl.tuple = ml.ev.session /\ pl.first = pay[1] /\ pl.second = pay[2]
    OBVIOUS
  <2> HIDE DEF pl, W
  <2>3. /\ "ipMeta" \in DOMAIN W /\ "tcpMeta" \in DOMAIN W /\ "isLookUp" \in DOMAIN W
        /\ "revReq" \in DOMAIN W /\ "readCmd" \in DOMAIN W /\ "shortCut" \notin DOMAIN W
    BY <1>6
  <2>4. /\ W["ipMeta"] = Content(pl, N + 1)["ipMeta"]
        /\ W["tcpMeta"] = Content(pl, N + 1)["tcpMeta"]
        /\ W["isLookUp"] = Content(pl, N + 1)["isLookUp"]
    BY <1>6, <2>1, <2>2
  <2>5. /\ W["revReq"] = Content(pl, N + 1)["revReq"]
        /\ Content(pl, N + 1)["shortCut"] = << >>
    BY <1>6, <2>1, <2>2
  <2>6. W["readCmd"] = Content(pl, N + 1)["readCmd"]  BY <1>6, <2>1, <2>2
  <2> QED  BY <2>3, <2>4, <2>5, <2>6 DEF MlStreams
<1>9. DOMAIN W \subseteq MlStreams /\ DOMAIN W \cap Answers = {}
  <2> HIDE DEF W
  <2> QED  BY <1>6 DEF MlStreams, Answers
<1> HIDE DEF pl, W
<1>10. \A s \in Answers : q'[s] = << >>  BY <1>1, <1>4, <1>9, AnswersTaken
<1>11. AtAnswers'  BY <1>1, <1>10, AnswersNext
<1>12. Flow'
  <2> DEFINE R == ml.asked
  <2>1. Transfer(R, W) /\ R \subseteq Answers  BY <1>2, <1>4
  <2> HIDE DEF R
  <2> QED  BY <1>5, <1>7, <1>8, <1>9, <1>11, <2>1, AcceptFlow
<1>13. Accepts
  <2>1. delivered' = delivered  BY DEF pipeVars
  <2> QED  BY <1>3, <1>7, <2>1, AcceptsOne
<1> QED  BY <1>12, <1>13

LEMMA StrayFlow ==
    ASSUME NEW N, NEW p, NEW S, NEW I, NEW lo, NEW hi, NEW b, NEW m, NEW t, NEW j,
           InFlow(N, p, S, I, lo, hi, b, m, t, j), MlRst, Stray(ml.ev)
    PROVE  Flow' /\ Accepts
<1> DEFINE pl == [tuple |-> Peer, sars |-> {}, lookup |-> FALSE, syn |-> FALSE,
                  length |-> 0, first |-> 0, second |-> 0]
           W == [ipMeta |-> <<Id>>, tcpMeta |-> <<Meta(0, FALSE)>>,
                 isLookUp |-> <<FALSE>>, shortCut |-> <<Peer>>]
<1>1. /\ ml # MlIdle /\ \A s \in ml.asked : Has(s)
      /\ Transfer({}, W) /\ accepted' = Append(accepted, Whole(Peer, 2))
      /\ ml' = MlIdle /\ UNCHANGED pipeVars
  BY DEF MlRst, Ready
<1>2. AtAnswers /\ AtEnds(N, p) /\ N \in Nat  BY DEF InFlow
<1>3. ml.asked = {} /\ Sars = {}  BY <1>1, <1>2, Asked
<1>4. Id = N + 1 /\ accepted \in Seq(Packets)  BY <1>2 DEF AtEnds, Id
<1>5. pl \in Plan  BY DEF Plan, Tuples
<1>6. /\ DOMAIN W = {"ipMeta", "tcpMeta", "isLookUp", "shortCut"}
      /\ W["ipMeta"] = << N + 1 >> /\ W["tcpMeta"] = << MetaOf(pl, N + 1) >>
      /\ W["isLookUp"] = << FALSE >> /\ W["shortCut"] = << Peer >>
  <2>1. MetaOf(pl, N + 1) = Meta(0, FALSE)  BY <1>3, <1>4 DEF MetaOf, Meta
  <2> QED  BY <1>4, <2>1
<1>7. accepted' = Append(accepted, WholeOf(pl, N + 1))
  <2>1. PacketSize(pl) = 3 /\ pl.tuple = Peer  BY DEF PacketSize, HeaderSize
  <2> HIDE DEF pl
  <2>2. WholeOf(pl, N + 1) = Whole(Peer, 2)
    BY <1>4, <2>1 DEF WholeOf, Whole, PacketSum
  <2> QED  BY <1>1, <2>2
<1>8. \A s \in MlStreams : IF s \in DOMAIN W THEN W[s] = Content(pl, N + 1)[s]
                           ELSE Content(pl, N + 1)[s] = << >>
  <2>1. /\ Content(pl, N + 1)["ipMeta"] = << N + 1 >>
        /\ Content(pl, N + 1)["tcpMeta"] = << MetaOf(pl, N + 1) >>
        /\ Content(pl, N + 1)["isLookUp"] = << pl.lookup >>
        /\ Content(pl, N + 1)["revReq"] = (IF pl.lookup THEN << pl.tuple >> ELSE << >>)
        /\ Content(pl, N + 1)["shortCut"] = (IF pl.lookup THEN << >> ELSE << pl.tuple >>)
        /\ Content(pl, N + 1)["readCmd"] =
              (IF pl.first = 0 THEN << >>
               ELSE << [pkt |-> N + 1, first |-> pl.first, second |-> pl.second] >>)
    BY DEF Content
  <2>2. pl.lookup = FALSE /\ pl.tuple = Peer /\ pl.first = 0  OBVIOUS
  <2> HIDE DEF pl, W
  <2> QED  BY <1>6, <2>1, <2>2 DEF MlStreams
<1>9. DOMAIN W \subseteq MlStreams /\ DOMAIN W \cap Answers = {}
  <2> HIDE DEF W
  <2> QED  BY <1>6 DEF MlStreams, Answers
<1> HIDE DEF pl, W
<1>10. AtAnswers'
  <2>1. Transfer(ml.asked, W)  BY <1>1, <1>3
  <2>2. \A s \in Answers : q'[s] = << >>  BY <1>1, <1>2, <1>9, <2>1, AnswersTaken
  <2> QED  BY <1>1, <1>2, <2>2, AnswersNext
<1>11. Flow'
  <2> DEFINE R == {}
  <2>1. Transfer(R, W) /\ R \subseteq Answers  BY <1>1
  <2>2. UNCHANGED pipeVars  BY <1>1
  <2> HIDE DEF R
  <2> QED  BY <1>5, <1>7, <1>8, <1>9, <1>10, <2>1, <2>2, AcceptFlow
<1>12. Accepts
  <2>1. delivered' = delivered  BY <1>1 DEF pipeVars
  <2> QED  BY <1>4, <1>7, <2>1, AcceptsOne
<1> QED  BY <1>11, <1>12

LEMMA NothingFlow ==
    ASSUME NEW N, NEW p, NEW S, NEW I, NEW lo, NEW hi, NEW b, NEW m, NEW t, NEW j,
           InFlow(N, p, S, I, lo, hi, b, m, t, j),
           ml # MlIdle, \A s \in ml.asked : Has(s), SendNothing, UNCHANGED pipeVars,
           \/ ml' = MlIdle
           \/ ml.ev.type # "RST"
              /\ (ml' = [Loaded EXCEPT !.ev.type = "FIN"] \/ ml' = [Loaded EXCEPT !.count = @ + 1])
    PROVE  Flow' /\ UNCHANGED <<accepted, delivered>>
<1> DEFINE W == Silent
           R == ml.asked
<1>1. Transfer(R, W) /\ accepted' = accepted  BY DEF SendNothing
<1>2. DOMAIN W = {}  BY SilentFacts
<1>3. AtAnswers  BY DEF InFlow
<1>4. R \subseteq Answers  BY <1>3, Asked
<1> HIDE DEF W
<1>5. AtAnswers'
  <2>1. \A s \in Answers : q'[s] = << >>  BY <1>1, <1>2, <1>3, AnswersTaken
  <2> QED  BY <1>3, <2>1, AnswersNext
<1> HIDE DEF R
<1>6. \A s \in PipeStreams : q'[s] = q[s]
  <2>1. \A s \in PipeStreams : s \notin R /\ s \notin DOMAIN W
    BY <1>2, <1>4 DEF PipeStreams, Answers
  <2> QED  BY <1>1, <2>1, StreamsStay
<1>7. UNCHANGED <<pipeVars, accepted>>  BY <1>1
<1>8. Flow'  BY <1>5, <1>6, <1>7, StillFlow
<1> QED  BY <1>1, <1>8 DEF pipeVars

LEMMA MlSendFlow ==
    ASSUME Flow, MlSend
    PROVE  Flow' /\ (Accepts \/ UNCHANGED <<accepted, delivered>>)
<1>1. PICK N, p, S, I, lo, hi, b, m, t, j : InFlow(N, p, S, I, lo, hi, b, m, t, j)
  BY DEF Flow
<1>2. NoPayload[1] = 0 /\ NoPayload[2] = 0  BY DEF NoPayload
<1>3. CASE MlSegment
  <2>1. ml # MlIdle /\ (\A s \in ml.asked : Has(s)) /\ UNCHANGED pipeVars /\ ml.ev.type # "RST"
    BY <1>3 DEF MlSegment, Ready
  <2>2. PICK pay \in Payloads \cup {NoPayload} :
           /\ IF pay = NoPayload THEN SendNothing ELSE SendPacket(pay[1] + pay[2], FALSE, pay)
           /\ \/ ml' = MlIdle
              \/ ml' = [Loaded EXCEPT !.ev.type = "FIN"]
              \/ ml' = [Loaded EXCEPT !.count = @ + 1]
    BY <1>3 DEF MlSegment
  <2>3. CASE pay = NoPayload
    <3>1. SendNothing  BY <2>2, <2>3
    <3>2. Flow' /\ UNCHANGED <<accepted, delivered>>
      BY <1>1, <2>1, <2>2, <3>1, NothingFlow
    <3> QED  BY <3>2
  <2>4. CASE pay # NoPayload
    <3>1. pay[1] \in Nat /\ pay[1] # 0 /\ pay[2] \in Nat
      <4>1. pay \in (Nat \ {0}) \X Nat  BY <2>2, <2>4, TxPathAssumption
      <4> QED  BY <4>1
    <3> DEFINE length == pay[1] + pay[2]
               syn == FALSE
    <3>2. length \in Nat /\ length # 0 /\ syn \in BOOLEAN /\ ~syn  BY <3>1
    <3>3. SendPacket(length, syn, pay)  BY <2>2, <2>4
    <3> HIDE DEF length, syn
    <3>4. Flow' /\ Accepts
      BY <1>1, <2>1, <2>2, <3>1, <3>2, <3>3, SendFlow
    <3> QED  BY <3>4
  <2> QED  BY <2>3, <2>4
<1>4. ASSUME NEW length \in Nat, NEW syn \in BOOLEAN, syn <=> length # 0,
             ml # MlIdle, \A s \in ml.asked : Has(s), UNCHANGED pipeVars, ml' = MlIdle,
             SendPacket(length, syn, NoPayload)
      PROVE  Flow' /\ Accepts
  BY <1>1, <1>2, <1>4, SendFlow
<1>5. ASSUME NEW types, Ready(types) PROVE ml # MlIdle /\ \A s \in ml.asked : Has(s)
  BY <1>5 DEF Ready
<1>6. CASE MlFin
  <2>1. Ready({"FIN"}) /\ UNCHANGED pipeVars /\ ml' = MlIdle
        /\ (SendPacket(0, FALSE, NoPayload) \/ SendNothing)
    BY <1>6 DEF MlFin
  <2>2. ml # MlIdle /\ \A s \in ml.asked : Has(s)  BY <1>5, <2>1
  <2>3. CASE SendPacket(0, FALSE, NoPayload)  BY <1>4, <2>1, <2>2, <2>3
  <2>4. CASE SendNothing
    <3>1. Flow' /\ UNCHANGED <<accepted, delivered>>
      BY <1>1, <2>1, <2>2, <2>4, NothingFlow
    <3> QED  BY <3>1
  <2> QED  BY <2>1, <2>3, <2>4
<1>7. CASE MlSyn
  <2>1. Ready({"SYN", "SYN_ACK"}) /\ UNCHANGED pipeVars /\ ml' = MlIdle
        /\ SendPacket(4, TRUE, NoPayload)
    BY <1>7 DEF MlSyn
  <2>2. ml # MlIdle /\ \A s \in ml.asked : Has(s)  BY <1>5, <2>1
  <2> DEFINE length == 4
             syn == TRUE
  <2>3. length \in Nat /\ syn \in BOOLEAN /\ (syn <=> length # 0)  OBVIOUS
  <2>4. SendPacket(length, syn, NoPayload)  BY <2>1
  <2> HIDE DEF length, syn
  <2> QED  BY <1>4, <2>1, <2>2, <2>3, <2>4
<1>8. CASE MlAck
  <2>1. Ready({"ACK", "ACK_NODELAY"}) /\ UNCHANGED pipeVars /\ ml' = MlIdle
        /\ SendPacket(0, FALSE, NoPayload)
    BY <1>8 DEF MlAck
  <2>2. ml # MlIdle /\ \A s \in ml.asked : Has(s)  BY <1>5, <2>1
  <2> QED  BY <1>4, <2>1, <2>2
<1>9. CASE MlRst
  <2>1. CASE Stray(ml.ev)  BY <1>1, <1>9, <2>1, StrayFlow
  <2>2. CASE ~Stray(ml.ev)
    <3>1. Ready({"RST"}) /\ UNCHANGED pipeVars /\ ml' = MlIdle
          /\ SendPacket(0, FALSE, NoPayload)
      BY <1>9, <2>2 DEF MlRst
    <3>2. ml # MlIdle /\ \A s \in ml.asked : Has(s)  BY <1>5, <3>1
    <3> QED  BY <1>4, <3>1, <3>2
  <2> QED  BY <2>1, <2>2
<1> QED  BY <1>3, <1>6, <1>7, <1>8, <1>9 DEF MlSend

-----------------------------------------------------------------------------
(***************************************************************************)
(* The path implements the queue.                                          *)
(***************************************************************************)
LEMMA InitFlow == Init => Flow
<1> SUFFICES ASSUME Init PROVE Flow  OBVIOUS
<1> DEFINE N == 0
           pl == [tuple |-> Peer, sars |-> {}, lookup |-> FALSE, syn |-> FALSE,
                  length |-> 0, first |-> 0, second |-> 0]
           p == [n \in Nat |-> pl]
           S == [s \in PipeStreams |-> [n \in Nat |-> 0]]
           I == [s \in PipeStreams |-> [n \in Nat |-> 0]]
           f == [s \in PipeStreams |-> 0]
<1>1. \A s \in PipeStreams \cup Answers : q[s] = << >>
  <2>1. PICK i \in Inputs : InitStreams(i)  BY DEF Init
  <2>2. DOMAIN i \subseteq Arriving  BY InputsAssumption
  <2>3. \A s \in PipeStreams \cup Answers : s \in Names /\ s \notin Arriving
    BY TxPipeAssumption, TxPathAssumption DEF PipeStreams, Answers, Arriving
  <2> QED  BY <2>1, <2>2, <2>3 DEF InitStreams
<1>2. /\ splitter = "getMeta" /\ header = [word |-> 0] /\ breakdown = NoAccess
      /\ stitch = [state |-> "header", flag |-> Unread, word |-> 0]
      /\ summed = NoWords /\ out = NoOut /\ delivered = << >>
      /\ ml = MlIdle /\ accepted = << >>
  BY DEF Init, InitPipe
<1>3. pl \in Plan  BY DEF Plan, Tuples
<1>4. p \in [Nat -> Plan]  BY <1>3
<1>5. \A s \in PipeStreams : /\ S[s] \in [Nat -> Nat] /\ \A n \in Nat : S[s][n] = 0
                             /\ f[s] = 0
  OBVIOUS
<1>6. \A n : n \notin 1 .. N  OBVIOUS
<1>7. \A n : n \in 1 .. N + 1 <=> n = 1  OBVIOUS
<1>8. S["revRsp"] = S["revReq"] /\ I["revRsp"] = I["revReq"]
      /\ S["accessFlag"] = S["readCmd"] /\ I["checksum"] = I["subSums"]
  BY DEF PipeStreams
<1> HIDE DEF p, S, I, f
<1>9. \A s \in PipeStreams : Fit(N, Contents(s, p), S[s], I[s])
  BY <1>5, <1>6, <1>7 DEF Fit
<1>10. History(N, p, S, I)
  <2>1. \A s \in Single : s \in PipeStreams  BY DEF Single, PipeStreams
  <2>2. \A s \in Single : \A n \in 1 .. N + 1 : S[s][n] = n - 1
    BY <1>5, <1>7, <2>1
  <2>3. Together(N, S, "readCmd", "memCmd") /\ Together(N, S, "memCmd", "memData")
    BY <1>7 DEF Together
  <2> QED  BY <1>4, <1>8, <1>9, <2>2, <2>3 DEF History
<1>11. Windows(N, S, I, f, f)
  <2> SUFFICES ASSUME NEW s \in PipeStreams
               PROVE  Window(s, I[s], f[s], f[s]) /\ f[s] <= S[s][N + 1]
    BY DEF Windows
  <2>1. [i \in 1 .. 0 - 0 |-> I[s][0 + i]] = << >>  OBVIOUS
  <2> QED  BY <1>1, <1>5, <2>1 DEF Window
<1>12. AtLoader(N, S, f)
  <2>1. MlStreams \subseteq PipeStreams  BY DEF MlStreams, PipeStreams
  <2> QED  BY <1>5, <2>1 DEF AtLoader
<1>13. Functions(N, p, S, f, f, 0, 1, 1, 0)
  <2>1. \A s \in PipeStreams : f[s] = 0 /\ S[s][1] = 0  BY <1>5
  <2>2. Len(delivered) = 0 /\ NoWords.words = 0 /\ NoOut.words = 0
    BY <1>2 DEF NoWords, NoOut
  <2>3. AtReverse(f, f) /\ AtIp(f, f) /\ AtChecksum(f, f)
    BY <2>1 DEF AtReverse, AtIp, AtChecksum, PipeStreams
  <2>4. AtSplitter(N, p, S, f, f)  BY <1>2, <2>1 DEF AtSplitter, PipeStreams
  <2>5. AtHeader(N, p, S, f, f)  BY <1>2, <2>1 DEF AtHeader, PipeStreams
  <2>6. AtBreakdown(N, p, S, f, f, 0)  BY <1>2, <2>1 DEF AtBreakdown, PipeStreams
  <2>7. AtMemory(N, p, S, f, f, 1)  BY <2>1 DEF AtMemory, PipeStreams
  <2>8. AtStitcher(N, p, S, f, f, 1, 0)  BY <1>2, <2>1 DEF AtStitcher, PipeStreams
  <2>9. AtSum(N, p, S, f, f)  BY <1>2, <2>1, <2>2 DEF AtSum, PipeStreams
  <2>10. AtOut(N, p, S, f)  BY <1>2, <2>1, <2>2 DEF AtOut, PipeStreams
  <2> QED  BY <2>3, <2>4, <2>5, <2>6, <2>7, <2>8, <2>9, <2>10 DEF Functions
<1>14. AtEnds(N, p) /\ AtAnswers  BY <1>1, <1>2, <1>6 DEF AtEnds, AtAnswers
<1>15. InFlow(N, p, S, I, f, f, 0, 1, 1, 0)
  BY <1>10, <1>11, <1>12, <1>13, <1>14 DEF InFlow
<1> QED  BY <1>15 DEF Flow

LEMMA NextFlow ==
    ASSUME IInv, Flow, [Next]_vars
    PROVE  Flow' /\ [Queue!Next]_<<accepted, delivered>>
<1>0. CASE UNCHANGED vars
  <2>1. PICK N, p, S, I, lo, hi, b, m, t, j : InFlow(N, p, S, I, lo, hi, b, m, t, j)
    BY DEF Flow
  <2>2. q' = q /\ ml' = ml /\ UNCHANGED <<pipeVars, accepted>>
    BY <1>0 DEF vars
  <2>3. AtAnswers  BY <2>1 DEF InFlow
  <2>4. AtAnswers'  BY <2>2, <2>3 DEF AtAnswers, Stray
  <2>5. Flow'
    <3>1. \A s \in PipeStreams : q'[s] = q[s]  BY <2>2
    <3> QED  BY <2>1, <2>2, <2>4, <3>1, StillFlow
  <2> QED  BY <2>2, <2>5 DEF pipeVars
<1>1. CASE MlRead
  <2>1. Flow'  BY <1>1, MlReadFlow
  <2>2. UNCHANGED <<accepted, delivered>>  BY <1>1 DEF MlRead, pipeVars
  <2> QED  BY <2>1, <2>2
<1>2. CASE MlSend
  <2>1. Flow' /\ (Accepts \/ UNCHANGED <<accepted, delivered>>)  BY <1>2, MlSendFlow
  <2>2. Accepts => Queue!Next  BY DEF Accepts, Queue!Next, Queue!Accept
  <2> QED  BY <2>1, <2>2
<1>3. CASE Pipe(PipeNext)
  <2>1. PipeNext /\ ml' = ml /\ accepted' = accepted  BY <1>3 DEF Pipe
  <2>2. Flow' /\ Delivers  BY <2>1, PipeFlow
  <2> QED  BY <2>1, <2>2 DEF Delivers, Queue!Next, Queue!Deliver
<1>4. CASE Path(EventNext)
  <2>1. EventNext /\ UNCHANGED <<pipeVars, ml, accepted>>  BY <1>4 DEF Path
  <2>2. Flow'  BY <2>1, EventFlow
  <2> QED  BY <2>1, <2>2 DEF pipeVars
<1> QED  BY <1>0, <1>1, <1>2, <1>3, <1>4 DEF Next, MetaLoader, MlSend

\* The path from metaLoader to the network is a queue of packets: each packet
\* leaves as metaLoader has asked for it, with its own tuple, payload and
\* checksum, once and in the order of the requests.
THEOREM PacketsKept == Spec => PacketsInOrder
<1>1. Init => Queue!Init  BY DEF Init, InitPipe, Queue!Init
<1>2. IInv /\ Flow /\ [Next]_vars => Flow' /\ [Queue!Next]_<<accepted, delivered>>
  BY NextFlow
<1>3. Spec => [](IInv /\ Flow)
  <2>1. IInv /\ Flow /\ [Next]_vars => (IInv /\ Flow)'  BY NextIInv, NextFlow
  <2>2. Init => IInv /\ Flow  BY InitIInv, InitFlow
  <2> QED  BY <2>1, <2>2, PTL DEF Spec
<1> QED  BY <1>1, <1>2, <1>3, PTL DEF Spec, PacketsInOrder, Queue!Spec, Queue!vars
==============================================================================
