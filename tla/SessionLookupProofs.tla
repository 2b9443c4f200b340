------------------------- MODULE SessionLookupProofs -------------------------
(***************************************************************************)
(* SessionLookup for any number of sessions: types; no session ID is lost  *)
(* or handed out twice; the CAM and the reverse table describe the same    *)
(* connections; the five functions keep one directory; the number of       *)
(* sessions is exact.                                                      *)
(***************************************************************************)
EXTENDS SessionLookup, FiniteSetTheorems, SequenceTheorems, TLAPS

-----------------------------------------------------------------------------
(***************************************************************************)
(* Counting the entries of a queue that are in a set                       *)
(***************************************************************************)
LEMMA AmongType ==
    ASSUME NEW S, NEW q \in Seq(S), NEW T
    PROVE  Among(T, q) \in Nat
<1>1. IsFiniteSet(1 .. Len(q))  BY FS_Interval, LenProperties
<1>2. {i \in DOMAIN q : q[i] \in T} \in SUBSET (1 .. Len(q))  BY LenProperties
<1>3. IsFiniteSet({i \in DOMAIN q : q[i] \in T})  BY <1>1, <1>2, FS_Subset
<1> QED  BY <1>3, FS_CardinalityType DEF Among

LEMMA AmongAppend ==
    ASSUME NEW S, NEW q \in Seq(S), NEW e \in S, NEW T
    PROVE  /\ e \in T => Among(T, Append(q, e)) = Among(T, q) + 1
           /\ e \notin T => Among(T, Append(q, e)) = Among(T, q)
<1> DEFINE A == {i \in DOMAIN q : q[i] \in T}
           B == {i \in DOMAIN Append(q, e) : Append(q, e)[i] \in T}
           n == Len(q) + 1
<1>1. IsFiniteSet(A) /\ n \notin A /\ Cardinality(A) \in Nat
  <2>1. IsFiniteSet(1 .. Len(q))  BY FS_Interval, LenProperties
  <2>2. A \in SUBSET (1 .. Len(q)) /\ n \notin A  BY LenProperties
  <2>3. IsFiniteSet(A)  BY <2>1, <2>2, FS_Subset
  <2> QED  BY <2>2, <2>3, FS_CardinalityType
<1>2. DOMAIN Append(q, e) = (1 .. Len(q)) \cup {n}
  <2>1. /\ Append(q, e) \in Seq(S) /\ Len(Append(q, e)) = n /\ Len(q) \in Nat
    BY AppendProperties, LenProperties
  <2> QED  BY <2>1, LenProperties
<1>3. (e \in T => B = A \cup {n}) /\ (e \notin T => B = A)
  <2>1. \A i \in 1 .. Len(q) : Append(q, e)[i] = q[i]  BY AppendProperties
  <2>2. Append(q, e)[n] = e  BY AppendProperties
  <2>3. DOMAIN q = 1 .. Len(q)  BY LenProperties
  <2> QED  BY <1>2, <2>1, <2>2, <2>3
<1>4. Cardinality(A \cup {n}) = Cardinality(A) + 1  BY <1>1, FS_AddElement
<1>5. Among(T, q) = Cardinality(A) /\ Among(T, Append(q, e)) = Cardinality(B)  BY DEF Among
<1> HIDE DEF A, B, n
<1> QED  BY <1>3, <1>4, <1>5

LEMMA AmongTail ==
    ASSUME NEW S, NEW q \in Seq(S), q # <<>>, NEW T
    PROVE  /\ Head(q) \in T => Among(T, Tail(q)) = Among(T, q) - 1
           /\ Head(q) \notin T => Among(T, Tail(q)) = Among(T, q)
<1> DEFINE A == {i \in DOMAIN q : q[i] \in T}
           B == {i \in DOMAIN Tail(q) : Tail(q)[i] \in T}
           f == [i \in B |-> i + 1]
<1>1. /\ Len(q) \in Nat \ {0} /\ DOMAIN q = 1 .. Len(q)
      /\ DOMAIN Tail(q) = 1 .. Len(q) - 1 /\ Head(q) = q[1]
      /\ \A i \in 1 .. Len(q) - 1 : Tail(q)[i] = q[i + 1]
  <2>1. Len(q) \in Nat \ {0} /\ DOMAIN q = 1 .. Len(q)  BY EmptySeq, LenProperties
  <2>2. Tail(q) \in Seq(S) /\ Len(Tail(q)) = Len(q) - 1  BY HeadTailProperties
  <2>3. DOMAIN Tail(q) = 1 .. Len(q) - 1  BY <2>2, LenProperties
  <2>4. \A i \in 1 .. Len(q) - 1 : Tail(q)[i] = q[i + 1]  BY <2>2, HeadTailProperties
  <2>5. Head(q) = q[1]  OBVIOUS
  <2> QED  BY <2>1, <2>3, <2>4, <2>5
<1>2. IsFiniteSet(A) /\ IsFiniteSet(B)
  <2>1. IsFiniteSet(1 .. Len(q)) /\ IsFiniteSet(1 .. Len(q) - 1)  BY <1>1, FS_Interval
  <2>2. A \in SUBSET (1 .. Len(q)) /\ B \in SUBSET (1 .. Len(q) - 1)  BY <1>1
  <2> QED  BY <2>1, <2>2, FS_Subset
<1>3. Cardinality(A \ {1}) = Cardinality(B)
  <2>1. f \in [B -> A \ {1}]  BY <1>1
  <2>2. \A i, j \in B : f[i] = f[j] => i = j  BY <1>1
  <2>3. \A k \in A \ {1} : \E i \in B : f[i] = k
    <3> TAKE k \in A \ {1}
    <3>1. k - 1 \in B /\ f[k - 1] = k  BY <1>1
    <3> QED  BY <3>1
  <2>4. f \in Bijection(B, A \ {1})
    BY <2>1, <2>2, <2>3 DEF Bijection, Injection, Surjection, IsInjective
  <2>5. ExistsBijection(B, A \ {1})  BY <2>4 DEF ExistsBijection
  <2> QED  BY <1>2, <2>5, FS_Bijection
<1>4. Cardinality(A \ {1}) = IF 1 \in A THEN Cardinality(A) - 1 ELSE Cardinality(A)
  BY <1>2, FS_RemoveElement
<1>5. 1 \in A <=> Head(q) \in T  BY <1>1
<1>6. Cardinality(A) \in Nat  BY <1>2, FS_CardinalityType
<1>7. Among(T, q) = Cardinality(A) /\ Among(T, Tail(q)) = Cardinality(B)  BY DEF Among
<1> HIDE DEF A, B
<1> QED  BY <1>3, <1>4, <1>5, <1>6, <1>7

LEMMA AmongEmpty == ASSUME NEW T PROVE Among(T, <<>>) = 0
<1>1. {i \in DOMAIN <<>> : <<>>[i] \in T} = {}  OBVIOUS
<1> QED  BY <1>1, FS_EmptySet DEF Among

-----------------------------------------------------------------------------
(***************************************************************************)
(* Types.  Beside TypeOK: lookupReplyHandler has in its streams what the   *)
(* reply it waits for is about, deletes and the replies to inserts are     *)
(* what they are, and a session in use has a tuple.                        *)
(***************************************************************************)
Deletion  == {u \in Update : u.op = "DELETE"}
Insertion == {u \in Update : IsInsert(u)}

TypeInv ==
    /\ TypeOK
    /\ slc_fsmState = "LUP_RSP" => slc_queryCache # <<>>
    /\ slc_fsmState = "UPD_RSP" => slc_insertTuples # <<>>
    /\ insert_req \in Seq(Insertion) /\ delete_req \in Seq(Deletion)
    /\ insert_rsp \in Seq(Insertion)
    /\ \A s \in Session : tupleValid[s] => reverseLookupTable[s] \in Tuple

\* The number of sessions is a number of 16 bits.
LEMMA Modulo == ASSUME NEW n \in Int PROVE n % 2^16 \in 0 .. 2^16 - 1
OBVIOUS

LEMMA Sessions == Session \subseteq Nat /\ NoSession \notin Session /\ NoSession \in Nat
BY SessionLookupAssumption DEF Session, NoSession

LEMMA InitType == ASSUME Init PROVE TypeInv
BY SessionLookupAssumption DEF Init, TypeInv, TypeOK, Session, NoSession

LEMMA IdManagerType == ASSUME TypeInv, ReturnId \/ NewId PROVE TypeInv'
<1> USE DEF TypeInv, TypeOK, ReturnId, NewId, handlerVars, lookupVars, updateVars, reverseVars
<1>1. CASE ReturnId
  <2>1. Head(fin) \in Session /\ Tail(fin) \in Seq(Session)  BY <1>1
  <2> QED  BY <1>1, <2>1
<1>2. CASE NewId
  <2>1. counter \in Session /\ counter' \in 0 .. MAX_SESSIONS
    BY <1>2, SessionLookupAssumption DEF Session
  <2> QED  BY <1>2, <2>1
<1> QED  BY <1>1, <1>2

LEMMA AskType ==
    ASSUME TypeInv, NEW t \in Tuple, NEW creation \in BOOLEAN, NEW source \in Source,
           AskCam(t, creation, source)
    PROVE  TypeInv'
<1> USE DEF TypeInv, TypeOK, AskCam, idVars, updateVars, reverseVars
<1>1. [key |-> t, source |-> source] \in [key : Tuple, source : Source]  OBVIOUS
<1>2. [tuple |-> t, allowCreation |-> creation, source |-> source] \in Query  BY DEF Query
<1>3. lookup_req' \in Seq([key : Tuple, source : Source])  BY <1>1
<1>4. slc_queryCache' \in Seq(Query) /\ slc_queryCache' # <<>>  BY <1>2, AppendProperties
<1> QED  BY <1>3, <1>4

LEMMA CreateType == ASSUME TypeInv, CreateSession PROVE TypeInv'
<1> USE DEF TypeInv, TypeOK, CreateSession, reverseVars
<1> DEFINE u == [op |-> "INSERT", value |-> Head(freeList), key |-> Head(slc_queryCache).tuple,
                 source |-> Head(lookup_rsp).source]
<1>1. Head(lookup_rsp) \in CamReply /\ Tail(lookup_rsp) \in Seq(CamReply)  OBVIOUS
<1>2. Head(slc_queryCache) \in Query /\ Tail(slc_queryCache) \in Seq(Query)  OBVIOUS
<1>3. Head(freeList) \in Session /\ Tail(freeList) \in Seq(Session)  OBVIOUS
<1>4. u \in Update /\ u \in Insertion
  BY <1>1, <1>2, <1>3 DEF Update, Query, CamReply, Insertion, IsInsert
<1>5. insert_req' \in Seq(Update) /\ insert_req' \in Seq(Insertion)
  <2>1. insert_req' = Append(insert_req, u)  OBVIOUS
  <2> QED  BY <1>4, <2>1, AppendProperties
<1>6. slc_insertTuples' \in Seq(Tuple) /\ slc_insertTuples' # <<>>
  <2>1. Head(slc_queryCache).tuple \in Tuple  BY <1>2 DEF Query
  <2>2. /\ slc_insertTuples' = Append(slc_insertTuples, Head(slc_queryCache).tuple)
        /\ slc_insertTuples \in Seq(Tuple)
    OBVIOUS
  <2> HIDE DEF TypeInv, TypeOK, CreateSession
  <2> QED  BY <2>1, <2>2, AppendProperties
<1> QED  BY <1>1, <1>2, <1>3, <1>5, <1>6

LEMMA AnswerType == ASSUME TypeInv, PassAnswer \/ AnswerCreated PROVE TypeInv'
<1> USE DEF TypeInv, TypeOK, PassAnswer, AnswerCreated, idVars, updateVars, reverseVars, lookupVars
<1>1. CASE PassAnswer
  <2>1. Tail(lookup_rsp) \in Seq(CamReply) /\ Tail(slc_queryCache) \in Seq(Query)  BY <1>1
  <2> QED  BY <1>1, <2>1
<1>2. CASE AnswerCreated
  <2>1. Head(insert_rsp) \in Insertion /\ Tail(insert_rsp) \in Seq(Insertion)
        /\ Tail(insert_rsp) \in Seq(Update)
    BY <1>2
  <2>2. Head(slc_insertTuples) \in Tuple /\ Tail(slc_insertTuples) \in Seq(Tuple)  BY <1>2
  <2>3. [key |-> Head(insert_rsp).value, value |-> Head(slc_insertTuples)]
            \in [key : Session, value : Tuple]
    BY <2>1, <2>2 DEF Insertion, Update
  <2>4. reverseInsert' \in Seq([key : Session, value : Tuple])  BY <1>2, <2>3
  <2> QED  BY <1>2, <2>1, <2>2, <2>4
<1> QED  BY <1>1, <1>2

LEMMA UpdateType == ASSUME TypeInv, SendInsert \/ SendDelete \/ TakeUpdateReply PROVE TypeInv'
<1> USE DEF TypeInv, TypeOK, SendInsert, SendDelete, TakeUpdateReply, idVars, handlerVars,
            lookupVars, reverseVars
<1>1. CASE SendInsert
  <2>1. /\ Head(insert_req) \in Update /\ Tail(insert_req) \in Seq(Update)
        /\ Tail(insert_req) \in Seq(Insertion)
    BY <1>1
  <2>2. usedSessionIDs' \in 0 .. 2^16 - 1  BY <1>1, Modulo
  <2>3. update_req' \in Seq(Update)  BY <1>1, <2>1
  <2> QED  BY <1>1, <2>1, <2>2, <2>3
<1>2. CASE SendDelete
  <2>1. Head(delete_req) \in Deletion /\ Tail(delete_req) \in Seq(Deletion)
        /\ Tail(delete_req) \in Seq(Update)
    BY <1>2
  <2>2. Head(delete_req) \in Update /\ Head(delete_req).value \in Session
    BY <2>1 DEF Deletion, Update
  <2>3. usedSessionIDs' \in 0 .. 2^16 - 1  BY <1>2, Modulo
  <2>4. update_req' \in Seq(Update) /\ fin' \in Seq(Session)  BY <1>2, <2>2
  <2> QED  BY <1>2, <2>1, <2>3, <2>4
<1>3. CASE TakeUpdateReply
  <2>1. Head(update_rsp) \in Update /\ Tail(update_rsp) \in Seq(Update)  BY <1>3
  <2>2. Head(update_rsp).op = "INSERT" => Head(update_rsp) \in Insertion
    BY <2>1 DEF Insertion, IsInsert
  <2>3. insert_rsp' \in Seq(Insertion) /\ insert_rsp' \in Seq(Update)  BY <1>3, <2>1, <2>2
  <2> QED  BY <1>3, <2>1, <2>3
<1> QED  BY <1>1, <1>2, <1>3

LEMMA ReverseType == ASSUME TypeInv, InsertReverse \/ \E s \in Session : Release(s) PROVE TypeInv'
<1> USE DEF TypeInv, TypeOK, idVars, handlerVars, lookupVars, updateVars
<1>1. CASE InsertReverse
  <2>1. /\ Head(reverseInsert) \in [key : Session, value : Tuple]
        /\ Tail(reverseInsert) \in Seq([key : Session, value : Tuple])
    <3> DEFINE R == [key : Session, value : Tuple]
    <3>1. reverseInsert \in Seq(R) /\ reverseInsert # <<>>  BY <1>1 DEF InsertReverse
    <3> HIDE DEF R
    <3>2. Head(reverseInsert) \in R /\ Tail(reverseInsert) \in Seq(R)
      BY <3>1, HeadTailProperties
    <3> QED  BY <3>2 DEF R
  <2> QED  BY <1>1, <2>1 DEF InsertReverse
<1>2. ASSUME NEW s \in Session, Release(s) PROVE TypeInv'
  <2> DEFINE u == [op |-> "DELETE", value |-> s, key |-> reverseLookupTable[s], source |-> "RX"]
  <2>1. tupleValid[s] => u \in Deletion /\ u \in Update  BY DEF Deletion, Update, Source
  <2>2. delete_req' \in Seq(Deletion) /\ delete_req' \in Seq(Update)
    <3>1. CASE tupleValid[s]
      <4>1. delete_req' = Append(delete_req, u)  BY <1>2, <3>1 DEF Release
      <4> QED  BY <2>1, <3>1, <4>1, AppendProperties
    <3>2. CASE ~tupleValid[s]  BY <1>2, <3>2 DEF Release
    <3> QED  BY <3>1, <3>2
  <2> QED  BY <1>2, <2>2 DEF Release
<1> QED  BY <1>1, <1>2

LEMMA CamType == ASSUME TypeInv, CamLookup \/ CamUpdate PROVE TypeInv'
<1> USE DEF TypeInv, TypeOK, CamLookup, CamUpdate, idVars, handlerVars, reverseVars
<1>1. CASE CamLookup
  <2>1. /\ Head(lookup_req) \in [key : Tuple, source : Source]
        /\ Tail(lookup_req) \in Seq([key : Tuple, source : Source])
    <3> DEFINE R == [key : Tuple, source : Source]
    <3>1. lookup_req \in Seq(R) /\ lookup_req # <<>>  BY <1>1
    <3> HIDE DEF R
    <3>2. Head(lookup_req) \in R /\ Tail(lookup_req) \in Seq(R)  BY <3>1, HeadTailProperties
    <3> QED  BY <3>2 DEF R
  <2> DEFINE r == Head(lookup_req)
             a == [sessionID |-> cam[r.key], hit |-> cam[r.key] # NoSession, source |-> r.source]
  <2>2. a \in CamReply  BY <2>1 DEF CamReply
  <2>3. lookup_rsp' = Append(lookup_rsp, a)  BY <1>1
  <2>4. lookup_rsp' \in Seq(CamReply)  BY <2>2, <2>3, AppendProperties
  <2> QED  BY <1>1, <2>1, <2>4 DEF updateVars
<1>2. CASE CamUpdate
  <2>1. Head(update_req) \in Update /\ Tail(update_req) \in Seq(Update)  BY <1>2
  <2>2. cam' \in [Tuple -> Session \union {NoSession}]
    BY <1>2, <2>1 DEF CamWith, Update
  <2>3. update_rsp' \in Seq(Update)  BY <1>2, <2>1
  <2> QED  BY <1>2, <2>1, <2>2, <2>3 DEF lookupVars
<1> QED  BY <1>1, <1>2

LEMMA NextType == ASSUME TypeInv, [Next]_vars PROVE TypeInv'
<1>1. CASE UNCHANGED vars
  BY <1>1 DEF TypeInv, TypeOK, vars, idVars, handlerVars, lookupVars, updateVars, reverseVars
<1>2. ASSUME NEW t \in TxTuple, TxLookup(t) PROVE TypeInv'
  <2>1. FromTx(t) \in Tuple /\ "TX_APP" \in Source  BY DEF FromTx, TxTuple, Tuple, Source
  <2> QED  BY <1>2, <2>1, AskType DEF TxLookup
<1>3. ASSUME NEW t \in RxTuple, NEW creation \in BOOLEAN, RxLookup(t, creation) PROVE TypeInv'
  <2>1. FromRx(t) \in Tuple /\ "RX" \in Source  BY DEF FromRx, RxTuple, Tuple, Source
  <2> QED  BY <1>3, <2>1, AskType DEF RxLookup
<1> QED
  BY <1>1, <1>2, <1>3, IdManagerType, CreateType, AnswerType, UpdateType, ReverseType, CamType
  DEF Next

\* The strengthened types are an invariant.
THEOREM Types == Spec => []TypeInv
<1> QED  BY InitType, NextType, PTL DEF Spec

\* Every variable has its type, for any number of sessions and any endpoints.
THEOREM TypeCorrect == Spec => []TypeOK
<1>1. TypeInv => TypeOK  BY DEF TypeInv
<1> QED  BY <1>1, Types, PTL


-----------------------------------------------------------------------------
(***************************************************************************)
(* Where the IDs are: each action but NewId moves at most one ID, and      *)
(* takes it out of the place it was in.                                    *)
(***************************************************************************)
IInv == TypeInv /\ IdsConserved

LEMMA Moved ==
    ASSUME NEW S, NEW q \in Seq(S), q # <<>>, NEW T,
           NEW R, NEW r \in Seq(R), NEW e \in R, NEW U,
           Head(q) \in T <=> e \in U
    PROVE  Among(T, Tail(q)) + Among(U, Append(r, e)) = Among(T, q) + Among(U, r)
<1>1. Among(T, q) \in Nat /\ Among(U, r) \in Nat  BY AmongType
<1>2. /\ Head(q) \in T => Among(T, Tail(q)) = Among(T, q) - 1
      /\ Head(q) \notin T => Among(T, Tail(q)) = Among(T, q)
  BY AmongTail
<1>3. /\ e \in U => Among(U, Append(r, e)) = Among(U, r) + 1
      /\ e \notin U => Among(U, Append(r, e)) = Among(U, r)
  BY AmongAppend
<1> QED  BY <1>1, <1>2, <1>3

LEMMA PartsType ==
    ASSUME TypeInv, NEW s \in Session
    PROVE  /\ Among({s}, freeList) \in Nat /\ Among({s}, fin) \in Nat
           /\ Among(Updates(s), delete_req) \in Nat
           /\ Among(InsertsOf(s), insert_req) \in Nat
           /\ Among(InsertsOf(s), update_req) \in Nat
           /\ Among(InsertsOf(s), update_rsp) \in Nat
           /\ Among(InsertsOf(s), insert_rsp) \in Nat
           /\ Among(Entries(s), reverseInsert) \in Nat
<1>1. /\ freeList \in Seq(Session) /\ fin \in Seq(Session)
      /\ delete_req \in Seq(Update) /\ insert_req \in Seq(Update)
      /\ update_req \in Seq(Update) /\ update_rsp \in Seq(Update)
      /\ insert_rsp \in Seq(Update) /\ reverseInsert \in Seq([key : Session, value : Tuple])
  BY DEF TypeInv, TypeOK
<1> QED  BY <1>1, AmongType

LEMMA ReturnIdKeeps ==
    ASSUME TypeInv, ReturnId, NEW s \in Session
    PROVE  Places(s)' = Places(s)
<1> DEFINE id == Head(fin)
<1>1. fin \in Seq(Session) /\ fin # <<>> /\ freeList \in Seq(Session) /\ id \in Session
  BY DEF ReturnId, TypeInv, TypeOK
<1>2. Among({s}, Tail(fin)) + Among({s}, Append(freeList, id))
          = Among({s}, fin) + Among({s}, freeList)
  BY <1>1, Moved
<1>3. fin' = Tail(fin) /\ freeList' = Append(freeList, id)  BY DEF ReturnId
<1>4. UNCHANGED <<updateVars, reverseVars>>  BY DEF ReturnId
<1>5. Among({s}, fin') \in Nat /\ Among({s}, freeList') \in Nat
  BY <1>1, <1>3, AmongType, AppendProperties, HeadTailProperties
<1> HIDE DEF id
<1> QED  BY <1>2, <1>3, <1>4, <1>5, PartsType DEF Places, updateVars, reverseVars

LEMMA NewIdGives ==
    ASSUME TypeInv, NewId, NEW s \in Session
    PROVE  /\ s = counter => Places(s)' = Places(s) + 1
           /\ s # counter => Places(s)' = Places(s)
<1>1. freeList \in Seq(Session) /\ counter \in Session
  BY SessionLookupAssumption DEF NewId, TypeInv, TypeOK, Session
<1>2. /\ counter \in {s} => Among({s}, freeList') = Among({s}, freeList) + 1
      /\ counter \notin {s} => Among({s}, freeList') = Among({s}, freeList)
  BY <1>1, AmongAppend DEF NewId
<1>3. UNCHANGED <<fin, updateVars, reverseVars>>  BY DEF NewId
<1> QED  BY <1>2, <1>3, PartsType DEF Places, updateVars, reverseVars

LEMMA CreateKeeps ==
    ASSUME TypeInv, CreateSession, NEW s \in Session
    PROVE  Places(s)' = Places(s)
<1> DEFINE u == [op |-> "INSERT", value |-> Head(freeList), key |-> Head(slc_queryCache).tuple,
                 source |-> Head(lookup_rsp).source]
<1>1. /\ freeList \in Seq(Session) /\ freeList # <<>> /\ insert_req \in Seq(Update)
      /\ freeList' = Tail(freeList) /\ insert_req' = Append(insert_req, u)
  BY DEF CreateSession, TypeInv, TypeOK
<1>2. u \in Update
  <2>1. Head(lookup_rsp) \in CamReply  BY DEF CreateSession, TypeInv, TypeOK
  <2>2. Head(slc_queryCache) \in Query  BY DEF CreateSession, TypeInv, TypeOK
  <2>3. Head(freeList) \in Session  BY <1>1
  <2> QED  BY <2>1, <2>2, <2>3 DEF Update, Query, CamReply
<1>3. Head(freeList) \in {s} <=> u \in InsertsOf(s)  BY <1>2 DEF InsertsOf, IsInsert
<1>4. UNCHANGED <<fin, delete_req, update_req, update_rsp, insert_rsp, reverseVars>>
  BY DEF CreateSession
<1> HIDE DEF u
<1>5. Among({s}, freeList') + Among(InsertsOf(s), insert_req')
          = Among({s}, freeList) + Among(InsertsOf(s), insert_req)
  BY <1>1, <1>2, <1>3, Moved
<1>6. Among({s}, freeList') \in Nat /\ Among(InsertsOf(s), insert_req') \in Nat
  BY <1>1, <1>2, AmongType, AppendProperties, HeadTailProperties
<1> QED  BY <1>4, <1>5, <1>6, PartsType DEF Places, reverseVars

LEMMA AnswerCreatedKeeps ==
    ASSUME TypeInv, AnswerCreated, NEW s \in Session
    PROVE  Places(s)' = Places(s)
<1> DEFINE R == [key : Session, value : Tuple]
           i == [key |-> Head(insert_rsp).value, value |-> Head(slc_insertTuples)]
<1>1. /\ insert_rsp \in Seq(Insertion) /\ insert_rsp # <<>> /\ reverseInsert \in Seq(R)
      /\ insert_rsp' = Tail(insert_rsp) /\ reverseInsert' = Append(reverseInsert, i)
  BY DEF AnswerCreated, TypeInv, TypeOK
<1>2. Head(insert_rsp) \in Insertion  BY <1>1
<1>3. Head(slc_insertTuples) \in Tuple  BY DEF AnswerCreated, TypeInv, TypeOK
<1>4. i \in R  BY <1>2, <1>3 DEF Insertion, Update
<1>5. Head(insert_rsp) \in InsertsOf(s) <=> i \in Entries(s)
  BY <1>2, <1>3 DEF InsertsOf, Insertion, Entries
<1>6. UNCHANGED <<idVars, delete_req, insert_req, update_req, update_rsp, tupleValid>>
  BY DEF AnswerCreated
<1> HIDE DEF R, i
<1>7. Among(InsertsOf(s), insert_rsp') + Among(Entries(s), reverseInsert')
          = Among(InsertsOf(s), insert_rsp) + Among(Entries(s), reverseInsert)
  BY <1>1, <1>4, <1>5, Moved
<1>8. Among(InsertsOf(s), insert_rsp') \in Nat /\ Among(Entries(s), reverseInsert') \in Nat
  BY <1>1, <1>4, AmongType, AppendProperties, HeadTailProperties
<1> QED  BY <1>6, <1>7, <1>8, PartsType DEF Places, idVars

LEMMA SendInsertKeeps ==
    ASSUME TypeInv, SendInsert, NEW s \in Session
    PROVE  Places(s)' = Places(s)
<1> DEFINE u == Head(insert_req)
<1>1. /\ insert_req \in Seq(Update) /\ insert_req # <<>> /\ update_req \in Seq(Update)
      /\ insert_req' = Tail(insert_req) /\ update_req' = Append(update_req, u) /\ u \in Update
  BY DEF SendInsert, TypeInv, TypeOK
<1>2. UNCHANGED <<idVars, delete_req, update_rsp, insert_rsp, reverseVars>>  BY DEF SendInsert
<1>3. Among(InsertsOf(s), insert_req') + Among(InsertsOf(s), update_req')
          = Among(InsertsOf(s), insert_req) + Among(InsertsOf(s), update_req)
  BY <1>1, Moved
<1> HIDE DEF u
<1>4. Among(InsertsOf(s), insert_req') \in Nat /\ Among(InsertsOf(s), update_req') \in Nat
  BY <1>1, AmongType, AppendProperties, HeadTailProperties
<1> QED  BY <1>2, <1>3, <1>4, PartsType DEF Places, idVars, reverseVars

\* A delete is sent to the CAM and its ID returned: two queues, one of IDs.
LEMMA SendDeleteKeeps ==
    ASSUME TypeInv, SendDelete, NEW s \in Session
    PROVE  Places(s)' = Places(s)
<1> DEFINE u == Head(delete_req)
<1>1. /\ delete_req \in Seq(Deletion) /\ delete_req # <<>>
      /\ update_req \in Seq(Update) /\ fin \in Seq(Session)
      /\ delete_req' = Tail(delete_req) /\ update_req' = Append(update_req, u)
      /\ fin' = Append(fin, u.value)
  BY DEF SendDelete, TypeInv, TypeOK
<1>2. u \in Deletion /\ u \in Update /\ u.value \in Session
  BY <1>1 DEF Deletion, Update
<1>3. u \in Updates(s) <=> u.value \in {s}  BY <1>2 DEF Updates
<1>4. u \notin InsertsOf(s)  BY <1>2 DEF InsertsOf, Deletion, IsInsert
<1>5. UNCHANGED <<freeList, insert_req, update_rsp, insert_rsp, reverseVars>>  BY DEF SendDelete
<1> HIDE DEF u
<1>6. Among(InsertsOf(s), update_req') = Among(InsertsOf(s), update_req)
  BY <1>1, <1>2, <1>4, AmongAppend
<1>7. Among(Updates(s), delete_req') + Among({s}, fin')
          = Among(Updates(s), delete_req) + Among({s}, fin)
  <2>1. Head(delete_req) \in Updates(s) <=> u.value \in {s}  BY <1>3 DEF u
  <2> QED  BY <1>1, <1>2, <2>1, Moved
<1>8. Among(Updates(s), delete_req') \in Nat /\ Among({s}, fin') \in Nat
  BY <1>1, <1>2, AmongType, AppendProperties, HeadTailProperties
<1> QED  BY <1>5, <1>6, <1>7, <1>8, PartsType DEF Places, reverseVars

LEMMA TakeUpdateReplyKeeps ==
    ASSUME TypeInv, TakeUpdateReply, NEW s \in Session
    PROVE  Places(s)' = Places(s)
<1> DEFINE u == Head(update_rsp)
<1>1. /\ update_rsp \in Seq(Update) /\ update_rsp # <<>> /\ insert_rsp \in Seq(Update)
      /\ update_rsp' = Tail(update_rsp) /\ u \in Update
  BY DEF TakeUpdateReply, TypeInv, TypeOK
<1>2. UNCHANGED <<idVars, delete_req, insert_req, update_req, reverseVars>>
  BY DEF TakeUpdateReply
<1>3. Among(InsertsOf(s), update_rsp') + Among(InsertsOf(s), insert_rsp')
          = Among(InsertsOf(s), update_rsp) + Among(InsertsOf(s), insert_rsp)
  <2>1. CASE u.op = "INSERT"
    <3>1. insert_rsp' = Append(insert_rsp, u)  BY <2>1 DEF TakeUpdateReply
    <3> QED  BY <1>1, <3>1, Moved
  <2>2. CASE u.op # "INSERT"
    <3>1. insert_rsp' = insert_rsp  BY <2>2 DEF TakeUpdateReply
    <3>2. u \notin InsertsOf(s)  BY <2>2 DEF InsertsOf, IsInsert
    <3>3. Among(InsertsOf(s), Tail(update_rsp)) = Among(InsertsOf(s), update_rsp)
      BY <1>1, <3>2, AmongTail
    <3> QED  BY <1>1, <3>1, <3>3
  <2> QED  BY <2>1, <2>2
<1>4. Among(InsertsOf(s), update_rsp') \in Nat /\ Among(InsertsOf(s), insert_rsp') \in Nat
  <2>1. insert_rsp' \in Seq(Update)
    BY <1>1, AppendProperties DEF TakeUpdateReply
  <2> QED  BY <1>1, <2>1, AmongType, HeadTailProperties
<1> QED  BY <1>2, <1>3, <1>4, PartsType DEF Places, idVars, reverseVars

LEMMA CamUpdateKeeps ==
    ASSUME TypeInv, CamUpdate, NEW s \in Session
    PROVE  Places(s)' = Places(s)
<1> DEFINE u == Head(update_req)
<1>1. /\ update_req \in Seq(Update) /\ update_req # <<>> /\ update_rsp \in Seq(Update)
      /\ update_req' = Tail(update_req) /\ update_rsp' = Append(update_rsp, u) /\ u \in Update
  BY DEF CamUpdate, TypeInv, TypeOK
<1>2. UNCHANGED <<idVars, delete_req, insert_req, insert_rsp, reverseVars>>  BY DEF CamUpdate
<1>3. Among(InsertsOf(s), update_req') + Among(InsertsOf(s), update_rsp')
          = Among(InsertsOf(s), update_req) + Among(InsertsOf(s), update_rsp)
  BY <1>1, Moved
<1> HIDE DEF u
<1>4. Among(InsertsOf(s), update_req') \in Nat /\ Among(InsertsOf(s), update_rsp') \in Nat
  BY <1>1, AmongType, AppendProperties, HeadTailProperties
<1> QED  BY <1>2, <1>3, <1>4, PartsType DEF Places, idVars, reverseVars

\* The tuple of a new session is written: no other connection has the
\* session, because its ID was in the queue and is in one place only.
LEMMA InsertReverseKeeps ==
    ASSUME IInv, InsertReverse, NEW s \in Session
    PROVE  Places(s)' = Places(s)
<1> DEFINE R == [key : Session, value : Tuple]
           k == Head(reverseInsert).key
<1>1. /\ TypeInv /\ reverseInsert \in Seq(R) /\ reverseInsert # <<>>
      /\ reverseInsert' = Tail(reverseInsert) /\ tupleValid \in [Session -> BOOLEAN]
      /\ tupleValid' = [tupleValid EXCEPT ![k] = TRUE]
  BY DEF InsertReverse, IInv, TypeInv, TypeOK
<1>2. Head(reverseInsert) \in R /\ Tail(reverseInsert) \in Seq(R)
  <2> HIDE DEF R
  <2> QED  BY <1>1, HeadTailProperties
<1>3. UNCHANGED <<idVars, delete_req, insert_req, update_req, update_rsp, insert_rsp>>
  BY DEF InsertReverse, updateVars
<1>4. Head(reverseInsert) \in Entries(s) <=> s = k  BY <1>2 DEF Entries
<1>5. Among(Entries(s), reverseInsert') \in Nat
  <2> HIDE DEF R
  <2> QED  BY <1>1, <1>2, AmongType
<1>6. /\ s = k => Among(Entries(s), reverseInsert') = Among(Entries(s), reverseInsert) - 1
      /\ s # k => Among(Entries(s), reverseInsert') = Among(Entries(s), reverseInsert)
  <2>1. /\ Head(reverseInsert) \in Entries(s)
              => Among(Entries(s), Tail(reverseInsert)) = Among(Entries(s), reverseInsert) - 1
        /\ Head(reverseInsert) \notin Entries(s)
              => Among(Entries(s), Tail(reverseInsert)) = Among(Entries(s), reverseInsert)
    <3> HIDE DEF R
    <3> QED  BY <1>1, AmongTail
  <2> QED  BY <1>1, <1>4, <2>1
<1>7. Places(s) = 0 \/ Places(s) = 1  BY DEF IInv, IdsConserved
<1>8. s = k => ~tupleValid[s]
  <2> SUFFICES ASSUME s = k, tupleValid[s] PROVE FALSE  OBVIOUS
  <2>1. TypeInv  BY <1>1
  <2> HIDE DEF R, k
  <2>2. Among(Entries(s), reverseInsert) > 0
    <3>1. Among(Entries(s), reverseInsert) \in Nat  BY <2>1, PartsType
    <3>2. Among(Entries(s), reverseInsert') = Among(Entries(s), reverseInsert) - 1  BY <1>6
    <3> QED  BY <1>5, <3>1, <3>2
  <2>3. Places(s) > 1  BY <2>1, <2>2, PartsType DEF Places
  <2> QED  BY <1>7, <2>3
<1>9. /\ s = k => tupleValid'[s]
      /\ s # k => tupleValid'[s] = tupleValid[s]
  BY <1>1
<1> HIDE DEF k
<1> QED
  <2>1. CASE s = k  BY <1>1, <1>3, <1>5, <1>6, <1>8, <1>9, <2>1, PartsType DEF Places, idVars
  <2>2. CASE s # k  BY <1>1, <1>3, <1>5, <1>6, <1>9, <2>2, PartsType DEF Places, idVars
  <2> QED  BY <2>1, <2>2

LEMMA ReleaseKeeps ==
    ASSUME TypeInv, NEW r \in Session, Release(r), NEW s \in Session
    PROVE  Places(s)' = Places(s)
<1> DEFINE u == [op |-> "DELETE", value |-> r, key |-> reverseLookupTable[r], source |-> "RX"]
<1>1. /\ tupleValid \in [Session -> BOOLEAN] /\ delete_req \in Seq(Update)
      /\ tupleValid' = [tupleValid EXCEPT ![r] = FALSE]
  BY DEF Release, TypeInv, TypeOK
<1>2. UNCHANGED <<idVars, insert_req, update_req, update_rsp, insert_rsp, reverseInsert>>
  BY DEF Release
<1>3. CASE tupleValid[r]
  <2>1. u \in Update  BY <1>3 DEF Update, Source, TypeInv
  <2>2. u \in Updates(s) <=> s = r  BY <2>1 DEF Updates
  <2>3. delete_req' = Append(delete_req, u)  BY <1>3 DEF Release
  <2> HIDE DEF u
  <2>4. /\ s = r => Among(Updates(s), delete_req') = Among(Updates(s), delete_req) + 1
        /\ s # r => Among(Updates(s), delete_req') = Among(Updates(s), delete_req)
    BY <1>1, <2>1, <2>2, <2>3, AmongAppend
  <2>5. /\ s = r => tupleValid[s] /\ ~tupleValid'[s]
        /\ s # r => tupleValid'[s] = tupleValid[s]
    BY <1>1, <1>3
  <2>6. CASE s = r  BY <1>2, <2>4, <2>5, <2>6, PartsType DEF Places, idVars
  <2>7. CASE s # r  BY <1>2, <2>4, <2>5, <2>7, PartsType DEF Places, idVars
  <2> QED  BY <2>6, <2>7
<1>4. CASE ~tupleValid[r]
  <2>1. delete_req' = delete_req /\ tupleValid'[s] = tupleValid[s]  BY <1>1, <1>4 DEF Release
  <2> QED  BY <1>2, <2>1, PartsType DEF Places, idVars
<1> QED  BY <1>3, <1>4

LEMMA InitConserved == ASSUME Init PROVE IdsConserved
<1> SUFFICES ASSUME NEW s \in Session PROVE Places(s) = IF s < counter THEN 1 ELSE 0
  BY DEF IdsConserved
<1>1. s \in Nat  BY Sessions
<1>2. ~tupleValid[s] /\ ~(s < counter)  BY <1>1 DEF Init
<1>3. /\ Among({s}, freeList) = 0 /\ Among({s}, fin) = 0 /\ Among(Updates(s), delete_req) = 0
      /\ Among(InsertsOf(s), insert_req) = 0 /\ Among(InsertsOf(s), update_req) = 0
      /\ Among(InsertsOf(s), update_rsp) = 0 /\ Among(InsertsOf(s), insert_rsp) = 0
      /\ Among(Entries(s), reverseInsert) = 0
  BY AmongEmpty DEF Init
<1> QED  BY <1>2, <1>3 DEF Places

LEMMA NextConserved == ASSUME IInv, [Next]_vars PROVE IdsConserved'
<1> SUFFICES ASSUME NEW s \in Session
             PROVE  Places(s)' = IF s < counter' THEN 1 ELSE 0
  BY DEF IdsConserved
<1> USE DEF IInv
<1>1. Places(s) = IF s < counter THEN 1 ELSE 0  BY DEF IdsConserved
<1>2. CASE NewId
  <2>1. counter' = counter + 1 /\ counter \in Nat /\ s \in Nat
    BY <1>2, Sessions, SessionLookupAssumption DEF NewId, TypeInv, TypeOK
  <2> QED  BY <1>1, <1>2, <2>1, NewIdGives
<1>3. CASE UNCHANGED <<idVars, updateVars, reverseVars>>
  <2>1. Places(s)' = Places(s) /\ counter' = counter
    BY <1>3 DEF Places, idVars, updateVars, reverseVars
  <2> QED  BY <1>1, <2>1
<1>4. ASSUME Places(s)' = Places(s), counter' = counter
      PROVE  Places(s)' = IF s < counter' THEN 1 ELSE 0
  BY <1>1, <1>4
<1>5. CASE ReturnId  BY <1>4, <1>5, ReturnIdKeeps DEF ReturnId
<1>6. ASSUME NEW t \in TxTuple, TxLookup(t) PROVE UNCHANGED <<idVars, updateVars, reverseVars>>
  BY <1>6 DEF TxLookup, AskCam
<1>7. ASSUME NEW t \in RxTuple, NEW creation \in BOOLEAN, RxLookup(t, creation)
      PROVE  UNCHANGED <<idVars, updateVars, reverseVars>>
  BY <1>7 DEF RxLookup, AskCam
<1>8. CASE CreateSession  BY <1>4, <1>8, CreateKeeps DEF CreateSession
<1>9. CASE PassAnswer  BY <1>3, <1>9 DEF PassAnswer
<1>10. CASE AnswerCreated  BY <1>4, <1>10, AnswerCreatedKeeps DEF AnswerCreated, idVars
<1>11. CASE SendInsert  BY <1>4, <1>11, SendInsertKeeps DEF SendInsert, idVars
<1>12. CASE SendDelete  BY <1>4, <1>12, SendDeleteKeeps DEF SendDelete
<1>13. CASE TakeUpdateReply  BY <1>4, <1>13, TakeUpdateReplyKeeps DEF TakeUpdateReply, idVars
<1>14. CASE InsertReverse  BY <1>4, <1>14, InsertReverseKeeps DEF InsertReverse, idVars
<1>15. ASSUME NEW r \in Session, Release(r)
       PROVE  Places(s)' = IF s < counter' THEN 1 ELSE 0
  BY <1>4, <1>15, ReleaseKeeps DEF Release, idVars
<1>16. CASE CamLookup  BY <1>3, <1>16 DEF CamLookup
<1>17. CASE CamUpdate  BY <1>4, <1>17, CamUpdateKeeps DEF CamUpdate, idVars
<1>18. CASE UNCHANGED vars  BY <1>3, <1>18 DEF vars
<1> HIDE DEF IInv
<1> QED
  BY <1>2, <1>3, <1>5, <1>6, <1>7, <1>8, <1>9, <1>10, <1>11, <1>12, <1>13, <1>14, <1>15, <1>16,
     <1>17, <1>18
  DEF Next

\* No session ID is ever lost or in two places, for any number of sessions,
\* any depth of the streams, and whatever the state table releases.
THEOREM IdsKept == Spec => []IdsConserved
<1>1. Init => IInv  BY InitType, InitConserved DEF IInv
<1>2. IInv /\ [Next]_vars => IInv'  BY NextType, NextConserved DEF IInv
<1>3. IInv => IdsConserved  BY DEF IInv
<1> QED  BY <1>1, <1>2, <1>3, PTL DEF Spec

-----------------------------------------------------------------------------
(***************************************************************************)
(* More about Among                                                        *)
(***************************************************************************)
LEMMA AmongSet ==
    ASSUME NEW S, NEW q \in Seq(S), NEW T
    PROVE  /\ IsFiniteSet({i \in DOMAIN q : q[i] \in T})
           /\ {i \in DOMAIN q : q[i] \in T} \subseteq 1 .. Len(q)
<1>1. IsFiniteSet(1 .. Len(q))  BY FS_Interval, LenProperties
<1>2. {i \in DOMAIN q : q[i] \in T} \in SUBSET (1 .. Len(q))  BY LenProperties
<1> QED  BY <1>1, <1>2, FS_Subset

\* No entry of the queue is in the set, or there is one.
LEMMA AmongZero ==
    ASSUME NEW S, NEW q \in Seq(S), NEW T
    PROVE  Among(T, q) = 0 <=> \A i \in DOMAIN q : q[i] \notin T
<1> DEFINE A == {i \in DOMAIN q : q[i] \in T}
<1>1. Cardinality(A) = 0 <=> A = {}  BY AmongSet, FS_EmptySet
<1> QED  BY <1>1 DEF Among

\* Two entries of the queue are in the set.
LEMMA AmongTwo ==
    ASSUME NEW S, NEW q \in Seq(S), NEW T, NEW i \in DOMAIN q, NEW j \in DOMAIN q, i # j,
           q[i] \in T, q[j] \in T
    PROVE  Among(T, q) >= 2
<1> DEFINE A == {k \in DOMAIN q : q[k] \in T}
<1>1. IsFiniteSet(A) /\ i \in A /\ j \in A  BY AmongSet
<1>2. Cardinality(A) \in Nat /\ Cardinality(A \ {i}) = Cardinality(A) - 1 /\ IsFiniteSet(A \ {i})
  BY <1>1, FS_CardinalityType, FS_RemoveElement
<1>3. j \in A \ {i}  BY <1>1
<1>4. Cardinality(A \ {i}) # 0 /\ Cardinality(A \ {i}) \in Nat
  BY <1>2, <1>3, FS_EmptySet, FS_CardinalityType
<1> HIDE DEF A
<1>5. Cardinality(A) >= 2  BY <1>2, <1>4
<1> QED  BY <1>5 DEF Among, A

\* The entries in two sets that are disjoint are among those in both.
LEMMA AmongDisjoint ==
    ASSUME NEW S, NEW q \in Seq(S), NEW T, NEW T1, NEW T2,
           T1 \cap T2 = {}, T1 \cup T2 \subseteq T
    PROVE  Among(T1, q) + Among(T2, q) <= Among(T, q)
<1> DEFINE A  == {k \in DOMAIN q : q[k] \in T}
           A1 == {k \in DOMAIN q : q[k] \in T1}
           A2 == {k \in DOMAIN q : q[k] \in T2}
<1>1. IsFiniteSet(A) /\ IsFiniteSet(A1) /\ IsFiniteSet(A2)  BY AmongSet
<1>2. A1 \cap A2 = {} /\ A1 \cup A2 \in SUBSET A  OBVIOUS
<1>3. Among(T, q) = Cardinality(A) /\ Among(T1, q) = Cardinality(A1) /\ Among(T2, q) = Cardinality(A2)
  BY DEF Among
<1> HIDE DEF A, A1, A2
<1>4. Cardinality(A1 \cap A2) = 0  BY <1>2, FS_EmptySet
<1>5. Cardinality(A1 \cup A2) = Cardinality(A1) + Cardinality(A2) - Cardinality(A1 \cap A2)
  BY <1>1, FS_Union
<1>6. Cardinality(A1 \cup A2) <= Cardinality(A)  BY <1>1, <1>2, FS_Subset
<1>7. Cardinality(A1) \in Nat /\ Cardinality(A2) \in Nat /\ Cardinality(A) \in Nat
  BY <1>1, FS_CardinalityType
<1> QED  BY <1>3, <1>4, <1>5, <1>6, <1>7

\* The entries of two queues one after the other.
LEMMA AmongConcat ==
    ASSUME NEW S, NEW p \in Seq(S), NEW q \in Seq(S), NEW T
    PROVE  Among(T, p \o q) = Among(T, p) + Among(T, q)
<1> DEFINE n == Len(p)
           A == {i \in DOMAIN p : p[i] \in T}
           B == {i \in DOMAIN q : q[i] \in T}
           C == {i \in DOMAIN (p \o q) : (p \o q)[i] \in T}
           D == C \ A
           f == [i \in B |-> n + i]
<1>1. /\ p \o q \in Seq(S) /\ Len(p \o q) = n + Len(q) /\ n \in Nat /\ Len(q) \in Nat
      /\ DOMAIN p = 1 .. n /\ DOMAIN q = 1 .. Len(q) /\ DOMAIN (p \o q) = 1 .. n + Len(q)
      /\ \A i \in 1 .. n + Len(q) : (p \o q)[i] = IF i <= n THEN p[i] ELSE q[i - n]
  <2>1. p \o q \in Seq(S) /\ Len(p \o q) = n + Len(q)  BY ConcatProperties
  <2> QED  BY <2>1, ConcatProperties, LenProperties
<1>2. IsFiniteSet(A) /\ IsFiniteSet(B) /\ IsFiniteSet(C)  BY <1>1, AmongSet
<1>3. A \in SUBSET C  BY <1>1
<1>4. f \in [B -> D]
  <2> SUFFICES ASSUME NEW i \in B PROVE n + i \in D  OBVIOUS
  <2>1. i \in 1 .. Len(q) /\ q[i] \in T  BY <1>1
  <2>2. n + i \in 1 .. n + Len(q) /\ ~(n + i <= n) /\ n + i - n = i  BY <1>1, <2>1
  <2>3. (p \o q)[n + i] = q[i]  BY <1>1, <2>2
  <2> QED  BY <1>1, <2>1, <2>2, <2>3
<1>5. \A i, j \in B : f[i] = f[j] => i = j  BY <1>1
<1>6. \A k \in D : \E i \in B : f[i] = k
  <2> TAKE k \in D
  <2>1. k \in 1 .. n + Len(q) /\ (p \o q)[k] \in T  BY <1>1
  <2>2. ~(k <= n)  BY <1>1, <2>1
  <2>3. k - n \in 1 .. Len(q) /\ q[k - n] \in T /\ n + (k - n) = k  BY <1>1, <2>1, <2>2
  <2>4. k - n \in B /\ f[k - n] = k  BY <1>1, <2>3
  <2> QED  BY <2>4
<1>7. ExistsBijection(B, D)
  <2>1. f \in Bijection(B, D)
    BY <1>4, <1>5, <1>6 DEF Bijection, Injection, Surjection, IsInjective
  <2> QED  BY <2>1 DEF ExistsBijection
<1>8. Among(T, p) = Cardinality(A) /\ Among(T, q) = Cardinality(B) /\ Among(T, p \o q) = Cardinality(C)
  BY DEF Among
<1>9. C \cap A = A  BY <1>3
<1> HIDE DEF A, B, C
<1>10. Cardinality(D) = Cardinality(B)  BY <1>2, <1>7, FS_Bijection
<1>11. Cardinality(D) = Cardinality(C) - Cardinality(A)  BY <1>2, <1>9, FS_Difference
<1>12. Cardinality(A) \in Nat /\ Cardinality(B) \in Nat /\ Cardinality(C) \in Nat
  BY <1>2, FS_CardinalityType
<1> QED  BY <1>8, <1>10, <1>11, <1>12

-----------------------------------------------------------------------------
(***************************************************************************)
(* What joins a session and a tuple: an insert that comes (Coming), one    *)
(* the CAM has performed and that is on its way to the reverse table or    *)
(* there (Written), a delete that is on its way (Going).                   *)
(***************************************************************************)
InsertOf(s, t) == {u \in Update : IsInsert(u) /\ u.value = s /\ u.key = t}
DeleteOf(s, t) == {u \in Update : ~IsInsert(u) /\ u.value = s /\ u.key = t}
InsertFor(t)   == {u \in Update : IsInsert(u) /\ u.key = t}
Entry(s, t)    == {e \in Entries(s) : e.value = t}

Coming(s, t) == Among(InsertOf(s, t), insert_req) + Among(InsertOf(s, t), update_req)

Written(s, t) ==
    Among(InsertOf(s, t), update_rsp) + Among(InsertOf(s, t), insert_rsp)
        + Among(Entry(s, t), reverseInsert)
        + (IF tupleValid[s] /\ reverseLookupTable[s] = t THEN 1 ELSE 0)

Going(s, t) == Among(DeleteOf(s, t), delete_req) + Among(DeleteOf(s, t), update_req)

\* The inserts of a tuple, up to the CAM and behind it.
Entering(t) == Among(InsertFor(t), insert_req) + Among(InsertFor(t), update_req)
Replied(t)  == Among(InsertFor(t), update_rsp) + Among(InsertFor(t), insert_rsp)

\* The CAM knows a tuple from the moment it has performed the insert until it
\* performs the delete ...
Bonds ==
    \A s \in Session, t \in Tuple :
        Written(s, t) + Going(s, t) = IF cam[t] = s THEN 1 ELSE 0

\* ... a tuple is inserted only when the CAM does not know it ...
Single ==
    \A t \in Tuple : Entering(t) + (IF cam[t] = NoSession THEN 0 ELSE 1) <= 1

\* ... and lookupReplyHandler waits while it is.
Created ==
    \A t \in Tuple :
        Entering(t) + Replied(t) =
            IF slc_fsmState = "UPD_RSP" /\ Head(slc_insertTuples) = t THEN 1 ELSE 0

\* lookupReplyHandler has one request at a time, and what the CAM has missed
\* is still missing when the reply is looked at.
Handler ==
    /\ Len(slc_queryCache) = (IF slc_fsmState = "LUP_RSP" THEN 1 ELSE 0)
    /\ Len(lookup_req) + Len(lookup_rsp) = (IF slc_fsmState = "LUP_RSP" THEN 1 ELSE 0)
    /\ Len(slc_insertTuples) = (IF slc_fsmState = "UPD_RSP" THEN 1 ELSE 0)
    /\ lookup_req # <<>> => Head(lookup_req).key = Head(slc_queryCache).tuple
    /\ lookup_rsp # <<>> =>
          Head(lookup_rsp).hit \/ cam[Head(slc_queryCache).tuple] = NoSession

DirInv == IInv /\ Bonds /\ Single /\ Created /\ Handler

Number(e, T) == IF e \in T THEN 1 ELSE 0

LEMMA Appended ==
    ASSUME NEW S, NEW q \in Seq(S), NEW e \in S, NEW T
    PROVE  Among(T, Append(q, e)) = Among(T, q) + Number(e, T)
BY AmongAppend, AmongType DEF Number

LEMMA Removed ==
    ASSUME NEW S, NEW q \in Seq(S), q # <<>>, NEW T
    PROVE  Among(T, Tail(q)) = Among(T, q) - Number(Head(q), T)
BY AmongTail, AmongType DEF Number

LEMMA NumberOfInsert ==
    ASSUME NEW u \in Insertion, NEW s, NEW t
    PROVE  /\ Number(u, InsertOf(s, t)) = IF u.value = s /\ u.key = t THEN 1 ELSE 0
           /\ Number(u, DeleteOf(s, t)) = 0
           /\ Number(u, InsertFor(t)) = IF u.key = t THEN 1 ELSE 0
BY DEF Number, Insertion, InsertOf, DeleteOf, InsertFor

LEMMA NumberOfDelete ==
    ASSUME NEW u \in Deletion, NEW s, NEW t
    PROVE  /\ Number(u, InsertOf(s, t)) = 0
           /\ Number(u, DeleteOf(s, t)) = IF u.value = s /\ u.key = t THEN 1 ELSE 0
           /\ Number(u, InsertFor(t)) = 0
BY DEF Number, Deletion, InsertOf, DeleteOf, InsertFor, IsInsert

LEMMA UpdateKinds == Update = Insertion \cup Deletion
BY DEF Insertion, Deletion, Update, IsInsert

LEMMA QueueSeqs ==
    ASSUME TypeInv
    PROVE  /\ insert_req \in Seq(Insertion) /\ delete_req \in Seq(Deletion)
           /\ update_req \in Seq(Update) /\ update_rsp \in Seq(Update)
           /\ insert_rsp \in Seq(Insertion) /\ reverseInsert \in Seq([key : Session, value : Tuple])
           /\ tupleValid \in [Session -> BOOLEAN]
           /\ cam \in [Tuple -> Session \cup {NoSession}]
BY DEF TypeInv, TypeOK

LEMMA PairTypes ==
    ASSUME TypeInv, NEW s, NEW t
    PROVE  /\ Coming(s, t) \in Nat /\ Written(s, t) \in Nat /\ Going(s, t) \in Nat
           /\ Entering(t) \in Nat /\ Replied(t) \in Nat
<1>1. /\ Among(InsertOf(s, t), insert_req) \in Nat /\ Among(InsertOf(s, t), update_req) \in Nat
      /\ Among(InsertOf(s, t), update_rsp) \in Nat /\ Among(InsertOf(s, t), insert_rsp) \in Nat
      /\ Among(Entry(s, t), reverseInsert) \in Nat
      /\ Among(DeleteOf(s, t), delete_req) \in Nat /\ Among(DeleteOf(s, t), update_req) \in Nat
      /\ Among(InsertFor(t), insert_req) \in Nat /\ Among(InsertFor(t), update_req) \in Nat
      /\ Among(InsertFor(t), update_rsp) \in Nat /\ Among(InsertFor(t), insert_rsp) \in Nat
  BY QueueSeqs, AmongType
<1> QED  BY <1>1 DEF Coming, Written, Going, Entering, Replied

\* The numbers of one queue, as numbers.
LEMMA Numbers ==
    ASSUME TypeInv, NEW T
    PROVE  /\ Among(T, insert_req) \in Nat /\ Among(T, update_req) \in Nat
           /\ Among(T, update_rsp) \in Nat /\ Among(T, insert_rsp) \in Nat
           /\ Among(T, delete_req) \in Nat /\ Among(T, reverseInsert) \in Nat
BY QueueSeqs, AmongType

-----------------------------------------------------------------------------
(***************************************************************************)
(* What each action does to one session and one tuple                      *)
(***************************************************************************)
LEMMA QuietPair ==
    ASSUME UNCHANGED <<updateVars, reverseVars>>, NEW s, NEW t
    PROVE  /\ Coming(s, t)' = Coming(s, t) /\ Written(s, t)' = Written(s, t)
           /\ Going(s, t)' = Going(s, t)
           /\ Entering(t)' = Entering(t) /\ Replied(t)' = Replied(t)
BY DEF Coming, Written, Going, Entering, Replied, updateVars, reverseVars

LEMMA CreatePair ==
    ASSUME TypeInv, CreateSession, NEW s \in Session, NEW t \in Tuple
    PROVE  LET s0 == Head(freeList)
               t0 == Head(slc_queryCache).tuple
           IN  /\ s0 \in Session /\ t0 \in Tuple
               /\ Coming(s, t)' = Coming(s, t) + (IF s0 = s /\ t0 = t THEN 1 ELSE 0)
               /\ Written(s, t)' = Written(s, t) /\ Going(s, t)' = Going(s, t)
               /\ Entering(t)' = Entering(t) + (IF t0 = t THEN 1 ELSE 0)
               /\ Replied(t)' = Replied(t)
<1> DEFINE u == [op |-> "INSERT", value |-> Head(freeList), key |-> Head(slc_queryCache).tuple,
                 source |-> Head(lookup_rsp).source]
<1>1. /\ freeList \in Seq(Session) /\ freeList # <<>> /\ insert_req' = Append(insert_req, u)
      /\ UNCHANGED <<delete_req, update_req, update_rsp, insert_rsp, reverseVars>>
  BY DEF CreateSession, TypeInv, TypeOK
<1>2. Head(freeList) \in Session /\ Head(slc_queryCache).tuple \in Tuple /\ u \in Insertion
  <2>1. Head(lookup_rsp) \in CamReply  BY DEF CreateSession, TypeInv, TypeOK
  <2>2. Head(slc_queryCache) \in Query  BY DEF CreateSession, TypeInv, TypeOK
  <2>3. Head(freeList) \in Session  BY <1>1
  <2> QED  BY <2>1, <2>2, <2>3 DEF Insertion, IsInsert, Update, Query, CamReply
<1>3. u.value = Head(freeList) /\ u.key = Head(slc_queryCache).tuple  OBVIOUS
<1> HIDE DEF u
<1>4. \A T : Among(T, insert_req') = Among(T, insert_req) + Number(u, T)
  BY <1>1, <1>2, QueueSeqs, Appended
<1>5. /\ Among(InsertOf(s, t), insert_req') = Among(InsertOf(s, t), insert_req)
             + (IF Head(freeList) = s /\ Head(slc_queryCache).tuple = t THEN 1 ELSE 0)
      /\ Among(InsertFor(t), insert_req') = Among(InsertFor(t), insert_req)
             + (IF Head(slc_queryCache).tuple = t THEN 1 ELSE 0)
  BY <1>2, <1>3, <1>4, NumberOfInsert
<1>6. Written(s, t)' = Written(s, t) /\ Going(s, t)' = Going(s, t) /\ Replied(t)' = Replied(t)
  BY <1>1 DEF Written, Going, Replied, reverseVars
<1>7. Coming(s, t)' = Coming(s, t)
             + (IF Head(freeList) = s /\ Head(slc_queryCache).tuple = t THEN 1 ELSE 0)
  BY <1>1, <1>5, Numbers DEF Coming
<1>8. Entering(t)' = Entering(t) + (IF Head(slc_queryCache).tuple = t THEN 1 ELSE 0)
  BY <1>1, <1>5, Numbers DEF Entering
<1> QED  BY <1>2, <1>6, <1>7, <1>8

LEMMA AnswerPair ==
    ASSUME TypeInv, AnswerCreated, Head(insert_rsp).key = Head(slc_insertTuples),
           NEW s \in Session, NEW t \in Tuple
    PROVE  /\ Head(slc_insertTuples) \in Tuple
           /\ Coming(s, t)' = Coming(s, t) /\ Written(s, t)' = Written(s, t)
           /\ Going(s, t)' = Going(s, t) /\ Entering(t)' = Entering(t)
           /\ Replied(t)' = Replied(t) - (IF Head(slc_insertTuples) = t THEN 1 ELSE 0)
<1> DEFINE R == [key : Session, value : Tuple]
           i == [key |-> Head(insert_rsp).value, value |-> Head(slc_insertTuples)]
           u == Head(insert_rsp)
<1>1. /\ insert_rsp \in Seq(Insertion) /\ insert_rsp # <<>> /\ reverseInsert \in Seq(R)
      /\ insert_rsp' = Tail(insert_rsp) /\ reverseInsert' = Append(reverseInsert, i)
      /\ UNCHANGED <<delete_req, insert_req, update_req, update_rsp, tupleValid,
                     reverseLookupTable>>
  BY DEF AnswerCreated, TypeInv, TypeOK
<1>2. u \in Insertion  BY <1>1
<1>3. Head(slc_insertTuples) \in Tuple  BY DEF AnswerCreated, TypeInv, TypeOK
<1>4. i \in R  BY <1>2, <1>3 DEF Insertion, Update
<1>5. Number(i, Entry(s, t)) = Number(u, InsertOf(s, t))
  <2>1. i \in Entry(s, t) <=> u.value = s /\ u.key = t  BY <1>3 DEF Entry, Entries
  <2> QED  BY <1>2, <2>1, NumberOfInsert DEF Number
<1> HIDE DEF R, i, u
<1>6. Among(Entry(s, t), reverseInsert') = Among(Entry(s, t), reverseInsert) + Number(i, Entry(s, t))
  BY <1>1, <1>4, Appended
<1>7. \A T : Among(T, insert_rsp') = Among(T, insert_rsp) - Number(u, T)
  BY <1>1, Removed DEF u
<1>8. /\ Number(u, InsertOf(s, t)) \in {0, 1}
      /\ Number(u, InsertFor(t)) = IF Head(slc_insertTuples) = t THEN 1 ELSE 0
  <2>1. u.key = Head(slc_insertTuples)  BY DEF u
  <2> QED  BY <1>2, <2>1, NumberOfInsert DEF Number
<1>9. Written(s, t)' = Written(s, t)
  <2>1. Among(InsertOf(s, t), insert_rsp') + Among(Entry(s, t), reverseInsert')
            = Among(InsertOf(s, t), insert_rsp) + Among(Entry(s, t), reverseInsert)
    BY <1>5, <1>6, <1>7, <1>8, Numbers
  <2>2. Among(InsertOf(s, t), insert_rsp') \in Int /\ Among(Entry(s, t), reverseInsert') \in Int
    BY <1>5, <1>6, <1>7, <1>8, Numbers
  <2>3. /\ Among(InsertOf(s, t), update_rsp) \in Int /\ Among(InsertOf(s, t), insert_rsp) \in Int
        /\ Among(Entry(s, t), reverseInsert) \in Int
    BY Numbers
  <2>4. /\ update_rsp' = update_rsp
        /\ (IF tupleValid'[s] /\ reverseLookupTable'[s] = t THEN 1 ELSE 0)
               = (IF tupleValid[s] /\ reverseLookupTable[s] = t THEN 1 ELSE 0)
    BY <1>1
  <2> QED  BY <2>1, <2>2, <2>3, <2>4 DEF Written
<1>10. Replied(t)' = Replied(t) - (IF Head(slc_insertTuples) = t THEN 1 ELSE 0)
  BY <1>1, <1>7, <1>8, Numbers DEF Replied
<1>11. Coming(s, t)' = Coming(s, t) /\ Going(s, t)' = Going(s, t) /\ Entering(t)' = Entering(t)
  BY <1>1 DEF Coming, Going, Entering
<1> QED  BY <1>3, <1>9, <1>10, <1>11

LEMMA SendInsertPair ==
    ASSUME TypeInv, SendInsert, NEW s \in Session, NEW t \in Tuple
    PROVE  /\ Coming(s, t)' = Coming(s, t) /\ Written(s, t)' = Written(s, t)
           /\ Going(s, t)' = Going(s, t)
           /\ Entering(t)' = Entering(t) /\ Replied(t)' = Replied(t)
<1> DEFINE u == Head(insert_req)
<1>1. /\ insert_req \in Seq(Insertion) /\ insert_req # <<>> /\ update_req \in Seq(Update)
      /\ insert_req' = Tail(insert_req) /\ update_req' = Append(update_req, u)
      /\ UNCHANGED <<delete_req, update_rsp, insert_rsp, reverseVars>>
  BY DEF SendInsert, TypeInv, TypeOK
<1>2. u \in Insertion /\ u \in Update  BY <1>1, UpdateKinds
<1>3. \A T : Among(T, update_req') = Among(T, update_req) + Number(u, T)
  BY <1>1, <1>2, Appended
<1>4. \A T : Among(T, insert_req') = Among(T, insert_req) - Number(u, T)
  BY <1>1, Removed
<1>5. \A T : Number(u, T) \in Int  BY DEF Number
<1> HIDE DEF u
<1>6. \A T : Among(T, insert_req') + Among(T, update_req') = Among(T, insert_req) + Among(T, update_req)
  BY <1>3, <1>4, <1>5, Numbers
<1>7. Coming(s, t)' = Coming(s, t) /\ Entering(t)' = Entering(t)  BY <1>6 DEF Coming, Entering
<1>8. Among(DeleteOf(s, t), update_req') = Among(DeleteOf(s, t), update_req)
  BY <1>2, <1>3, NumberOfInsert, Numbers
<1> QED  BY <1>1, <1>7, <1>8 DEF Written, Going, Replied, reverseVars

LEMMA SendDeletePair ==
    ASSUME TypeInv, SendDelete, NEW s \in Session, NEW t \in Tuple
    PROVE  /\ Coming(s, t)' = Coming(s, t) /\ Written(s, t)' = Written(s, t)
           /\ Going(s, t)' = Going(s, t)
           /\ Entering(t)' = Entering(t) /\ Replied(t)' = Replied(t)
<1> DEFINE u == Head(delete_req)
<1>1. /\ delete_req \in Seq(Deletion) /\ delete_req # <<>> /\ update_req \in Seq(Update)
      /\ delete_req' = Tail(delete_req) /\ update_req' = Append(update_req, u)
      /\ UNCHANGED <<insert_req, update_rsp, insert_rsp, reverseVars>>
  BY DEF SendDelete, TypeInv, TypeOK
<1>2. u \in Deletion /\ u \in Update  BY <1>1, UpdateKinds
<1>3. \A T : Among(T, update_req') = Among(T, update_req) + Number(u, T)
  BY <1>1, <1>2, Appended
<1>4. \A T : Among(T, delete_req') = Among(T, delete_req) - Number(u, T)
  BY <1>1, Removed
<1>5. \A T : Number(u, T) \in Int  BY DEF Number
<1> HIDE DEF u
<1>6. Among(DeleteOf(s, t), delete_req') + Among(DeleteOf(s, t), update_req')
          = Among(DeleteOf(s, t), delete_req) + Among(DeleteOf(s, t), update_req)
  BY <1>3, <1>4, <1>5, Numbers
<1>7. /\ Among(InsertOf(s, t), update_req') = Among(InsertOf(s, t), update_req)
      /\ Among(InsertFor(t), update_req') = Among(InsertFor(t), update_req)
  BY <1>2, <1>3, NumberOfDelete, Numbers
<1>8. Going(s, t)' = Going(s, t)  BY <1>6 DEF Going
<1> QED  BY <1>1, <1>7, <1>8 DEF Coming, Written, Entering, Replied, reverseVars

LEMMA TakeReplyPair ==
    ASSUME TypeInv, TakeUpdateReply, NEW s \in Session, NEW t \in Tuple
    PROVE  /\ Coming(s, t)' = Coming(s, t) /\ Written(s, t)' = Written(s, t)
           /\ Going(s, t)' = Going(s, t)
           /\ Entering(t)' = Entering(t) /\ Replied(t)' = Replied(t)
<1> DEFINE u == Head(update_rsp)
<1>1. /\ update_rsp \in Seq(Update) /\ update_rsp # <<>> /\ insert_rsp \in Seq(Insertion)
      /\ update_rsp' = Tail(update_rsp)
      /\ insert_rsp' = IF u.op = "INSERT" THEN Append(insert_rsp, u) ELSE insert_rsp
      /\ UNCHANGED <<delete_req, insert_req, update_req, reverseVars>>
  BY DEF TakeUpdateReply, TypeInv, TypeOK
<1>2. u \in Update  BY <1>1
<1>3. \A T : Among(T, update_rsp') = Among(T, update_rsp) - Number(u, T)
  BY <1>1, Removed
<1>4. ASSUME NEW T, T \subseteq Insertion
      PROVE  Among(T, update_rsp') + Among(T, insert_rsp') = Among(T, update_rsp) + Among(T, insert_rsp)
  <2>1. Number(u, T) \in Int  BY DEF Number
  <2>2. Among(T, insert_rsp') = Among(T, insert_rsp) + Number(u, T)
    <3>1. CASE u \in Insertion
      <4>1. insert_rsp' = Append(insert_rsp, u)  BY <1>1, <3>1 DEF Insertion, IsInsert
      <4> QED  BY <1>1, <3>1, <4>1, Appended
    <3>2. CASE u \notin Insertion
      <4>1. insert_rsp' = insert_rsp  BY <1>1, <1>2, <3>2 DEF Insertion, IsInsert
      <4>2. Number(u, T) = 0  BY <1>4, <3>2 DEF Number
      <4> QED  BY <4>1, <4>2, Numbers
    <3> QED  BY <3>1, <3>2
  <2> HIDE DEF u
  <2> QED  BY <1>3, <2>1, <2>2, Numbers
<1>5. InsertOf(s, t) \subseteq Insertion /\ InsertFor(t) \subseteq Insertion
  BY DEF InsertOf, InsertFor, Insertion
<1>6. /\ Among(InsertOf(s, t), update_rsp') + Among(InsertOf(s, t), insert_rsp')
             = Among(InsertOf(s, t), update_rsp) + Among(InsertOf(s, t), insert_rsp)
      /\ Among(InsertFor(t), update_rsp') + Among(InsertFor(t), insert_rsp')
             = Among(InsertFor(t), update_rsp) + Among(InsertFor(t), insert_rsp)
  BY <1>4, <1>5
<1>7. Replied(t)' = Replied(t)  BY <1>6 DEF Replied
<1>8. Written(s, t)' = Written(s, t)  BY <1>1, <1>6 DEF Written, reverseVars
<1> QED  BY <1>1, <1>7, <1>8 DEF Coming, Going, Entering

\* A session whose tuple is about to be written has no tuple: its ID is in one
\* place.
LEMMA EntryAlone ==
    ASSUME IInv, reverseInsert # <<>>
    PROVE  /\ Head(reverseInsert).key \in Session /\ Head(reverseInsert).value \in Tuple
           /\ ~tupleValid[Head(reverseInsert).key]
<1> DEFINE R == [key : Session, value : Tuple]
           k == Head(reverseInsert).key
<1>1. TypeInv /\ reverseInsert \in Seq(R)  BY QueueSeqs DEF IInv
<1>2. Head(reverseInsert) \in R
  <2> HIDE DEF R
  <2> QED  BY <1>1, HeadTailProperties
<1>3. k \in Session /\ Head(reverseInsert) \in Entries(k)  BY <1>2 DEF Entries
<1>4. Among(Entries(k), reverseInsert) # 0
  <2> HIDE DEF R, k
  <2>1. 1 \in DOMAIN reverseInsert /\ Head(reverseInsert) = reverseInsert[1]
    BY <1>1, EmptySeq, LenProperties
  <2> QED  BY <1>1, <1>3, <2>1, AmongZero
<1>5. Places(k) = 0 \/ Places(k) = 1  BY <1>3 DEF IInv, IdsConserved
<1>6. ~tupleValid[k]
  <2> HIDE DEF k, R
  <2> SUFFICES ASSUME tupleValid[k] PROVE FALSE  OBVIOUS
  <2>1. /\ Among({k}, freeList) \in Nat /\ Among({k}, fin) \in Nat
        /\ Among(Updates(k), delete_req) \in Nat
        /\ Among(InsertsOf(k), insert_req) \in Nat /\ Among(InsertsOf(k), update_req) \in Nat
        /\ Among(InsertsOf(k), update_rsp) \in Nat /\ Among(InsertsOf(k), insert_rsp) \in Nat
        /\ Among(Entries(k), reverseInsert) \in Nat
    BY <1>1, <1>3, PartsType
  <2>2. Places(k) >= 2  BY <1>4, <2>1 DEF Places
  <2> QED  BY <1>5, <2>2
<1> QED  BY <1>2, <1>3, <1>6

LEMMA InsertReversePair ==
    ASSUME IInv, InsertReverse, NEW s \in Session, NEW t \in Tuple
    PROVE  /\ Coming(s, t)' = Coming(s, t) /\ Written(s, t)' = Written(s, t)
           /\ Going(s, t)' = Going(s, t)
           /\ Entering(t)' = Entering(t) /\ Replied(t)' = Replied(t)
<1> DEFINE R == [key : Session, value : Tuple]
           i == Head(reverseInsert)
           v == IF tupleValid[s] /\ reverseLookupTable[s] = t THEN 1 ELSE 0
<1>1. /\ TypeInv /\ reverseInsert \in Seq(R) /\ reverseInsert # <<>>
      /\ reverseInsert' = Tail(reverseInsert) /\ tupleValid \in [Session -> BOOLEAN]
      /\ reverseLookupTable \in [Session -> Tuple \union {NoTuple}]
      /\ reverseLookupTable' = [reverseLookupTable EXCEPT ![i.key] = i.value]
      /\ tupleValid' = [tupleValid EXCEPT ![i.key] = TRUE]
      /\ UNCHANGED updateVars
  BY DEF InsertReverse, IInv, TypeInv, TypeOK
<1>2. i.key \in Session /\ i.value \in Tuple /\ ~tupleValid[i.key]  BY <1>1, EntryAlone
<1>3. i \in R
  <2> HIDE DEF R
  <2> QED  BY <1>1, HeadTailProperties
<1>4. Number(i, Entry(s, t)) = IF i.key = s /\ i.value = t THEN 1 ELSE 0
  <2>1. i \in Entry(s, t) <=> i.key = s /\ i.value = t  BY <1>3 DEF Entry, Entries
  <2> QED  BY <2>1 DEF Number
<1>5. v' = v + Number(i, Entry(s, t))
  <2>1. CASE i.key = s
    <3>1. v = 0 /\ tupleValid'[s] /\ reverseLookupTable'[s] = i.value  BY <1>1, <1>2, <2>1
    <3> QED  BY <1>4, <2>1, <3>1
  <2>2. CASE i.key # s
    <3>1. tupleValid'[s] = tupleValid[s] /\ reverseLookupTable'[s] = reverseLookupTable[s]
      BY <1>1, <1>2, <2>2
    <3> QED  BY <1>4, <2>2, <3>1
  <2> QED  BY <2>1, <2>2
<1>6. Among(Entry(s, t), reverseInsert') = Among(Entry(s, t), reverseInsert) - Number(i, Entry(s, t))
  <2> HIDE DEF R
  <2> QED  BY <1>1, Removed
<1>7. Number(i, Entry(s, t)) \in Int /\ v \in Int  BY DEF Number
<1>8. Written(s, t) = Among(InsertOf(s, t), update_rsp) + Among(InsertOf(s, t), insert_rsp)
                          + Among(Entry(s, t), reverseInsert) + v
      /\ Written(s, t)' = Among(InsertOf(s, t), update_rsp) + Among(InsertOf(s, t), insert_rsp)
                          + Among(Entry(s, t), reverseInsert)' + v'
  BY <1>1 DEF Written, updateVars
<1>9. Coming(s, t)' = Coming(s, t) /\ Going(s, t)' = Going(s, t)
      /\ Entering(t)' = Entering(t) /\ Replied(t)' = Replied(t)
  BY <1>1 DEF Coming, Going, Entering, Replied, updateVars
<1> HIDE DEF i, v
<1>10. Written(s, t)' = Written(s, t)
  <2>1. /\ Among(InsertOf(s, t), update_rsp) \in Int /\ Among(InsertOf(s, t), insert_rsp) \in Int
        /\ Among(Entry(s, t), reverseInsert) \in Int
    BY <1>1, Numbers
  <2> QED  BY <1>5, <1>6, <1>7, <1>8, <2>1
<1> QED  BY <1>9, <1>10

LEMMA ReleasePair ==
    ASSUME TypeInv, NEW r \in Session, Release(r), NEW s \in Session, NEW t \in Tuple
    PROVE  LET d == IF tupleValid[r] /\ s = r /\ reverseLookupTable[r] = t THEN 1 ELSE 0
           IN  /\ Coming(s, t)' = Coming(s, t)
               /\ Written(s, t)' = Written(s, t) - d
               /\ Going(s, t)' = Going(s, t) + d
               /\ Entering(t)' = Entering(t) /\ Replied(t)' = Replied(t)
<1> DEFINE d == IF tupleValid[r] /\ s = r /\ reverseLookupTable[r] = t THEN 1 ELSE 0
           u == [op |-> "DELETE", value |-> r, key |-> reverseLookupTable[r], source |-> "RX"]
           v == IF tupleValid[s] /\ reverseLookupTable[s] = t THEN 1 ELSE 0
<1>1. /\ tupleValid \in [Session -> BOOLEAN] /\ delete_req \in Seq(Deletion)
      /\ tupleValid' = [tupleValid EXCEPT ![r] = FALSE]
      /\ delete_req' = IF tupleValid[r] THEN Append(delete_req, u) ELSE delete_req
      /\ UNCHANGED <<insert_req, update_req, update_rsp, insert_rsp, reverseInsert,
                     reverseLookupTable>>
  BY DEF Release, TypeInv, TypeOK
<1>2. v' = v - d
  <2>1. s = r => ~tupleValid'[s]  BY <1>1
  <2>2. s # r => tupleValid'[s] = tupleValid[s]  BY <1>1
  <2> QED  BY <1>1, <2>1, <2>2
<1>3. Among(DeleteOf(s, t), delete_req') = Among(DeleteOf(s, t), delete_req) + d
  <2>1. CASE tupleValid[r]
    <3>1. u \in Deletion  BY <2>1 DEF Deletion, Update, Source, TypeInv
    <3>2. u.value = r /\ u.key = reverseLookupTable[r]  OBVIOUS
    <3>3. delete_req' = Append(delete_req, u)  BY <1>1, <2>1
    <3> HIDE DEF u
    <3>4. Number(u, DeleteOf(s, t)) = d  BY <2>1, <3>1, <3>2, NumberOfDelete
    <3> QED  BY <1>1, <3>1, <3>3, <3>4, Appended
  <2>2. CASE ~tupleValid[r]
    <3>1. delete_req' = delete_req /\ d = 0  BY <1>1, <2>2
    <3> QED  BY <3>1, Numbers
  <2> QED  BY <2>1, <2>2
<1>4. d \in Int /\ v \in Int  OBVIOUS
<1>5. Written(s, t) = Among(InsertOf(s, t), update_rsp) + Among(InsertOf(s, t), insert_rsp)
                          + Among(Entry(s, t), reverseInsert) + v
      /\ Written(s, t)' = Among(InsertOf(s, t), update_rsp) + Among(InsertOf(s, t), insert_rsp)
                          + Among(Entry(s, t), reverseInsert) + v'
  BY <1>1 DEF Written
<1>6. Going(s, t) = Among(DeleteOf(s, t), delete_req) + Among(DeleteOf(s, t), update_req)
      /\ Going(s, t)' = Among(DeleteOf(s, t), delete_req') + Among(DeleteOf(s, t), update_req)
  BY <1>1 DEF Going
<1>7. Coming(s, t)' = Coming(s, t) /\ Entering(t)' = Entering(t) /\ Replied(t)' = Replied(t)
  BY <1>1 DEF Coming, Entering, Replied
<1> HIDE DEF d, v
<1>8. Written(s, t)' = Written(s, t) - d
  <2>1. /\ Among(InsertOf(s, t), update_rsp) \in Int /\ Among(InsertOf(s, t), insert_rsp) \in Int
        /\ Among(Entry(s, t), reverseInsert) \in Int
    BY Numbers
  <2> QED  BY <1>2, <1>4, <1>5, <2>1
<1>9. Going(s, t)' = Going(s, t) + d
  <2>1. Among(DeleteOf(s, t), delete_req) \in Int /\ Among(DeleteOf(s, t), update_req) \in Int
    BY Numbers
  <2> QED  BY <1>3, <1>4, <1>6, <2>1
<1> QED  BY <1>7, <1>8, <1>9 DEF d

LEMMA CamInsertPair ==
    ASSUME TypeInv, CamUpdate, IsInsert(Head(update_req)), NEW s \in Session, NEW t \in Tuple
    PROVE  LET u == Head(update_req)
               d == IF u.value = s /\ u.key = t THEN 1 ELSE 0
               e == IF u.key = t THEN 1 ELSE 0
           IN  /\ u \in Insertion
               /\ Coming(s, t)' = Coming(s, t) - d /\ Written(s, t)' = Written(s, t) + d
               /\ Going(s, t)' = Going(s, t)
               /\ Entering(t)' = Entering(t) - e /\ Replied(t)' = Replied(t) + e
<1> DEFINE u == Head(update_req)
<1>1. /\ update_req \in Seq(Update) /\ update_req # <<>> /\ update_rsp \in Seq(Update)
      /\ update_req' = Tail(update_req) /\ update_rsp' = Append(update_rsp, u)
      /\ UNCHANGED <<delete_req, insert_req, insert_rsp, reverseVars>>
  BY DEF CamUpdate, TypeInv, TypeOK
<1>2. u \in Insertion /\ u \in Update  BY <1>1 DEF Insertion
<1>3. \A T : Among(T, update_rsp') = Among(T, update_rsp) + Number(u, T)
  BY <1>1, <1>2, Appended
<1>4. \A T : Among(T, update_req') = Among(T, update_req) - Number(u, T)
  BY <1>1, Removed
<1> HIDE DEF u
<1>5. /\ Among(InsertOf(s, t), update_req') = Among(InsertOf(s, t), update_req)
             - (IF u.value = s /\ u.key = t THEN 1 ELSE 0)
      /\ Among(InsertOf(s, t), update_rsp') = Among(InsertOf(s, t), update_rsp)
             + (IF u.value = s /\ u.key = t THEN 1 ELSE 0)
      /\ Among(InsertFor(t), update_req') = Among(InsertFor(t), update_req)
             - (IF u.key = t THEN 1 ELSE 0)
      /\ Among(InsertFor(t), update_rsp') = Among(InsertFor(t), update_rsp)
             + (IF u.key = t THEN 1 ELSE 0)
      /\ Among(DeleteOf(s, t), update_req') = Among(DeleteOf(s, t), update_req)
  BY <1>2, <1>3, <1>4, NumberOfInsert, Numbers
<1> DEFINE d == IF u.value = s /\ u.key = t THEN 1 ELSE 0
           e == IF u.key = t THEN 1 ELSE 0
           v == IF tupleValid[s] /\ reverseLookupTable[s] = t THEN 1 ELSE 0
<1>6. d \in Int /\ e \in Int /\ v \in Int /\ v' = v  BY <1>1 DEF reverseVars
<1>7. /\ Among(InsertOf(s, t), update_req) \in Int /\ Among(InsertOf(s, t), update_rsp) \in Int
      /\ Among(InsertOf(s, t), insert_req) \in Int /\ Among(InsertOf(s, t), insert_rsp) \in Int
      /\ Among(InsertFor(t), update_req) \in Int /\ Among(InsertFor(t), update_rsp) \in Int
      /\ Among(InsertFor(t), insert_req) \in Int /\ Among(InsertFor(t), insert_rsp) \in Int
      /\ Among(Entry(s, t), reverseInsert) \in Int
  BY Numbers
<1>8. Written(s, t) = Among(InsertOf(s, t), update_rsp) + Among(InsertOf(s, t), insert_rsp)
                          + Among(Entry(s, t), reverseInsert) + v
      /\ Written(s, t)' = Among(InsertOf(s, t), update_rsp') + Among(InsertOf(s, t), insert_rsp)
                          + Among(Entry(s, t), reverseInsert) + v'
  BY <1>1 DEF Written, reverseVars
<1>9. Coming(s, t)' = Coming(s, t) - d
  <2>1. Coming(s, t)' = Among(InsertOf(s, t), insert_req) + Among(InsertOf(s, t), update_req')
    BY <1>1 DEF Coming
  <2> HIDE DEF d, e, v
  <2> QED  BY <1>5, <1>6, <1>7, <2>1 DEF Coming, d
<1>10. Entering(t)' = Entering(t) - e /\ Replied(t)' = Replied(t) + e
  <2>1. /\ Entering(t)' = Among(InsertFor(t), insert_req) + Among(InsertFor(t), update_req')
        /\ Replied(t)' = Among(InsertFor(t), update_rsp') + Among(InsertFor(t), insert_rsp)
    BY <1>1 DEF Entering, Replied
  <2> QED  BY <1>5, <1>6, <1>7, <2>1 DEF Entering, Replied
<1>11. Going(s, t)' = Going(s, t)  BY <1>1, <1>5 DEF Going
<1>12. Written(s, t)' = Written(s, t) + d
  <2>1. Among(InsertOf(s, t), update_rsp') = Among(InsertOf(s, t), update_rsp) + d  BY <1>5
  <2> HIDE DEF d, e, v
  <2> QED  BY <1>6, <1>7, <1>8, <2>1
<1> QED  BY <1>2, <1>9, <1>10, <1>11, <1>12 DEF u

LEMMA CamDeletePair ==
    ASSUME TypeInv, CamUpdate, ~IsInsert(Head(update_req)), NEW s \in Session, NEW t \in Tuple
    PROVE  LET u == Head(update_req)
           IN  /\ u \in Deletion
               /\ Coming(s, t)' = Coming(s, t) /\ Written(s, t)' = Written(s, t)
               /\ Going(s, t)' = Going(s, t) - (IF u.value = s /\ u.key = t THEN 1 ELSE 0)
               /\ Entering(t)' = Entering(t) /\ Replied(t)' = Replied(t)
<1> DEFINE u == Head(update_req)
<1>1. /\ update_req \in Seq(Update) /\ update_req # <<>> /\ update_rsp \in Seq(Update)
      /\ update_req' = Tail(update_req) /\ update_rsp' = Append(update_rsp, u)
      /\ UNCHANGED <<delete_req, insert_req, insert_rsp, reverseVars>>
  BY DEF CamUpdate, TypeInv, TypeOK
<1>2. u \in Deletion /\ u \in Update
  <2>1. u \in Update /\ u \notin Insertion  BY <1>1 DEF Insertion
  <2> QED  BY <2>1, UpdateKinds
<1>3. \A T : Among(T, update_rsp') = Among(T, update_rsp) + Number(u, T)
  BY <1>1, <1>2, Appended
<1>4. \A T : Among(T, update_req') = Among(T, update_req) - Number(u, T)
  BY <1>1, Removed
<1> HIDE DEF u
<1>5. /\ Among(InsertOf(s, t), update_req') = Among(InsertOf(s, t), update_req)
      /\ Among(InsertOf(s, t), update_rsp') = Among(InsertOf(s, t), update_rsp)
      /\ Among(InsertFor(t), update_req') = Among(InsertFor(t), update_req)
      /\ Among(InsertFor(t), update_rsp') = Among(InsertFor(t), update_rsp)
      /\ Among(DeleteOf(s, t), update_req') = Among(DeleteOf(s, t), update_req)
             - (IF u.value = s /\ u.key = t THEN 1 ELSE 0)
  BY <1>2, <1>3, <1>4, NumberOfDelete, Numbers
<1>6. /\ Coming(s, t)' = Coming(s, t) /\ Entering(t)' = Entering(t) /\ Replied(t)' = Replied(t)
      /\ Written(s, t)' = Written(s, t)
  BY <1>1, <1>5 DEF Coming, Entering, Replied, Written, reverseVars
<1>7. Going(s, t)' = Going(s, t) - (IF u.value = s /\ u.key = t THEN 1 ELSE 0)
  <2>1. Going(s, t)' = Among(DeleteOf(s, t), delete_req) + Among(DeleteOf(s, t), update_req')
    BY <1>1 DEF Going
  <2>2. Among(DeleteOf(s, t), delete_req) \in Int /\ Among(DeleteOf(s, t), update_req) \in Int
    BY Numbers
  <2> QED  BY <1>5, <2>1, <2>2 DEF Going
<1> QED  BY <1>2, <1>6, <1>7 DEF u

LEMMA FirstOf ==
    ASSUME NEW S, NEW q \in Seq(S), NEW e \in S, Len(q) = 0
    PROVE  Len(Append(q, e)) = 1 /\ Head(Append(q, e)) = e /\ Append(q, e) # <<>>
<1>1. q = <<>>  BY EmptySeq
<1>2. Append(q, e) = << e >>  BY <1>1
<1> QED  BY <1>2

LEMMA LastOf ==
    ASSUME NEW S, NEW q \in Seq(S), q # <<>>, Len(q) <= 1
    PROVE  Len(q) = 1 /\ Len(Tail(q)) = 0 /\ Tail(q) = <<>>
<1>1. Len(q) \in Nat /\ Len(q) # 0  BY EmptySeq, LenProperties
<1>2. Tail(q) \in Seq(S) /\ Len(Tail(q)) = Len(q) - 1  BY HeadTailProperties
<1> QED  BY <1>1, <1>2, EmptySeq

LEMMA HandlerSeqs ==
    ASSUME TypeInv
    PROVE  /\ slc_queryCache \in Seq(Query) /\ slc_insertTuples \in Seq(Tuple)
           /\ lookup_req \in Seq([key : Tuple, source : Source]) /\ lookup_rsp \in Seq(CamReply)
           /\ Len(slc_queryCache) \in Nat /\ Len(slc_insertTuples) \in Nat
           /\ Len(lookup_req) \in Nat /\ Len(lookup_rsp) \in Nat
           /\ slc_queryCache # <<>> => Head(slc_queryCache) \in Query
           /\ lookup_req # <<>> => Head(lookup_req) \in [key : Tuple, source : Source]
           /\ lookup_rsp # <<>> => Head(lookup_rsp) \in CamReply
           /\ slc_fsmState \in {"LUP_REQ", "LUP_RSP", "UPD_RSP"}
<1> DEFINE L == [key : Tuple, source : Source]
<1>1. /\ slc_queryCache \in Seq(Query) /\ slc_insertTuples \in Seq(Tuple)
      /\ lookup_req \in Seq(L) /\ lookup_rsp \in Seq(CamReply)
      /\ slc_fsmState \in {"LUP_REQ", "LUP_RSP", "UPD_RSP"}
  BY DEF TypeInv, TypeOK
<1> HIDE DEF L
<1>2. /\ Len(slc_queryCache) \in Nat /\ Len(slc_insertTuples) \in Nat
      /\ Len(lookup_req) \in Nat /\ Len(lookup_rsp) \in Nat
  BY <1>1, LenProperties
<1>3. /\ slc_queryCache # <<>> => Head(slc_queryCache) \in Query
      /\ lookup_req # <<>> => Head(lookup_req) \in L
      /\ lookup_rsp # <<>> => Head(lookup_rsp) \in CamReply
  BY <1>1, HeadTailProperties
<1> QED  BY <1>1, <1>2, <1>3 DEF L

\* A reply to a lookup comes when lookupReplyHandler waits for it, about what
\* it has asked; no update is under way that could change it.
LEMMA ReplyFacts ==
    ASSUME DirInv, lookup_rsp # <<>>
    PROVE  /\ slc_fsmState = "LUP_RSP" /\ Len(slc_queryCache) = 1 /\ slc_queryCache # <<>>
           /\ Len(lookup_rsp) = 1 /\ Len(lookup_req) = 0 /\ lookup_req = <<>>
           /\ Len(slc_insertTuples) = 0
           /\ Head(slc_queryCache).tuple \in Tuple
           /\ \A t \in Tuple : Entering(t) = 0 /\ Replied(t) = 0
<1>1. TypeInv  BY DEF DirInv, IInv
<1>2. Len(lookup_rsp) # 0 /\ Len(lookup_rsp) \in Nat /\ Len(lookup_req) \in Nat
  BY <1>1, HandlerSeqs, EmptySeq
<1>3. /\ slc_fsmState = "LUP_RSP" /\ Len(slc_queryCache) = 1 /\ Len(lookup_rsp) = 1
      /\ Len(lookup_req) = 0 /\ Len(slc_insertTuples) = 0
  <2>1. Len(lookup_req) + Len(lookup_rsp) # 0  BY <1>2
  <2>2. slc_fsmState = "LUP_RSP"  BY <2>1 DEF DirInv, Handler
  <2>3. /\ Len(slc_queryCache) = 1 /\ Len(lookup_req) + Len(lookup_rsp) = 1
        /\ Len(slc_insertTuples) = 0
    BY <2>2 DEF DirInv, Handler
  <2> QED  BY <1>2, <2>2, <2>3
<1>4. slc_queryCache # <<>> /\ lookup_req = <<>>
  BY <1>1, <1>3, HandlerSeqs, EmptySeq
<1>5. Head(slc_queryCache).tuple \in Tuple  BY <1>1, <1>4, HandlerSeqs DEF Query
<1>6. ASSUME NEW t \in Tuple PROVE Entering(t) = 0 /\ Replied(t) = 0
  <2>1. Entering(t) + Replied(t) = 0  BY <1>3 DEF DirInv, Created
  <2> QED  BY <1>1, <2>1, PairTypes
<1> QED  BY <1>3, <1>4, <1>5, <1>6

-----------------------------------------------------------------------------
(***************************************************************************)
(* lookupReplyHandler                                                      *)
(***************************************************************************)
LEMMA AskHandler ==
    ASSUME DirInv, NEW t \in Tuple, NEW creation \in BOOLEAN, NEW source \in Source,
           AskCam(t, creation, source)
    PROVE  Handler'
<1> DEFINE e == [key |-> t, source |-> source]
           q == [tuple |-> t, allowCreation |-> creation, source |-> source]
<1>1. /\ slc_fsmState = "LUP_REQ" /\ slc_fsmState' = "LUP_RSP"
      /\ lookup_req' = Append(lookup_req, e) /\ slc_queryCache' = Append(slc_queryCache, q)
      /\ UNCHANGED <<slc_insertTuples, lookup_rsp>>
  BY DEF AskCam
<1>2. e \in [key : Tuple, source : Source] /\ q \in Query  BY DEF Query
<1>3. e.key = t /\ q.tuple = t  OBVIOUS
<1>4. TypeInv  BY DEF DirInv, IInv
<1>5. Len(slc_queryCache) = 0 /\ Len(lookup_req) = 0 /\ Len(lookup_rsp) = 0 /\ Len(slc_insertTuples) = 0
  BY <1>1, <1>4, HandlerSeqs DEF DirInv, Handler
<1>6. lookup_rsp = <<>>  BY <1>4, <1>5, HandlerSeqs, EmptySeq
<1> HIDE DEF e, q
<1>7. Len(lookup_req') = 1 /\ Head(lookup_req') = e
  <2> DEFINE L == [key : Tuple, source : Source]
  <2>1. lookup_req \in Seq(L) /\ e \in L  BY <1>2, <1>4, HandlerSeqs
  <2> HIDE DEF L
  <2> QED  BY <1>1, <1>5, <2>1, FirstOf
<1>8. Len(slc_queryCache') = 1 /\ Head(slc_queryCache') = q
  BY <1>1, <1>2, <1>4, <1>5, HandlerSeqs, FirstOf
<1>9. Len(lookup_rsp') = 0 /\ lookup_rsp' = <<>> /\ Len(slc_insertTuples') = 0  BY <1>1, <1>5, <1>6
<1> QED  BY <1>1, <1>3, <1>7, <1>8, <1>9 DEF Handler

LEMMA CreateHandler == ASSUME DirInv, CreateSession PROVE Handler' /\ Head(slc_insertTuples') = Head(slc_queryCache).tuple
<1>1. /\ lookup_rsp # <<>> /\ lookup_rsp' = Tail(lookup_rsp)
      /\ slc_queryCache' = Tail(slc_queryCache) /\ slc_fsmState' = "UPD_RSP"
      /\ slc_insertTuples' = Append(slc_insertTuples, Head(slc_queryCache).tuple)
      /\ lookup_req' = lookup_req
  BY DEF CreateSession
<1>2. TypeInv  BY DEF DirInv, IInv
<1>3. Len(slc_queryCache') = 0
  BY <1>1, <1>2, ReplyFacts, HandlerSeqs, LastOf
<1>4. Len(lookup_rsp') = 0 /\ lookup_rsp' = <<>>  BY <1>1, <1>2, ReplyFacts, HandlerSeqs, LastOf
<1>5. Len(lookup_req') = 0 /\ lookup_req' = <<>>  BY <1>1, ReplyFacts
<1>6. Len(slc_insertTuples') = 1 /\ Head(slc_insertTuples') = Head(slc_queryCache).tuple
  BY <1>1, <1>2, ReplyFacts, HandlerSeqs, FirstOf
<1> QED  BY <1>1, <1>3, <1>4, <1>5, <1>6 DEF Handler

LEMMA PassHandler == ASSUME DirInv, PassAnswer PROVE Handler'
<1>1. /\ lookup_rsp # <<>> /\ lookup_rsp' = Tail(lookup_rsp)
      /\ slc_queryCache' = Tail(slc_queryCache) /\ slc_fsmState' = "LUP_REQ"
      /\ UNCHANGED <<slc_insertTuples, lookup_req>>
  BY DEF PassAnswer
<1>2. TypeInv  BY DEF DirInv, IInv
<1>3. Len(slc_queryCache') = 0
  BY <1>1, <1>2, ReplyFacts, HandlerSeqs, LastOf
<1>4. Len(lookup_rsp') = 0 /\ lookup_rsp' = <<>>  BY <1>1, <1>2, ReplyFacts, HandlerSeqs, LastOf
<1>5. Len(lookup_req') = 0 /\ lookup_req' = <<>> /\ Len(slc_insertTuples') = 0  BY <1>1, ReplyFacts
<1> QED  BY <1>1, <1>3, <1>4, <1>5 DEF Handler

LEMMA AnswerHandler == ASSUME DirInv, AnswerCreated PROVE Handler'
<1>1. /\ slc_fsmState = "UPD_RSP" /\ slc_fsmState' = "LUP_REQ"
      /\ slc_insertTuples' = Tail(slc_insertTuples)
      /\ UNCHANGED <<slc_queryCache, lookup_req, lookup_rsp>>
  BY DEF AnswerCreated, lookupVars
<1>2. TypeInv  BY DEF DirInv, IInv
<1>3. Len(slc_queryCache) = 0 /\ Len(lookup_req) = 0 /\ Len(lookup_rsp) = 0 /\ Len(slc_insertTuples) = 1
  BY <1>1, <1>2, HandlerSeqs DEF DirInv, Handler
<1>4. Len(slc_insertTuples') = 0
  <2>1. slc_insertTuples \in Seq(Tuple)  BY <1>2, HandlerSeqs
  <2>2. slc_insertTuples # <<>>  BY <1>3, <2>1, EmptySeq
  <2> QED  BY <1>1, <1>3, <2>1, <2>2, LastOf
<1>5. lookup_req' = <<>> /\ lookup_rsp' = <<>>  BY <1>1, <1>2, <1>3, HandlerSeqs, EmptySeq
<1> QED  BY <1>1, <1>3, <1>4, <1>5 DEF Handler

LEMMA CamLookupHandler == ASSUME DirInv, CamLookup PROVE Handler'
<1> DEFINE r == Head(lookup_req)
           a == [sessionID |-> cam[r.key], hit |-> cam[r.key] # NoSession, source |-> r.source]
<1>1. /\ lookup_req # <<>> /\ lookup_req' = Tail(lookup_req) /\ lookup_rsp' = Append(lookup_rsp, a)
      /\ UNCHANGED <<handlerVars, cam>>
  BY DEF CamLookup
<1>2. TypeInv  BY DEF DirInv, IInv
<1>3. Len(lookup_req) # 0 /\ Len(lookup_req) \in Nat /\ Len(lookup_rsp) \in Nat
  BY <1>1, <1>2, HandlerSeqs, EmptySeq
<1>4. /\ slc_fsmState = "LUP_RSP" /\ Len(slc_queryCache) = 1 /\ Len(lookup_req) = 1
      /\ Len(lookup_rsp) = 0 /\ Len(slc_insertTuples) = 0 /\ r.key = Head(slc_queryCache).tuple
  <2>1. Len(lookup_req) + Len(lookup_rsp) # 0  BY <1>3
  <2>2. slc_fsmState = "LUP_RSP"  BY <2>1 DEF DirInv, Handler
  <2>3. /\ Len(slc_queryCache) = 1 /\ Len(lookup_req) + Len(lookup_rsp) = 1
        /\ Len(slc_insertTuples) = 0 /\ r.key = Head(slc_queryCache).tuple
    BY <1>1, <2>2 DEF DirInv, Handler
  <2>4. Len(lookup_req) = 1 /\ Len(lookup_rsp) = 0  BY <1>3, <2>3
  <2> HIDE DEF r
  <2> QED  BY <2>2, <2>3, <2>4
<1>5. r \in [key : Tuple, source : Source]  BY <1>1, <1>2, HandlerSeqs
<1>6. a \in CamReply
  <2>1. cam \in [Tuple -> Session \cup {NoSession}]  BY <1>2, QueueSeqs
  <2> QED  BY <1>5, <2>1 DEF CamReply
<1>7. a.hit <=> cam[Head(slc_queryCache).tuple] # NoSession  BY <1>4
<1>8. Len(lookup_req') = 0 /\ lookup_req' = <<>>
  <2> DEFINE L == [key : Tuple, source : Source]
  <2>1. lookup_req \in Seq(L)  BY <1>2, HandlerSeqs
  <2> HIDE DEF L
  <2> QED  BY <1>1, <1>4, <2>1, LastOf
<1> HIDE DEF a
<1>9. Len(lookup_rsp') = 1 /\ Head(lookup_rsp') = a
  BY <1>1, <1>2, <1>4, <1>6, HandlerSeqs, FirstOf
<1> QED  BY <1>1, <1>4, <1>7, <1>8, <1>9 DEF Handler, handlerVars

\* An update leaves the reply of a lookup true: none under way is an insert.
LEMMA CamUpdateHandler == ASSUME DirInv, CamUpdate PROVE Handler'
<1> DEFINE u == Head(update_req)
<1>1. /\ update_req # <<>> /\ cam' = CamWith(cam, u) /\ UNCHANGED <<handlerVars, lookupVars>>
  BY DEF CamUpdate
<1>2. TypeInv  BY DEF DirInv, IInv
<1>3. ASSUME lookup_rsp # <<>>, ~Head(lookup_rsp).hit
      PROVE  cam'[Head(slc_queryCache).tuple] = NoSession
  <2> DEFINE t == Head(slc_queryCache).tuple
  <2>1. t \in Tuple /\ Entering(t) = 0 /\ cam[t] = NoSession
    BY <1>3, ReplyFacts DEF DirInv, Handler
  <2>2. update_req \in Seq(Update) /\ cam \in [Tuple -> Session \cup {NoSession}]
    BY <1>2, QueueSeqs
  <2>3. u \in Update  BY <1>1, <2>2
  <2>4. CASE u.key = t /\ IsInsert(u)
    <3>1. u \in InsertFor(t)  BY <2>3, <2>4 DEF InsertFor
    <3>2. 1 \in DOMAIN update_req /\ u = update_req[1]  BY <1>1, <2>2, EmptySeq, LenProperties
    <3> HIDE DEF t, u
    <3>3. Among(InsertFor(t), update_req) # 0  BY <2>2, <3>1, <3>2, AmongZero
    <3> QED  BY <1>2, <2>1, <3>3, Numbers DEF Entering
  <2>5. CASE ~(u.key = t /\ IsInsert(u))
    BY <1>1, <2>1, <2>2, <2>3, <2>5 DEF CamWith, IsInsert
  <2> QED  BY <2>4, <2>5
<1> QED  BY <1>1, <1>3 DEF DirInv, Handler, handlerVars, lookupVars

LEMMA HandlerNext == ASSUME DirInv, [Next]_vars PROVE Handler'
<1>1. ASSUME NEW t \in TxTuple, TxLookup(t) PROVE Handler'
  <2>1. FromTx(t) \in Tuple /\ "TX_APP" \in Source  BY DEF FromTx, TxTuple, Tuple, Source
  <2> QED  BY <1>1, <2>1, AskHandler DEF TxLookup
<1>2. ASSUME NEW t \in RxTuple, NEW creation \in BOOLEAN, RxLookup(t, creation) PROVE Handler'
  <2>1. FromRx(t) \in Tuple /\ "RX" \in Source  BY DEF FromRx, RxTuple, Tuple, Source
  <2> QED  BY <1>2, <2>1, AskHandler DEF RxLookup
<1>3. ASSUME UNCHANGED <<handlerVars, lookupVars, cam>> PROVE Handler'
  BY <1>3 DEF DirInv, Handler, handlerVars, lookupVars
<1>4. CASE ReturnId \/ NewId  BY <1>3, <1>4 DEF ReturnId, NewId
<1>5. CASE SendInsert \/ SendDelete \/ TakeUpdateReply
  BY <1>3, <1>5 DEF SendInsert, SendDelete, TakeUpdateReply
<1>6. CASE InsertReverse \/ \E s \in Session : Release(s)
  BY <1>3, <1>6 DEF InsertReverse, Release
<1>7. CASE UNCHANGED vars  BY <1>3, <1>7 DEF vars
<1> QED
  BY <1>1, <1>2, <1>4, <1>5, <1>6, <1>7, CreateHandler, PassHandler, AnswerHandler,
     CamLookupHandler, CamUpdateHandler
  DEF Next

\* Bonds, Single and Created, of one session and one tuple.
Sound(s, t) ==
    /\ Written(s, t) + Going(s, t) = IF cam[t] = s THEN 1 ELSE 0
    /\ Entering(t) + (IF cam[t] = NoSession THEN 0 ELSE 1) <= 1
    /\ Entering(t) + Replied(t) =
           IF slc_fsmState = "UPD_RSP" /\ Head(slc_insertTuples) = t THEN 1 ELSE 0

LEMMA SoundNow ==
    ASSUME DirInv, NEW s \in Session, NEW t \in Tuple
    PROVE  /\ Sound(s, t)
           /\ Coming(s, t) \in Nat /\ Written(s, t) \in Nat /\ Going(s, t) \in Nat
           /\ Entering(t) \in Nat /\ Replied(t) \in Nat
BY PairTypes DEF Sound, DirInv, IInv, Bonds, Single, Created

\* Nothing that counts changes.
LEMMA SameSound ==
    ASSUME DirInv, NEW s \in Session, NEW t \in Tuple,
           Written(s, t)' = Written(s, t), Going(s, t)' = Going(s, t),
           Entering(t)' = Entering(t), Replied(t)' = Replied(t),
           cam' = cam, UNCHANGED <<slc_fsmState, slc_insertTuples>>
    PROVE  Sound(s, t)'
BY SoundNow DEF Sound

\* The handler leaves a state in which nothing is inserted for another.
LEMMA IdleSound ==
    ASSUME DirInv, NEW s \in Session, NEW t \in Tuple, UNCHANGED <<updateVars, reverseVars, cam>>,
           slc_fsmState # "UPD_RSP", slc_fsmState' # "UPD_RSP"
    PROVE  Sound(s, t)'
<1>1. /\ Written(s, t)' = Written(s, t) /\ Going(s, t)' = Going(s, t)
      /\ Entering(t)' = Entering(t) /\ Replied(t)' = Replied(t)
  BY QuietPair
<1> QED  BY <1>1, SoundNow DEF Sound

\* A session is created for a tuple the CAM has missed.
LEMMA CreateSound ==
    ASSUME DirInv, CreateSession, NEW s \in Session, NEW t \in Tuple
    PROVE  Sound(s, t)'
<1> DEFINE t0 == Head(slc_queryCache).tuple
<1>1. lookup_rsp # <<>> /\ ~Head(lookup_rsp).hit /\ slc_fsmState' = "UPD_RSP" /\ cam' = cam
  BY DEF CreateSession
<1>2. /\ Written(s, t)' = Written(s, t) /\ Going(s, t)' = Going(s, t)
      /\ Entering(t)' = Entering(t) + (IF t0 = t THEN 1 ELSE 0) /\ Replied(t)' = Replied(t)
  BY CreatePair DEF DirInv, IInv
<1>3. Head(slc_insertTuples') = t0  BY CreateHandler
<1>4. cam[t0] = NoSession  BY <1>1 DEF DirInv, Handler
<1>5. Entering(t) = 0 /\ Replied(t) = 0  BY <1>1, ReplyFacts
<1> HIDE DEF t0
<1>6. /\ (slc_fsmState' = "UPD_RSP" /\ Head(slc_insertTuples') = t) <=> t0 = t
      /\ t0 = t => cam[t] = NoSession
  BY <1>1, <1>3, <1>4
<1>7. Sound(s, t) /\ Written(s, t) \in Nat /\ Going(s, t) \in Nat  BY SoundNow
<1>8. CASE t0 = t  BY <1>1, <1>2, <1>5, <1>6, <1>7, <1>8 DEF Sound
<1>9. CASE t0 # t  BY <1>1, <1>2, <1>5, <1>6, <1>7, <1>9 DEF Sound
<1> QED  BY <1>8, <1>9

\* The tuple that is written into the reverse table is that of the insert.
LEMMA AnswerKey ==
    ASSUME DirInv, AnswerCreated
    PROVE  /\ slc_fsmState = "UPD_RSP" /\ slc_fsmState' = "LUP_REQ"
           /\ Head(insert_rsp).key = Head(slc_insertTuples)
<1> DEFINE u == Head(insert_rsp)
<1>1. TypeInv /\ insert_rsp # <<>> /\ slc_fsmState = "UPD_RSP" /\ slc_fsmState' = "LUP_REQ"
  BY DEF AnswerCreated, DirInv, IInv
<1>2. insert_rsp \in Seq(Insertion)  BY <1>1, QueueSeqs
<1>3. u \in Insertion /\ 1 \in DOMAIN insert_rsp /\ u = insert_rsp[1]
  BY <1>1, <1>2, EmptySeq, LenProperties
<1>4. u.key \in Tuple /\ u \in InsertFor(u.key)  BY <1>3 DEF Insertion, InsertFor, Update
<1> HIDE DEF u
<1>5. Among(InsertFor(u.key), insert_rsp) # 0  BY <1>2, <1>3, <1>4, AmongZero
<1>6. Entering(u.key) + Replied(u.key) # 0
  <2>1. Replied(u.key) # 0  BY <1>1, <1>5, Numbers DEF Replied
  <2> QED  BY <1>1, <1>4, <2>1, PairTypes
<1>7. Head(slc_insertTuples) = u.key  BY <1>4, <1>6 DEF DirInv, Created
<1> QED  BY <1>1, <1>7 DEF u

LEMMA AnswerSound ==
    ASSUME DirInv, AnswerCreated, NEW s \in Session, NEW t \in Tuple
    PROVE  Sound(s, t)'
<1>1. /\ Written(s, t)' = Written(s, t) /\ Going(s, t)' = Going(s, t)
      /\ Entering(t)' = Entering(t)
      /\ Replied(t)' = Replied(t) - (IF Head(slc_insertTuples) = t THEN 1 ELSE 0)
  BY AnswerKey, AnswerPair DEF DirInv, IInv
<1>2. slc_fsmState = "UPD_RSP" /\ slc_fsmState' = "LUP_REQ" /\ cam' = cam
  BY DEF AnswerCreated
<1> QED  BY <1>1, <1>2, SoundNow DEF Sound

LEMMA SenderSound ==
    ASSUME DirInv, SendInsert \/ SendDelete \/ TakeUpdateReply, NEW s \in Session, NEW t \in Tuple
    PROVE  Sound(s, t)'
<1>1. cam' = cam /\ UNCHANGED <<slc_fsmState, slc_insertTuples>>
  BY DEF SendInsert, SendDelete, TakeUpdateReply, handlerVars
<1>2. /\ Written(s, t)' = Written(s, t) /\ Going(s, t)' = Going(s, t)
      /\ Entering(t)' = Entering(t) /\ Replied(t)' = Replied(t)
  BY SendInsertPair, SendDeletePair, TakeReplyPair DEF DirInv, IInv
<1> QED  BY <1>1, <1>2, SameSound

LEMMA InsertReverseSound ==
    ASSUME DirInv, InsertReverse, NEW s \in Session, NEW t \in Tuple
    PROVE  Sound(s, t)'
<1>1. cam' = cam /\ UNCHANGED <<slc_fsmState, slc_insertTuples>>
  BY DEF InsertReverse, handlerVars
<1>2. /\ Written(s, t)' = Written(s, t) /\ Going(s, t)' = Going(s, t)
      /\ Entering(t)' = Entering(t) /\ Replied(t)' = Replied(t)
  BY InsertReversePair DEF DirInv
<1> QED  BY <1>1, <1>2, SameSound

LEMMA ReleaseSound ==
    ASSUME DirInv, NEW r \in Session, Release(r), NEW s \in Session, NEW t \in Tuple
    PROVE  Sound(s, t)'
<1> DEFINE d == IF tupleValid[r] /\ s = r /\ reverseLookupTable[r] = t THEN 1 ELSE 0
<1>1. cam' = cam /\ UNCHANGED <<slc_fsmState, slc_insertTuples>>
  BY DEF Release, handlerVars
<1>2. /\ Written(s, t)' = Written(s, t) - d /\ Going(s, t)' = Going(s, t) + d
      /\ Entering(t)' = Entering(t) /\ Replied(t)' = Replied(t)
  BY ReleasePair DEF DirInv, IInv
<1>3. d \in Int  OBVIOUS
<1> HIDE DEF d
<1> QED  BY <1>1, <1>2, <1>3, SoundNow DEF Sound

\* An insert finds its tuple free in the CAM.
LEMMA CamInsertSound ==
    ASSUME DirInv, CamUpdate, IsInsert(Head(update_req)), NEW s \in Session, NEW t \in Tuple
    PROVE  Sound(s, t)'
<1> DEFINE u == Head(update_req)
<1>1. /\ update_req # <<>> /\ cam' = CamWith(cam, u) /\ UNCHANGED <<slc_fsmState, slc_insertTuples>>
  BY DEF CamUpdate, handlerVars
<1>2. TypeInv /\ cam \in [Tuple -> Session \cup {NoSession}] /\ update_req \in Seq(Update)
  BY QueueSeqs DEF DirInv, IInv
<1>3. /\ u \in Insertion
      /\ Written(s, t)' = Written(s, t) + (IF u.value = s /\ u.key = t THEN 1 ELSE 0)
      /\ Going(s, t)' = Going(s, t)
      /\ Entering(t)' = Entering(t) - (IF u.key = t THEN 1 ELSE 0)
      /\ Replied(t)' = Replied(t) + (IF u.key = t THEN 1 ELSE 0)
  BY <1>2, CamInsertPair
<1>4. u.value \in Session /\ u.key \in Tuple /\ u.value # NoSession
  BY <1>3, Sessions DEF Insertion, Update
<1>5. 1 \in DOMAIN update_req /\ u = update_req[1]  BY <1>1, <1>2, EmptySeq, LenProperties
<1>6. cam' = [cam EXCEPT ![u.key] = u.value]
  BY <1>1, <1>3 DEF CamWith, Insertion, IsInsert
<1> HIDE DEF u
<1>7. CASE u.key = t
  <2>1. u \in InsertFor(t)  BY <1>3, <1>7 DEF InsertFor, Insertion
  <2>2. Among(InsertFor(t), update_req) # 0  BY <1>2, <1>5, <2>1, AmongZero
  <2>3. Entering(t) # 0  BY <1>2, <2>2, Numbers DEF Entering
  <2>4. cam[t] = NoSession /\ cam'[t] = u.value /\ s # NoSession
    <3>1. cam[t] = NoSession  BY <2>3, SoundNow DEF Sound
    <3> QED  BY <1>2, <1>6, <1>7, <3>1, Sessions
  <2>5. /\ Sound(s, t) /\ Written(s, t) \in Nat /\ Going(s, t) \in Nat
        /\ Entering(t) \in Nat /\ Replied(t) \in Nat
    BY SoundNow
  <2>6. Written(s, t) + Going(s, t) = 0  BY <2>4, <2>5 DEF Sound
  <2>7. Written(s, t)' + Going(s, t)' = IF cam'[t] = s THEN 1 ELSE 0
    <3>1. CASE u.value = s  BY <1>3, <1>7, <2>4, <2>5, <2>6, <3>1
    <3>2. CASE u.value # s  BY <1>3, <1>7, <2>4, <2>5, <2>6, <3>2
    <3> QED  BY <3>1, <3>2
  <2>8. Entering(t)' = Entering(t) - 1 /\ Replied(t)' = Replied(t) + 1  BY <1>3, <1>7
  <2>9. Entering(t)' + Replied(t)' = Entering(t) + Replied(t) /\ Entering(t)' + 1 <= 1
    <3>1. Entering(t) <= 1  BY <2>4, <2>5 DEF Sound
    <3>2. Entering(t) \in Nat /\ Replied(t) \in Nat  BY <2>5
    <3> QED  BY <2>8, <3>1, <3>2
  <2> QED  BY <1>1, <1>4, <2>4, <2>5, <2>7, <2>8, <2>9 DEF Sound
<1>8. CASE u.key # t
  <2>1. cam'[t] = cam[t]  BY <1>2, <1>6, <1>8
  <2>2. /\ Written(s, t)' = Written(s, t) + 0 /\ Entering(t)' = Entering(t) - 0
        /\ Replied(t)' = Replied(t) + 0
    BY <1>3, <1>8
  <2>3. /\ Written(s, t)' = Written(s, t) /\ Entering(t)' = Entering(t)
        /\ Replied(t)' = Replied(t)
    BY <2>2, SoundNow
  <2>4. cam'[t] = cam[t] /\ Going(s, t)' = Going(s, t)
        /\ UNCHANGED <<slc_fsmState, slc_insertTuples>>
    BY <1>1, <1>3, <2>1
  <2>5. Sound(s, t)  BY SoundNow
  <2> QED  BY <2>3, <2>4, <2>5 DEF Sound
<1> QED  BY <1>7, <1>8

\* A delete finds its session in the CAM.
LEMMA CamDeleteSound ==
    ASSUME DirInv, CamUpdate, ~IsInsert(Head(update_req)), NEW s \in Session, NEW t \in Tuple
    PROVE  Sound(s, t)'
<1> DEFINE u == Head(update_req)
<1>1. /\ update_req # <<>> /\ cam' = CamWith(cam, u) /\ UNCHANGED <<slc_fsmState, slc_insertTuples>>
  BY DEF CamUpdate, handlerVars
<1>2. TypeInv /\ cam \in [Tuple -> Session \cup {NoSession}] /\ update_req \in Seq(Update)
  BY QueueSeqs DEF DirInv, IInv
<1>3. /\ u \in Deletion
      /\ Written(s, t)' = Written(s, t)
      /\ Going(s, t)' = Going(s, t) - (IF u.value = s /\ u.key = t THEN 1 ELSE 0)
      /\ Entering(t)' = Entering(t) /\ Replied(t)' = Replied(t)
  BY <1>2, CamDeletePair
<1>4. u.value \in Session /\ u.key \in Tuple  BY <1>3 DEF Deletion, Update
<1>5. 1 \in DOMAIN update_req /\ u = update_req[1]  BY <1>1, <1>2, EmptySeq, LenProperties
<1>6. cam' = [cam EXCEPT ![u.key] = NoSession]
  BY <1>1, <1>3 DEF CamWith, Deletion
<1> HIDE DEF u
<1>7. CASE u.key = t
  <2>1. u \in DeleteOf(u.value, t)  BY <1>3, <1>7 DEF DeleteOf, Deletion, IsInsert
  <2>2. Among(DeleteOf(u.value, t), update_req) # 0  BY <1>2, <1>5, <2>1, AmongZero
  <2>3. Going(u.value, t) # 0  BY <1>2, <2>2, Numbers DEF Going
  <2>4. cam[t] = u.value
    <3>1. Written(u.value, t) + Going(u.value, t) # 0  BY <1>4, <2>3, SoundNow
    <3> QED  BY <1>4, <3>1, SoundNow DEF Sound
  <2>5. cam'[t] = NoSession /\ s # NoSession /\ u.value # NoSession
    BY <1>2, <1>4, <1>6, <1>7, Sessions
  <2> QED  BY <1>1, <1>3, <1>7, <2>4, <2>5, SoundNow DEF Sound
<1>8. CASE u.key # t
  <2>1. cam'[t] = cam[t]  BY <1>2, <1>6, <1>8
  <2> QED  BY <1>1, <1>3, <1>8, <2>1, SoundNow DEF Sound
<1> QED  BY <1>7, <1>8

LEMMA SoundNext ==
    ASSUME DirInv, [Next]_vars, NEW s \in Session, NEW t \in Tuple
    PROVE  Sound(s, t)'
<1>1. ASSUME UNCHANGED <<handlerVars, updateVars, reverseVars, cam>> PROVE Sound(s, t)'
  <2>1. /\ Written(s, t)' = Written(s, t) /\ Going(s, t)' = Going(s, t)
        /\ Entering(t)' = Entering(t) /\ Replied(t)' = Replied(t)
    BY <1>1, QuietPair
  <2> QED  BY <1>1, <2>1, SameSound DEF handlerVars
<1>2. CASE ReturnId \/ NewId \/ CamLookup  BY <1>1, <1>2 DEF ReturnId, NewId, CamLookup
<1>3. ASSUME NEW x \in TxTuple, TxLookup(x) PROVE Sound(s, t)'
  BY <1>3, IdleSound DEF TxLookup, AskCam
<1>4. ASSUME NEW x \in RxTuple, NEW creation \in BOOLEAN, RxLookup(x, creation) PROVE Sound(s, t)'
  BY <1>4, IdleSound DEF RxLookup, AskCam
<1>5. CASE PassAnswer  BY <1>5, IdleSound DEF PassAnswer
<1>6. CASE UNCHANGED vars  BY <1>1, <1>6 DEF vars
<1> QED
  BY <1>2, <1>3, <1>4, <1>5, <1>6, CreateSound, AnswerSound, SenderSound, InsertReverseSound,
     ReleaseSound, CamInsertSound, CamDeleteSound
  DEF Next

LEMMA DirInit == ASSUME Init PROVE DirInv
<1>1. IInv  BY InitType, InitConserved DEF IInv
<1>2. Handler  BY EmptySeq DEF Init, Handler
<1>3. ASSUME NEW s \in Session, NEW t \in Tuple PROVE Sound(s, t)
  <2>1. /\ insert_req = <<>> /\ delete_req = <<>> /\ update_req = <<>> /\ update_rsp = <<>>
        /\ insert_rsp = <<>> /\ reverseInsert = <<>> /\ ~tupleValid[s] /\ cam[t] = NoSession
        /\ slc_fsmState = "LUP_REQ"
    BY DEF Init
  <2>2. Written(s, t) = 0 /\ Going(s, t) = 0 /\ Entering(t) = 0 /\ Replied(t) = 0
    BY <2>1, AmongEmpty DEF Written, Going, Entering, Replied
  <2>3. s # NoSession  BY Sessions
  <2> QED  BY <2>1, <2>2, <2>3 DEF Sound
<1>4. \E s \in Session : TRUE  BY SessionLookupAssumption DEF Session
<1>5. Bonds  BY <1>3 DEF Bonds, Sound
<1>6. Single /\ Created  BY <1>3, <1>4 DEF Single, Created, Sound
<1> QED  BY <1>1, <1>2, <1>5, <1>6 DEF DirInv

LEMMA DirNext == ASSUME DirInv, [Next]_vars PROVE DirInv'
<1>1. IInv'  BY NextType, NextConserved DEF DirInv, IInv
<1>2. \E s \in Session : TRUE  BY SessionLookupAssumption DEF Session
<1>3. \A s \in Session, t \in Tuple : Sound(s, t)'  BY SoundNext
<1>4. Bonds'  BY <1>3 DEF Bonds, Sound
<1>5. Single' /\ Created'  BY <1>2, <1>3 DEF Single, Created, Sound
<1> QED  BY <1>1, <1>4, <1>5, HandlerNext DEF DirInv

\* The invariant holds: what the CAM, the reverse table and the queues know of
\* each session and tuple fits together in every reachable state.
THEOREM DirInvariance == Spec => []DirInv
BY DirInit, DirNext, PTL DEF Spec

-----------------------------------------------------------------------------
(***************************************************************************)
(* The tuple a session belongs to                                          *)
(***************************************************************************)
Held(s, t) == Coming(s, t) + Written(s, t)

LEMMA AmongSubset ==
    ASSUME NEW S, NEW q \in Seq(S), NEW T, NEW T1, T1 \subseteq T
    PROVE  Among(T1, q) <= Among(T, q)
<1>1. Among(T1, q) + Among({}, q) <= Among(T, q)  BY AmongDisjoint
<1>2. Among(T1, q) \in Nat /\ Among({}, q) \in Nat /\ Among(T, q) \in Nat  BY AmongType
<1> QED  BY <1>1, <1>2

LEMMA HeldType == ASSUME TypeInv, NEW s, NEW t PROVE Held(s, t) \in Nat
BY PairTypes DEF Held

LEMMA SumZero ==
    ASSUME NEW a \in Nat, NEW b \in Nat, NEW c \in Nat, NEW d \in Nat, NEW e \in Nat, NEW f \in Nat
    PROVE  a + b + (c + d + e + f) # 0 <=> a # 0 \/ b # 0 \/ c # 0 \/ d # 0 \/ e # 0 \/ f # 0
OBVIOUS

LEMMA HeldMembers ==
    ASSUME TypeInv, NEW s \in Session, NEW t \in Tuple
    PROVE  Held(s, t) # 0 <=> (tupleValid[s] /\ reverseLookupTable[s] = t) \/ t \in Inserting(s)
<1> DEFINE Has(q) == \E i \in DOMAIN q : q[i] \in InsertOf(s, t)
           Row == \E i \in DOMAIN reverseInsert : reverseInsert[i] \in Entry(s, t)
<1>1. t \in Inserting(s) <=> Has(insert_req) \/ Has(update_req) \/ Has(update_rsp)
                               \/ Has(insert_rsp) \/ Row
  <2>1. ASSUME NEW q PROVE (\E u \in InsertsOf(s) \cap ToSet(q) : u.key = t) <=> Has(q)
    BY DEF InsertsOf, InsertOf, ToSet
  <2>2. (\E i \in {j \in ToSet(reverseInsert) : j.key = s} : i.value = t) <=> Row
    <3> DEFINE R == [key : Session, value : Tuple]
    <3>1. \A i \in DOMAIN reverseInsert : reverseInsert[i] \in R
      <4>1. reverseInsert \in Seq(R)  BY QueueSeqs
      <4> HIDE DEF R
      <4> QED  BY <4>1, ElementOfSeq, LenProperties
    <3>2. \A i \in DOMAIN reverseInsert :
             reverseInsert[i] \in Entry(s, t) <=>
                reverseInsert[i].key = s /\ reverseInsert[i].value = t
      BY <3>1 DEF Entry, Entries
    <3> QED  BY <3>2 DEF ToSet
  <2> HIDE DEF Has, Row
  <2>3. t \in Inserting(s) <=>
           \/ \E u \in InsertsOf(s) \cap UNION {ToSet(insert_req), ToSet(update_req),
                                                ToSet(update_rsp), ToSet(insert_rsp)} : u.key = t
           \/ \E i \in {j \in ToSet(reverseInsert) : j.key = s} : i.value = t
    BY DEF Inserting
  <2>4. (\E u \in InsertsOf(s) \cap UNION {ToSet(insert_req), ToSet(update_req),
                                           ToSet(update_rsp), ToSet(insert_rsp)} : u.key = t)
           <=> \/ \E u \in InsertsOf(s) \cap ToSet(insert_req) : u.key = t
               \/ \E u \in InsertsOf(s) \cap ToSet(update_req) : u.key = t
               \/ \E u \in InsertsOf(s) \cap ToSet(update_rsp) : u.key = t
               \/ \E u \in InsertsOf(s) \cap ToSet(insert_rsp) : u.key = t
    OBVIOUS
  <2> QED  BY <2>1, <2>2, <2>3, <2>4
<1>2. /\ Among(InsertOf(s, t), insert_req) # 0 <=> Has(insert_req)
      /\ Among(InsertOf(s, t), update_req) # 0 <=> Has(update_req)
      /\ Among(InsertOf(s, t), update_rsp) # 0 <=> Has(update_rsp)
      /\ Among(InsertOf(s, t), insert_rsp) # 0 <=> Has(insert_rsp)
      /\ Among(Entry(s, t), reverseInsert) # 0 <=> Row
  BY QueueSeqs, AmongZero
<1> HIDE DEF Has, Row
<1>3. /\ Among(InsertOf(s, t), insert_req) \in Nat /\ Among(InsertOf(s, t), update_req) \in Nat
      /\ Among(InsertOf(s, t), update_rsp) \in Nat /\ Among(InsertOf(s, t), insert_rsp) \in Nat
      /\ Among(Entry(s, t), reverseInsert) \in Nat
  BY Numbers
<1>4. Held(s, t) # 0 <=>
         \/ Among(InsertOf(s, t), insert_req) # 0 \/ Among(InsertOf(s, t), update_req) # 0
         \/ Among(InsertOf(s, t), update_rsp) # 0 \/ Among(InsertOf(s, t), insert_rsp) # 0
         \/ Among(Entry(s, t), reverseInsert) # 0
         \/ tupleValid[s] /\ reverseLookupTable[s] = t
  <2> DEFINE v == IF tupleValid[s] /\ reverseLookupTable[s] = t THEN 1 ELSE 0
  <2>1. v \in Nat /\ (v # 0 <=> tupleValid[s] /\ reverseLookupTable[s] = t)  OBVIOUS
  <2>2. Held(s, t) = Among(InsertOf(s, t), insert_req) + Among(InsertOf(s, t), update_req)
                       + (Among(InsertOf(s, t), update_rsp) + Among(InsertOf(s, t), insert_rsp)
                       + Among(Entry(s, t), reverseInsert) + v)
    BY DEF Held, Coming, Written
  <2> DEFINE a == Among(InsertOf(s, t), insert_req)
             b == Among(InsertOf(s, t), update_req)
             c == Among(InsertOf(s, t), update_rsp)
             d == Among(InsertOf(s, t), insert_rsp)
             e == Among(Entry(s, t), reverseInsert)
  <2>3. a \in Nat /\ b \in Nat /\ c \in Nat /\ d \in Nat /\ e \in Nat  BY <1>3
  <2>4. Held(s, t) = a + b + (c + d + e + v)  BY <2>2
  <2> HIDE DEF a, b, c, d, e, v
  <2>5. Held(s, t) # 0 <=> a # 0 \/ b # 0 \/ c # 0 \/ d # 0 \/ e # 0 \/ v # 0
    <3>1. a + b + (c + d + e + v) # 0 <=> a # 0 \/ b # 0 \/ c # 0 \/ d # 0 \/ e # 0 \/ v # 0
      BY <2>1, <2>3, SumZero
    <3> QED  BY <2>4, <3>1
  <2> QED  BY <2>1, <2>5 DEF a, b, c, d, e
<1> QED  BY <1>1, <1>2, <1>4

\* A session belongs to one tuple, and to none when its ID is free.
LEMMA HeldPlaces ==
    ASSUME IInv, NEW s \in Session, NEW t1, NEW t2, t1 # t2
    PROVE  Held(s, t1) + Held(s, t2) + Among({s}, freeList) + Among(Updates(s), delete_req) <= 1
<1>1. TypeInv /\ Places(s) <= 1  BY DEF IInv, IdsConserved
<1> DEFINE v(t) == IF tupleValid[s] /\ reverseLookupTable[s] = t THEN 1 ELSE 0
           w == IF tupleValid[s] THEN 1 ELSE 0
<1>2. v(t1) + v(t2) <= w /\ v(t1) \in Nat /\ v(t2) \in Nat /\ w \in Nat  OBVIOUS
<1>3. /\ InsertOf(s, t1) \cap InsertOf(s, t2) = {}
      /\ InsertOf(s, t1) \cup InsertOf(s, t2) \subseteq InsertsOf(s)
      /\ Entry(s, t1) \cap Entry(s, t2) = {} /\ Entry(s, t1) \cup Entry(s, t2) \subseteq Entries(s)
  BY DEF InsertOf, InsertsOf, Entry, Entries
<1>4. /\ Among(InsertOf(s, t1), insert_req) + Among(InsertOf(s, t2), insert_req)
             <= Among(InsertsOf(s), insert_req)
      /\ Among(InsertOf(s, t1), update_req) + Among(InsertOf(s, t2), update_req)
             <= Among(InsertsOf(s), update_req)
      /\ Among(InsertOf(s, t1), update_rsp) + Among(InsertOf(s, t2), update_rsp)
             <= Among(InsertsOf(s), update_rsp)
      /\ Among(InsertOf(s, t1), insert_rsp) + Among(InsertOf(s, t2), insert_rsp)
             <= Among(InsertsOf(s), insert_rsp)
      /\ Among(Entry(s, t1), reverseInsert) + Among(Entry(s, t2), reverseInsert)
             <= Among(Entries(s), reverseInsert)
  BY <1>1, <1>3, QueueSeqs, AmongDisjoint
<1>5. \A t : /\ Among(InsertOf(s, t), insert_req) \in Nat /\ Among(InsertOf(s, t), update_req) \in Nat
             /\ Among(InsertOf(s, t), update_rsp) \in Nat /\ Among(InsertOf(s, t), insert_rsp) \in Nat
             /\ Among(Entry(s, t), reverseInsert) \in Nat
  BY <1>1, Numbers
<1>6. /\ Among({s}, freeList) \in Nat /\ Among({s}, fin) \in Nat
      /\ Among(Updates(s), delete_req) \in Nat
      /\ Among(InsertsOf(s), insert_req) \in Nat /\ Among(InsertsOf(s), update_req) \in Nat
      /\ Among(InsertsOf(s), update_rsp) \in Nat /\ Among(InsertsOf(s), insert_rsp) \in Nat
      /\ Among(Entries(s), reverseInsert) \in Nat
  BY <1>1, PartsType
<1>7. \A t : Held(s, t) = Among(InsertOf(s, t), insert_req) + Among(InsertOf(s, t), update_req)
                            + (Among(InsertOf(s, t), update_rsp) + Among(InsertOf(s, t), insert_rsp)
                            + Among(Entry(s, t), reverseInsert) + v(t))
  BY DEF Held, Coming, Written
<1>8. Places(s) = Among({s}, freeList) + Among({s}, fin) + Among(Updates(s), delete_req)
        + Among(InsertsOf(s), insert_req) + Among(InsertsOf(s), update_req)
        + Among(InsertsOf(s), update_rsp) + Among(InsertsOf(s), insert_rsp)
        + Among(Entries(s), reverseInsert) + w
  BY DEF Places
<1> HIDE DEF v, w
<1>9. Held(s, t1) + Held(s, t2) <=
         Among(InsertsOf(s), insert_req) + Among(InsertsOf(s), update_req)
        + Among(InsertsOf(s), update_rsp) + Among(InsertsOf(s), insert_rsp)
        + Among(Entries(s), reverseInsert) + w
  BY <1>2, <1>4, <1>5, <1>6, <1>7
<1>10. Held(s, t1) \in Nat /\ Held(s, t2) \in Nat  BY <1>1, HeldType
<1> QED  BY <1>1, <1>2, <1>6, <1>8, <1>9, <1>10

\* The sessions in use, as CountExact counts them.
Used == {s \in Session : tupleValid[s] \/ Inserting(s) # {}}

\* Owner, as the places of the tuples tell it.
OwnerHolds ==
    /\ Owner \in [Session -> Tuple \cup {NoTuple}]
    /\ \A s \in Session, t \in Tuple : Owner[s] = t <=> Held(s, t) # 0
    /\ Used = {s \in Session : Owner[s] # NoTuple}

LEMMA InsertingTuples ==
    ASSUME TypeInv, NEW s \in Session PROVE Inserting(s) \subseteq Tuple
<1> DEFINE R == [key : Session, value : Tuple]
<1>1. \A i \in DOMAIN reverseInsert : reverseInsert[i] \in R
  <2>1. reverseInsert \in Seq(R)  BY QueueSeqs
  <2> HIDE DEF R
  <2> QED  BY <2>1, ElementOfSeq, LenProperties
<1>2. \A u \in InsertsOf(s) : u.key \in Tuple  BY DEF InsertsOf, Update
<1> QED  BY <1>1, <1>2 DEF Inserting, ToSet

LEMMA HeldOnce ==
    ASSUME IInv, NEW s \in Session, NEW t1 \in Tuple, NEW t2 \in Tuple,
           Held(s, t1) # 0, Held(s, t2) # 0
    PROVE  t1 = t2
<1>1. TypeInv  BY DEF IInv
<1>2. Held(s, t1) \in Nat /\ Held(s, t2) \in Nat /\ Among({s}, freeList) \in Nat
      /\ Among(Updates(s), delete_req) \in Nat
  BY <1>1, HeldType, PartsType
<1> QED  BY <1>2, HeldPlaces

LEMMA OwnerIs == ASSUME IInv PROVE OwnerHolds
<1>1. TypeInv  BY DEF IInv
<1>2. ASSUME NEW s \in Session
      PROVE  /\ Owner[s] \in Tuple \cup {NoTuple}
             /\ tupleValid[s] \/ Inserting(s) # {} <=> Owner[s] # NoTuple
             /\ \A t \in Tuple : Owner[s] = t <=> Held(s, t) # 0
  <2>1. Owner[s] = IF tupleValid[s] THEN reverseLookupTable[s]
                   ELSE IF Inserting(s) # {} THEN CHOOSE t \in Inserting(s) : TRUE ELSE NoTuple
    BY DEF Owner
  <2>2. CASE tupleValid[s]
    <3>1. Owner[s] \in Tuple  BY <1>1, <2>1, <2>2 DEF TypeInv
    <3>2. Held(s, Owner[s]) # 0  BY <1>1, <2>1, <2>2, <3>1, HeldMembers
    <3> QED  BY <2>2, <3>1, <3>2, HeldOnce, NoTupleAssumption
  <2>3. CASE ~tupleValid[s] /\ Inserting(s) # {}
    <3>1. Owner[s] \in Inserting(s)
      <4>1. Owner[s] = CHOOSE t \in Inserting(s) : TRUE  BY <2>1, <2>3
      <4> QED  BY <2>3, <4>1
    <3>2. Owner[s] \in Tuple  BY <1>1, <3>1, InsertingTuples
    <3>3. Held(s, Owner[s]) # 0  BY <1>1, <3>1, <3>2, HeldMembers
    <3> QED  BY <2>3, <3>2, <3>3, HeldOnce, NoTupleAssumption
  <2>4. CASE ~tupleValid[s] /\ Inserting(s) = {}
    <3>1. Owner[s] = NoTuple /\ NoTuple \notin Tuple  BY <2>1, <2>4, NoTupleAssumption
    <3>2. \A t \in Tuple : Held(s, t) = 0  BY <1>1, <2>4, HeldMembers
    <3> QED  BY <2>4, <3>1, <3>2
  <2> QED  BY <2>2, <2>3, <2>4
<1>3. Owner = [s \in Session |-> Owner[s]]  BY DEF Owner
<1> QED  BY <1>2, <1>3 DEF OwnerHolds, Used

-----------------------------------------------------------------------------
(***************************************************************************)
(* The CAM and the reverse table                                           *)
(***************************************************************************)
LEMMA UnderWayCounts ==
    ASSUME TypeInv
    PROVE  /\ UnderWay \in Seq(Update)
           /\ \A s, t : /\ Among(InsertFor(t), UnderWay) = Entering(t)
                        /\ Among(InsertOf(s, t), UnderWay) = Coming(s, t)
                        /\ Among(DeleteOf(s, t), UnderWay) = Going(s, t)
<1>1. /\ insert_req \in Seq(Insertion) /\ delete_req \in Seq(Deletion)
      /\ update_req \in Seq(Update)
  BY QueueSeqs
<1>2. insert_req \in Seq(Update) /\ delete_req \in Seq(Update)  BY DEF TypeInv, TypeOK
<1>3. update_req \o insert_req \in Seq(Update)  BY <1>1, <1>2, ConcatProperties
<1>4. UnderWay \in Seq(Update)  BY <1>2, <1>3, ConcatProperties DEF UnderWay
<1>5. ASSUME NEW T
      PROVE  Among(T, UnderWay) = Among(T, update_req) + Among(T, insert_req) + Among(T, delete_req)
  <2>1. Among(T, update_req \o insert_req) = Among(T, update_req) + Among(T, insert_req)
    BY <1>1, <1>2, AmongConcat
  <2>2. Among(T, UnderWay) = Among(T, update_req \o insert_req) + Among(T, delete_req)
    BY <1>2, <1>3, AmongConcat DEF UnderWay
  <2> QED  BY <2>1, <2>2
<1>6. ASSUME NEW s, NEW t
      PROVE  /\ Among(InsertFor(t), delete_req) = 0 /\ Among(InsertOf(s, t), delete_req) = 0
             /\ Among(DeleteOf(s, t), insert_req) = 0
  <2>1. \A i \in DOMAIN delete_req : delete_req[i] \in Deletion
    BY <1>1, ElementOfSeq, LenProperties
  <2>2. \A i \in DOMAIN insert_req : insert_req[i] \in Insertion
    BY <1>1, ElementOfSeq, LenProperties
  <2>3. /\ InsertFor(t) \cap Deletion = {} /\ InsertOf(s, t) \cap Deletion = {}
        /\ DeleteOf(s, t) \cap Insertion = {}
    BY DEF InsertFor, InsertOf, DeleteOf, Deletion, Insertion, IsInsert
  <2> QED  BY <1>1, <2>1, <2>2, <2>3, AmongZero
<1>7. ASSUME NEW s, NEW t
      PROVE  /\ Among(InsertFor(t), UnderWay) = Entering(t)
             /\ Among(InsertOf(s, t), UnderWay) = Coming(s, t)
             /\ Among(DeleteOf(s, t), UnderWay) = Going(s, t)
  BY <1>5, <1>6, Numbers DEF Entering, Coming, Going
<1> QED  BY <1>4, <1>7

\* What an update under way says of the CAM: an insert finds its tuple free,
\* a delete finds its session.
LEMMA UpdateUnderWay ==
    ASSUME DirInv, NEW t \in Tuple, NEW i \in UpdatesOf(t)
    PROVE  LET u == UnderWay[i]
           IN  /\ i \in DOMAIN UnderWay /\ u \in Update /\ u.key = t /\ u.value \in Session
               /\ IsInsert(u) => /\ cam[t] = NoSession /\ Entering(t) = 1
                                 /\ u \in InsertFor(t) /\ Coming(u.value, t) # 0
               /\ ~IsInsert(u) => /\ cam[t] = u.value /\ Going(u.value, t) = 1
                                  /\ u \in DeleteOf(u.value, t)
<1> DEFINE u == UnderWay[i]
<1>1. TypeInv  BY DEF DirInv, IInv
<1>2. i \in DOMAIN UnderWay /\ u.key = t  BY DEF UpdatesOf
<1>3. UnderWay \in Seq(Update)  BY <1>1, UnderWayCounts
<1>4. u \in Update  BY <1>2, <1>3, ElementOfSeq, LenProperties
<1>5. u.value \in Session  BY <1>4 DEF Update
<1>6. ASSUME IsInsert(u)
      PROVE  /\ cam[t] = NoSession /\ Entering(t) = 1
             /\ u \in InsertFor(t) /\ Coming(u.value, t) # 0
  <2>1. u \in InsertFor(t) /\ u \in InsertOf(u.value, t)  BY <1>2, <1>4, <1>6 DEF InsertFor, InsertOf
  <2> HIDE DEF u
  <2>2. Among(InsertFor(t), UnderWay) # 0 /\ Among(InsertOf(u.value, t), UnderWay) # 0
    BY <1>2, <1>3, <2>1, AmongZero DEF u
  <2>3. Entering(t) # 0 /\ Coming(u.value, t) # 0  BY <1>1, <2>2, UnderWayCounts
  <2>4. cam[t] = NoSession /\ Entering(t) = 1  BY <1>5, <2>3, SoundNow DEF Sound
  <2> QED  BY <2>1, <2>3, <2>4
<1>7. ASSUME ~IsInsert(u)
      PROVE  cam[t] = u.value /\ Going(u.value, t) = 1 /\ u \in DeleteOf(u.value, t)
  <2>1. u \in DeleteOf(u.value, t)  BY <1>2, <1>4, <1>7 DEF DeleteOf
  <2> HIDE DEF u
  <2>2. Among(DeleteOf(u.value, t), UnderWay) # 0  BY <1>2, <1>3, <2>1, AmongZero DEF u
  <2>3. Going(u.value, t) # 0  BY <1>1, <2>2, UnderWayCounts
  <2>4. /\ Sound(u.value, t) /\ Written(u.value, t) \in Nat /\ Going(u.value, t) \in Nat
    BY <1>5, SoundNow
  <2>5. cam[t] = u.value /\ Going(u.value, t) = 1  BY <2>3, <2>4 DEF Sound
  <2> QED  BY <2>1, <2>5
<1> QED  BY <1>2, <1>4, <1>5, <1>6, <1>7

\* At most one update of a tuple is under way.
LEMMA OneUpdate ==
    ASSUME DirInv, NEW t \in Tuple, NEW i \in UpdatesOf(t), NEW j \in UpdatesOf(t)
    PROVE  i = j
<1> SUFFICES ASSUME i # j PROVE FALSE  OBVIOUS
<1> DEFINE u == UnderWay[i]
           v == UnderWay[j]
<1>1. TypeInv /\ UnderWay \in Seq(Update)  BY UnderWayCounts DEF DirInv, IInv
<1>2. i \in DOMAIN UnderWay /\ j \in DOMAIN UnderWay /\ u.value \in Session /\ v.value \in Session
  BY UpdateUnderWay
<1>3. CASE IsInsert(u) /\ IsInsert(v)
  <2>1. u \in InsertFor(t) /\ v \in InsertFor(t) /\ Entering(t) = 1  BY <1>3, UpdateUnderWay
  <2>2. Among(InsertFor(t), UnderWay) >= 2  BY <1>1, <1>2, <2>1, AmongTwo
  <2> QED  BY <1>1, <2>1, <2>2, UnderWayCounts
<1>4. CASE ~IsInsert(u) /\ ~IsInsert(v)
  <2>1. u \in DeleteOf(cam[t], t) /\ v \in DeleteOf(cam[t], t) /\ Going(cam[t], t) = 1
    BY <1>4, UpdateUnderWay
  <2>2. Among(DeleteOf(cam[t], t), UnderWay) >= 2  BY <1>1, <1>2, <2>1, AmongTwo
  <2> QED  BY <1>1, <2>1, <2>2, UnderWayCounts
<1>5. CASE IsInsert(u) /\ ~IsInsert(v)
  BY <1>2, <1>5, UpdateUnderWay, Sessions
<1>6. CASE ~IsInsert(u) /\ IsInsert(v)
  BY <1>2, <1>6, UpdateUnderWay, Sessions
<1> QED  BY <1>3, <1>4, <1>5, <1>6

LEMMA SettledIs ==
    ASSUME DirInv, NEW t \in Tuple
    PROVE  /\ UpdatesOf(t) = {} => SettledCam[t] = cam[t]
           /\ \A i \in UpdatesOf(t) :
                 SettledCam[t] = IF IsInsert(UnderWay[i]) THEN UnderWay[i].value ELSE NoSession
<1>1. SettledCam[t] = IF UpdatesOf(t) = {} THEN cam[t]
                      ELSE IF IsInsert(UnderWay[Max(UpdatesOf(t))])
                           THEN UnderWay[Max(UpdatesOf(t))].value ELSE NoSession
  BY DEF SettledCam
<1>2. ASSUME NEW i \in UpdatesOf(t) PROVE Max(UpdatesOf(t)) = i
  <2>1. UpdatesOf(t) = {i}  BY OneUpdate
  <2>2. i \in Nat
    <3>1. TypeInv  BY DEF DirInv, IInv
    <3>2. UnderWay \in Seq(Update) /\ i \in DOMAIN UnderWay  BY <3>1, UnderWayCounts, UpdateUnderWay
    <3> QED  BY <3>2, LenProperties
  <2>3. Max({i}) = i  BY <2>2 DEF Max
  <2> QED  BY <2>1, <2>3
<1> QED  BY <1>1, <1>2

LEMMA Agreement == ASSUME DirInv PROVE DirectoriesAgree
<1>1. TypeInv /\ IInv  BY DEF DirInv, IInv
<1>2. ASSUME NEW s \in Session, tupleValid[s]
      PROVE  reverseLookupTable[s] \in Tuple /\ SettledCam[reverseLookupTable[s]] = s
  <2> DEFINE t == reverseLookupTable[s]
  <2>1. t \in Tuple  BY <1>1, <1>2 DEF TypeInv
  <2>2. Written(s, t) # 0
    <3> DEFINE v == IF tupleValid[s] /\ reverseLookupTable[s] = t THEN 1 ELSE 0
    <3>1. v = 1  BY <1>2
    <3>2. Written(s, t) = Among(InsertOf(s, t), update_rsp) + Among(InsertOf(s, t), insert_rsp)
                              + Among(Entry(s, t), reverseInsert) + v
      BY DEF Written
    <3>3. /\ Among(InsertOf(s, t), update_rsp) \in Nat /\ Among(InsertOf(s, t), insert_rsp) \in Nat
          /\ Among(Entry(s, t), reverseInsert) \in Nat
      BY <1>1, Numbers
    <3> HIDE DEF t, v
    <3> QED  BY <3>1, <3>2, <3>3
  <2> HIDE DEF t
  <2>3. Sound(s, t) /\ Written(s, t) \in Nat /\ Going(s, t) \in Nat  BY <2>1, SoundNow
  <2>4. cam[t] = s /\ Going(s, t) = 0  BY <2>2, <2>3 DEF Sound
  <2>5. UpdatesOf(t) = {}
    <3> SUFFICES ASSUME NEW i \in UpdatesOf(t) PROVE FALSE  OBVIOUS
    <3>1. s # NoSession  BY Sessions
    <3>2. /\ IsInsert(UnderWay[i]) => cam[t] = NoSession
          /\ ~IsInsert(UnderWay[i]) => cam[t] = UnderWay[i].value /\ Going(UnderWay[i].value, t) = 1
      BY <2>1, UpdateUnderWay
    <3> QED  BY <2>4, <3>1, <3>2
  <2> QED  BY <2>1, <2>4, <2>5, SettledIs DEF t
<1>3. ASSUME NEW t \in Tuple, SettledCam[t] # NoSession
      PROVE  LET s == SettledCam[t]
             IN  (tupleValid[s] /\ reverseLookupTable[s] = t) \/ Inserting(s) = {t}
  <2> DEFINE s == SettledCam[t]
  <2>1. s \in Session /\ Held(s, t) # 0
    <3>1. CASE UpdatesOf(t) = {}
      <4>1. s = cam[t] /\ s \in Session
        <5>1. cam \in [Tuple -> Session \cup {NoSession}]  BY <1>1, QueueSeqs
        <5> QED  BY <1>3, <3>1, <5>1, SettledIs
      <4> HIDE DEF s
      <4>2. Going(s, t) = 0
        <5>1. UnderWay \in Seq(Update)  BY <1>1, UnderWayCounts
        <5>2. \A i \in DOMAIN UnderWay : UnderWay[i] \notin DeleteOf(s, t)
          BY <3>1 DEF UpdatesOf, DeleteOf
        <5>3. Among(DeleteOf(s, t), UnderWay) = 0  BY <5>1, <5>2, AmongZero
        <5> QED  BY <1>1, <5>3, UnderWayCounts
      <4>3. Written(s, t) = 1 /\ Coming(s, t) \in Nat
        <5>1. /\ Sound(s, t) /\ Written(s, t) \in Nat /\ Coming(s, t) \in Nat
          BY <4>1, SoundNow
        <5> QED  BY <4>1, <4>2, <5>1 DEF Sound
      <4> QED  BY <4>1, <4>3 DEF Held
    <3>2. CASE UpdatesOf(t) # {}
      <4>1. PICK i \in UpdatesOf(t) : TRUE  BY <3>2
      <4>2. s = IF IsInsert(UnderWay[i]) THEN UnderWay[i].value ELSE NoSession  BY SettledIs
      <4>3. s \in Session /\ Coming(s, t) # 0
        <5>1. IsInsert(UnderWay[i]) /\ s = UnderWay[i].value  BY <1>3, <4>2
        <5> QED  BY <5>1, UpdateUnderWay
      <4> HIDE DEF s
      <4>4. Coming(s, t) \in Nat /\ Written(s, t) \in Nat  BY <1>1, PairTypes
      <4> QED  BY <4>3, <4>4 DEF Held
    <3> QED  BY <3>1, <3>2
  <2> HIDE DEF s
  <2>2. (tupleValid[s] /\ reverseLookupTable[s] = t) \/ t \in Inserting(s)
    BY <1>1, <2>1, HeldMembers
  <2>3. ASSUME t \in Inserting(s) PROVE Inserting(s) = {t}
    <3>1. ASSUME NEW x \in Inserting(s) PROVE x = t
      <4>1. x \in Tuple  BY <1>1, <2>1, InsertingTuples
      <4>2. Held(s, x) # 0  BY <1>1, <2>1, <4>1, HeldMembers
      <4> QED  BY <1>1, <2>1, <4>1, <4>2, HeldOnce
    <3> QED  BY <2>3, <3>1
  <2> QED  BY <2>2, <2>3 DEF s
<1>4. ASSUME NEW s \in Session, tupleValid[s]
      PROVE  LET sent == ReverseLookup(s)
             IN  SettledCam[FromRx([src |-> sent.dst, dst |-> sent.src])] = s
  <2>1. reverseLookupTable[s] \in Tuple  BY <1>2, <1>4
  <2>2. [my |-> reverseLookupTable[s].my, their |-> reverseLookupTable[s].their]
            = reverseLookupTable[s]
    BY <2>1 DEF Tuple
  <2> QED  BY <1>2, <1>4, <2>2 DEF ReverseLookup, FromRx
<1> QED  BY <1>3, <1>4 DEF DirectoriesAgree

\* The CAM and the reverse table describe the same connections once the updates
\* under way are done, for any number of sessions, any endpoints and depths.
THEOREM TablesAgree == Spec => []DirectoriesAgree
BY DirInvariance, Agreement, PTL

-----------------------------------------------------------------------------
(***************************************************************************)
(* One directory: each step allocates a session, releases one, or leaves   *)
(* the sessions as they are.                                               *)
(***************************************************************************)
LEMMA SameOwner ==
    ASSUME OwnerHolds, OwnerHolds',
           \A s \in Session, t \in Tuple : Held(s, t)' = Held(s, t)
    PROVE  Owner' = Owner
<1>1. /\ Owner \in [Session -> Tuple \cup {NoTuple}] /\ Owner' \in [Session -> Tuple \cup {NoTuple}]
      /\ \A s \in Session, t \in Tuple : Owner[s] = t <=> Owner'[s] = t
  BY DEF OwnerHolds
<1>2. \A s \in Session : Owner'[s] = Owner[s]  BY <1>1
<1> QED  BY <1>1, <1>2

LEMMA CreateOwner ==
    ASSUME DirInv, OwnerHolds, OwnerHolds', CreateSession
    PROVE  \E s \in Session, t \in Tuple : Directory!Allocate(s, t)
<1>1. TypeInv /\ IInv  BY DEF DirInv, IInv
<1>2. /\ lookup_rsp # <<>> /\ ~Head(lookup_rsp).hit /\ freeList # <<>>
  BY DEF CreateSession
<1>3. PICK s0 \in Session, t0 \in Tuple : s0 = Head(freeList) /\ t0 = Head(slc_queryCache).tuple
  BY <1>1, <1>2, ReplyFacts DEF TypeInv, TypeOK
<1>4. cam[t0] = NoSession /\ Entering(t0) = 0  BY <1>2, <1>3, ReplyFacts DEF DirInv, Handler
<1>5. Among({s0}, freeList) # 0
  <2>1. freeList \in Seq(Session)  BY <1>1 DEF TypeInv, TypeOK
  <2>2. 1 \in DOMAIN freeList /\ freeList[1] \in {s0}  BY <1>2, <1>3, <2>1, EmptySeq, LenProperties
  <2> QED  BY <2>1, <2>2, AmongZero
<1>6. \A s \in Session, t \in Tuple :
         Held(s, t)' = Held(s, t) + (IF s0 = s /\ t0 = t THEN 1 ELSE 0)
  <2>1. \A s \in Session, t \in Tuple :
           /\ Coming(s, t)' = Coming(s, t) + (IF s0 = s /\ t0 = t THEN 1 ELSE 0)
           /\ Written(s, t)' = Written(s, t)
    BY <1>1, <1>3, CreatePair
  <2> TAKE s \in Session, t \in Tuple
  <2> DEFINE d == IF s0 = s /\ t0 = t THEN 1 ELSE 0
  <2>2. Coming(s, t)' = Coming(s, t) + d /\ Written(s, t)' = Written(s, t) /\ d \in Nat  BY <2>1
  <2>3. Coming(s, t) \in Nat /\ Written(s, t) \in Nat  BY <1>1, PairTypes
  <2> HIDE DEF d
  <2>4. Held(s, t)' = Held(s, t) + d  BY <2>2, <2>3 DEF Held
  <2> QED  BY <2>4 DEF d
<1>7. \A t \in Tuple : Held(s0, t) = 0
  <2> TAKE t \in Tuple
  <2>1. Held(s0, t) + Held(s0, NoTuple) + Among({s0}, freeList) + Among(Updates(s0), delete_req) <= 1
    BY <1>1, <1>3, HeldPlaces, NoTupleAssumption
  <2>2. /\ Held(s0, t) \in Nat /\ Held(s0, NoTuple) \in Nat /\ Among({s0}, freeList) \in Nat
        /\ Among(Updates(s0), delete_req) \in Nat
    BY <1>1, <1>3, HeldType, PartsType
  <2> QED  BY <1>5, <2>1, <2>2
<1>8. \A s \in Session : Held(s, t0) = 0
  <2> TAKE s \in Session
  <2>1. Written(s, t0) = 0
    <3>1. /\ Sound(s, t0) /\ Written(s, t0) \in Nat /\ Going(s, t0) \in Nat /\ s # NoSession
      BY <1>3, SoundNow, Sessions
    <3> QED  BY <1>4, <3>1 DEF Sound
  <2>2. Coming(s, t0) = 0
    <3>1. InsertOf(s, t0) \subseteq InsertFor(t0)  BY DEF InsertOf, InsertFor
    <3>2. /\ Among(InsertOf(s, t0), insert_req) <= Among(InsertFor(t0), insert_req)
          /\ Among(InsertOf(s, t0), update_req) <= Among(InsertFor(t0), update_req)
      BY <1>1, <3>1, QueueSeqs, AmongSubset
    <3>3. /\ Among(InsertOf(s, t0), insert_req) \in Nat /\ Among(InsertFor(t0), insert_req) \in Nat
          /\ Among(InsertOf(s, t0), update_req) \in Nat /\ Among(InsertFor(t0), update_req) \in Nat
      BY <1>1, Numbers
    <3> QED  BY <1>4, <3>2, <3>3 DEF Coming, Entering
  <2> QED  BY <2>1, <2>2 DEF Held
<1>9. Owner[s0] = NoTuple /\ \A s \in Session : Owner[s] # t0
  BY <1>3, <1>7, <1>8 DEF OwnerHolds
<1>10. Owner' = [Owner EXCEPT ![s0] = t0]
  <2>1. /\ Owner \in [Session -> Tuple \cup {NoTuple}] /\ Owner' \in [Session -> Tuple \cup {NoTuple}]
        /\ \A s \in Session, t \in Tuple : Owner[s] = t <=> Held(s, t) # 0
        /\ \A s \in Session, t \in Tuple : Owner'[s] = t <=> Held(s, t)' # 0
    BY DEF OwnerHolds
  <2>2. Held(s0, t0)' # 0
    <3>1. Held(s0, t0)' = Held(s0, t0) + (IF s0 = s0 /\ t0 = t0 THEN 1 ELSE 0)  BY <1>3, <1>6
    <3>2. Held(s0, t0) = 0  BY <1>3, <1>7
    <3> QED  BY <3>1, <3>2
  <2>3. Owner'[s0] = t0
    <3>1. Owner'[s0] = t0 <=> Held(s0, t0)' # 0  BY <1>3, <2>1
    <3> QED  BY <2>2, <3>1
  <2>4. ASSUME NEW s \in Session, s # s0 PROVE Owner'[s] = Owner[s]
    <3>1. \A t \in Tuple : Held(s, t)' = Held(s, t) + 0  BY <1>6, <2>4
    <3>2. \A t \in Tuple : Held(s, t)' = Held(s, t)  BY <1>1, <3>1, HeldType
    <3> QED  BY <2>1, <2>4, <3>2
  <2> QED  BY <1>3, <2>1, <2>3, <2>4
<1> QED  BY <1>3, <1>9, <1>10 DEF Directory!Allocate

LEMMA ReleaseOwner ==
    ASSUME DirInv, OwnerHolds, OwnerHolds', NEW r \in Session, Release(r)
    PROVE  IF tupleValid[r] THEN Directory!Release(r) ELSE Owner' = Owner
<1>1. TypeInv /\ IInv  BY DEF DirInv, IInv
<1>2. ASSUME NEW s \in Session, NEW t \in Tuple
      PROVE  Held(s, t)' = Held(s, t)
                  - (IF tupleValid[r] /\ s = r /\ reverseLookupTable[r] = t THEN 1 ELSE 0)
  <2> DEFINE d == IF tupleValid[r] /\ s = r /\ reverseLookupTable[r] = t THEN 1 ELSE 0
  <2>1. Coming(s, t)' = Coming(s, t) /\ Written(s, t)' = Written(s, t) - d /\ d \in Int
    BY <1>1, ReleasePair
  <2>2. Coming(s, t) \in Nat /\ Written(s, t) \in Nat  BY <1>1, PairTypes
  <2> HIDE DEF d
  <2>3. Held(s, t)' = Held(s, t) - d  BY <2>1, <2>2 DEF Held
  <2> QED  BY <2>3 DEF d
<1>3. \A s, t : Held(s, t) \in Nat  BY <1>1, HeldType
<1>4. CASE ~tupleValid[r]
  <2>1. \A s \in Session, t \in Tuple : Held(s, t)' = Held(s, t) - 0  BY <1>2, <1>4
  <2>2. \A s \in Session, t \in Tuple : Held(s, t)' = Held(s, t)  BY <1>3, <2>1
  <2> QED  BY <1>4, <2>2, SameOwner
<1>5. CASE tupleValid[r]
  <2> DEFINE t0 == reverseLookupTable[r]
  <2>1. t0 \in Tuple /\ Held(r, t0) # 0  BY <1>1, <1>5, HeldMembers DEF TypeInv
  <2>2. \A s \in Session, t \in Tuple :
           Held(s, t)' = Held(s, t) - (IF s = r /\ t0 = t THEN 1 ELSE 0)
    BY <1>2, <1>5
  <2> HIDE DEF t0
  <2>3. ASSUME NEW t \in Tuple PROVE Held(r, t)' = 0
    <3>1. CASE t = t0
      <4>1. Held(r, t0) + Held(r, NoTuple) + Among({r}, freeList) + Among(Updates(r), delete_req) <= 1
        BY <1>1, <2>1, HeldPlaces, NoTupleAssumption
      <4>2. Among({r}, freeList) \in Nat /\ Among(Updates(r), delete_req) \in Nat
        BY <1>1, PartsType
      <4>3. Held(r, t0) = 1  BY <1>3, <2>1, <4>1, <4>2
      <4> QED  BY <2>1, <2>2, <3>1, <4>3
    <3>2. CASE t # t0
      <4>1. Held(r, t) = 0  BY <1>1, <2>1, <3>2, HeldOnce
      <4> QED  BY <2>2, <3>2, <4>1
    <3> QED  BY <3>1, <3>2
  <2>4. /\ Owner \in [Session -> Tuple \cup {NoTuple}] /\ Owner' \in [Session -> Tuple \cup {NoTuple}]
        /\ \A s \in Session, t \in Tuple : Owner[s] = t <=> Held(s, t) # 0
        /\ \A s \in Session, t \in Tuple : Owner'[s] = t <=> Held(s, t)' # 0
    BY DEF OwnerHolds
  <2>5. Owner[r] # NoTuple  BY <2>1, <2>4, NoTupleAssumption
  <2>6. Owner'[r] = NoTuple  BY <2>3, <2>4
  <2>7. ASSUME NEW s \in Session, s # r PROVE Owner'[s] = Owner[s]
    <3>1. \A t \in Tuple : Held(s, t)' = Held(s, t) - 0  BY <2>2, <2>7
    <3>2. \A t \in Tuple : Held(s, t)' = Held(s, t)  BY <1>3, <3>1
    <3> QED  BY <2>4, <2>7, <3>2
  <2>8. Owner' = [Owner EXCEPT ![r] = NoTuple]  BY <2>4, <2>6, <2>7
  <2> QED  BY <1>5, <2>5, <2>8 DEF Directory!Release
<1> QED  BY <1>4, <1>5

\* The actions that take no ID and release none.
Moving ==
    \/ ReturnId \/ NewId \/ PassAnswer \/ AnswerCreated
    \/ SendInsert \/ SendDelete \/ TakeUpdateReply \/ InsertReverse
    \/ CamLookup \/ CamUpdate
    \/ \E t \in TxTuple : TxLookup(t)
    \/ \E t \in RxTuple, creation \in BOOLEAN : RxLookup(t, creation)

LEMMA MovingOwner ==
    ASSUME DirInv, OwnerHolds, OwnerHolds', Moving \/ UNCHANGED vars
    PROVE  Owner' = Owner
<1>1. TypeInv /\ IInv  BY DEF DirInv, IInv
<1>2. ASSUME NEW s \in Session, NEW t \in Tuple PROVE Held(s, t)' = Held(s, t)
  <2>1. ASSUME Coming(s, t)' = Coming(s, t), Written(s, t)' = Written(s, t)
        PROVE  Held(s, t)' = Held(s, t)
    BY <2>1 DEF Held
  <2>2. ASSUME UNCHANGED <<updateVars, reverseVars>> PROVE Held(s, t)' = Held(s, t)
    BY <2>1, <2>2, QuietPair
  <2>3. CASE ReturnId \/ NewId  BY <2>2, <2>3 DEF ReturnId, NewId
  <2>4. CASE PassAnswer  BY <2>2, <2>4 DEF PassAnswer
  <2>5. CASE \E x \in TxTuple : TxLookup(x)  BY <2>2, <2>5 DEF TxLookup, AskCam
  <2>6. CASE \E x \in RxTuple, creation \in BOOLEAN : RxLookup(x, creation)
    BY <2>2, <2>6 DEF RxLookup, AskCam
  <2>7. CASE CamLookup  BY <2>2, <2>7 DEF CamLookup
  <2>8. CASE AnswerCreated  BY <1>1, <2>1, <2>8, AnswerKey, AnswerPair
  <2>9. CASE SendInsert  BY <1>1, <2>1, <2>9, SendInsertPair
  <2>10. CASE SendDelete  BY <1>1, <2>1, <2>10, SendDeletePair
  <2>11. CASE TakeUpdateReply  BY <1>1, <2>1, <2>11, TakeReplyPair
  <2>12. CASE InsertReverse  BY <1>1, <2>1, <2>12, InsertReversePair
  <2>13. CASE CamUpdate
    <3> DEFINE u == Head(update_req)
    <3>1. Coming(s, t) \in Nat /\ Written(s, t) \in Nat  BY <1>1, PairTypes
    <3>2. CASE IsInsert(u)
      <4> DEFINE d == IF u.value = s /\ u.key = t THEN 1 ELSE 0
      <4>1. Coming(s, t)' = Coming(s, t) - d /\ Written(s, t)' = Written(s, t) + d /\ d \in Int
        BY <1>1, <2>13, <3>2, CamInsertPair
      <4> HIDE DEF d
      <4> QED  BY <3>1, <4>1 DEF Held
    <3>3. CASE ~IsInsert(u)  BY <1>1, <2>1, <2>13, <3>3, CamDeletePair
    <3> QED  BY <3>2, <3>3
  <2>14. CASE UNCHANGED vars  BY <2>2, <2>14 DEF vars
  <2> QED
    BY <2>3, <2>4, <2>5, <2>6, <2>7, <2>8, <2>9, <2>10, <2>11, <2>12, <2>13, <2>14 DEF Moving
<1> QED  BY <1>2, SameOwner

LEMMA OwnerNext ==
    ASSUME DirInv, OwnerHolds, OwnerHolds', [Next]_vars
    PROVE  [Directory!Next]_Owner
<1>1. CASE CreateSession  BY <1>1, CreateOwner DEF Directory!Next
<1>2. ASSUME NEW r \in Session, Release(r) PROVE [Directory!Next]_Owner
  BY <1>2, ReleaseOwner DEF Directory!Next
<1>3. CASE Moving \/ UNCHANGED vars  BY <1>3, MovingOwner
<1> QED  BY <1>1, <1>2, <1>3 DEF Next, Moving

LEMMA OwnerInit == ASSUME Init PROVE Directory!Init
<1>1. OwnerHolds /\ IInv /\ TypeInv  BY InitType, InitConserved, OwnerIs DEF IInv
<1>2. ASSUME NEW s \in Session, NEW t \in Tuple PROVE Held(s, t) = 0
  <2>1. /\ insert_req = <<>> /\ update_req = <<>> /\ update_rsp = <<>>
        /\ insert_rsp = <<>> /\ reverseInsert = <<>> /\ ~tupleValid[s]
    BY DEF Init
  <2> QED  BY <2>1, AmongEmpty DEF Held, Coming, Written
<1>3. /\ Owner \in [Session -> Tuple \cup {NoTuple}]
      /\ \A s \in Session, t \in Tuple : Owner[s] # t
  BY <1>1, <1>2 DEF OwnerHolds
<1>4. Owner = [s \in Session |-> NoTuple]  BY <1>3
<1> QED  BY <1>4 DEF Directory!Init

\* The five functions and the CAM implement SessionDirectory, for any number of
\* sessions, any endpoints and any depth of the streams: whatever queues the
\* parts of an update are in, a session belongs to one connection at a time and
\* a connection to one session.
THEOREM DirectoryKept == Spec => OneDirectory
<1>1. Init => Directory!Init  BY OwnerInit
<1>2. DirInv => OwnerHolds  BY OwnerIs DEF DirInv
<1>3. DirInv /\ OwnerHolds /\ OwnerHolds' /\ [Next]_vars => [Directory!Next]_Owner  BY OwnerNext
<1> QED  BY <1>1, <1>2, <1>3, DirInvariance, PTL DEF Spec, OneDirectory, Directory!Spec

-----------------------------------------------------------------------------
(***************************************************************************)
(* The number of sessions                                                  *)
(***************************************************************************)
LEMMA SessionsFinite == IsFiniteSet(Session) /\ Cardinality(Session) = MAX_SESSIONS
<1>1. MAX_SESSIONS \in Nat \ {0}  BY SessionLookupAssumption
<1> QED  BY <1>1, FS_Interval DEF Session

LEMMA UsedBound ==
    IsFiniteSet(Used) /\ Cardinality(Used) \in Nat /\ Cardinality(Used) <= MAX_SESSIONS
<1>1. Used \in SUBSET Session  BY DEF Used
<1>2. IsFiniteSet(Used) /\ Cardinality(Used) <= Cardinality(Session)
  BY <1>1, SessionsFinite, FS_Subset
<1> QED  BY <1>2, SessionsFinite, FS_CardinalityType

\* Each session has at most one delete waiting, so there are no more than IDs.
LEMMA DeletesBound == ASSUME IInv PROVE Len(delete_req) \in Nat /\ Len(delete_req) <= MAX_SESSIONS
<1> DEFINE D == 1 .. Len(delete_req)
           f == [i \in D |-> delete_req[i].value]
<1>1. TypeInv /\ delete_req \in Seq(Deletion) /\ delete_req \in Seq(Update)
  BY DEF IInv, TypeInv, TypeOK
<1>2. Len(delete_req) \in Nat /\ DOMAIN delete_req = D  BY <1>1, LenProperties
<1>3. \A i \in D : delete_req[i] \in Update /\ delete_req[i].value \in Session
                     /\ delete_req[i] \in Updates(delete_req[i].value)
  <2> TAKE i \in D
  <2>1. delete_req[i] \in Update  BY <1>1, <1>2, ElementOfSeq
  <2> QED  BY <2>1 DEF Update, Updates
<1>4. f \in [D -> Session]  BY <1>3
<1>5. ASSUME NEW i \in D, NEW j \in D, f[i] = f[j], i # j PROVE FALSE
  <2> DEFINE s == delete_req[i].value
  <2>1. s \in Session /\ delete_req[i] \in Updates(s) /\ delete_req[j] \in Updates(s)
    BY <1>3, <1>5
  <2> HIDE DEF s
  <2>2. Among(Updates(s), delete_req) >= 2  BY <1>1, <1>2, <1>5, <2>1, AmongTwo
  <2>3. Places(s) <= 1  BY <2>1 DEF IInv, IdsConserved
  <2>4. Places(s) >= Among(Updates(s), delete_req)
    <3>1. /\ Among({s}, freeList) \in Nat /\ Among({s}, fin) \in Nat
          /\ Among(Updates(s), delete_req) \in Nat
          /\ Among(InsertsOf(s), insert_req) \in Nat /\ Among(InsertsOf(s), update_req) \in Nat
          /\ Among(InsertsOf(s), update_rsp) \in Nat /\ Among(InsertsOf(s), insert_rsp) \in Nat
          /\ Among(Entries(s), reverseInsert) \in Nat
      BY <1>1, <2>1, PartsType
    <3>2. (IF tupleValid[s] THEN 1 ELSE 0) \in Nat  OBVIOUS
    <3> QED  BY <3>1, <3>2 DEF Places
  <2>5. Among(Updates(s), delete_req) \in Nat  BY <1>1, <2>1, PartsType
  <2>6. Places(s) \in Int  BY <2>1, <2>3 DEF IInv, IdsConserved
  <2> QED  BY <2>2, <2>3, <2>4, <2>5, <2>6
<1>6. f \in Injection(D, Session)  BY <1>4, <1>5 DEF Injection, IsInjective
<1> HIDE DEF f
<1>7. Cardinality(D) <= Cardinality(Session)  BY <1>6, SessionsFinite, FS_Injection
<1>8. Cardinality(D) = Len(delete_req)
  <2>1. Cardinality(D) = IF 1 > Len(delete_req) THEN 0 ELSE Len(delete_req) - 1 + 1
    BY <1>2, FS_Interval
  <2> QED  BY <1>2, <2>1
<1> QED  BY <1>2, <1>7, <1>8, SessionsFinite

LEMMA UsedKept == ASSUME OwnerHolds, OwnerHolds', Owner' = Owner PROVE Used' = Used
BY DEF OwnerHolds

LEMMA UsedGrows ==
    ASSUME OwnerHolds, OwnerHolds', NEW s \in Session, NEW t \in Tuple, Directory!Allocate(s, t)
    PROVE  Cardinality(Used)' = Cardinality(Used) + 1
<1>1. /\ Owner[s] = NoTuple /\ Owner' = [Owner EXCEPT ![s] = t]
      /\ Owner \in [Session -> Tuple \cup {NoTuple}]
      /\ Used = {x \in Session : Owner[x] # NoTuple}
      /\ Used' = {x \in Session : Owner'[x] # NoTuple}
  BY DEF OwnerHolds, Directory!Allocate
<1>2. t # NoTuple  BY NoTupleAssumption
<1>3. s \notin Used /\ Used' = Used \cup {s}  BY <1>1, <1>2
<1>4. Cardinality(Used \cup {s}) = Cardinality(Used) + 1  BY <1>3, UsedBound, FS_AddElement
<1> QED  BY <1>3, <1>4

LEMMA UsedShrinks ==
    ASSUME OwnerHolds, OwnerHolds', NEW s \in Session, Directory!Release(s)
    PROVE  Cardinality(Used)' = Cardinality(Used) - 1
<1>1. /\ Owner[s] # NoTuple /\ Owner' = [Owner EXCEPT ![s] = NoTuple]
      /\ Owner \in [Session -> Tuple \cup {NoTuple}]
      /\ Used = {x \in Session : Owner[x] # NoTuple}
      /\ Used' = {x \in Session : Owner'[x] # NoTuple}
  BY DEF OwnerHolds, Directory!Release
<1>2. s \in Used /\ Used' = Used \ {s}  BY <1>1
<1>3. Cardinality(Used \ {s}) = Cardinality(Used) - 1  BY <1>2, UsedBound, FS_RemoveElement
<1> QED  BY <1>2, <1>3

\* What CountExact counts, each part a number.
LEMMA CountTypes ==
    ASSUME DirInv
    PROVE  /\ usedSessionIDs \in Nat /\ usedSessionIDs <= 65535 /\ Len(insert_req) \in Nat
           /\ Cardinality(Used) \in Nat /\ Cardinality(Used) <= 16383
           /\ Len(delete_req) \in Nat /\ Len(delete_req) <= 16383
           /\ CountExact <=> usedSessionIDs + Len(insert_req) = Cardinality(Used) + Len(delete_req)
           /\ insert_req \in Seq(Update) /\ delete_req \in Seq(Update)
<1>1. TypeInv /\ IInv  BY DEF DirInv, IInv
<1>2. MAX_SESSIONS \in Nat /\ MAX_SESSIONS <= 16383
  <2>1. 2^14 - 1 = 16383  OBVIOUS
  <2> QED  BY <2>1, SessionLookupAssumption
<1>3. insert_req \in Seq(Update) /\ delete_req \in Seq(Update)
  BY <1>1 DEF TypeInv, TypeOK
<1>6. usedSessionIDs \in Nat /\ usedSessionIDs <= 65535
  <2> DEFINE M == 2^16 - 1
  <2>1. usedSessionIDs \in 0 .. M  BY <1>1 DEF TypeInv, TypeOK
  <2>2. M = 65535  OBVIOUS
  <2> HIDE DEF M
  <2> QED  BY <2>1, <2>2
<1>4. Len(insert_req) \in Nat  BY <1>3, LenProperties
<1>5. CountExact <=> usedSessionIDs + Len(insert_req) = Cardinality(Used) + Len(delete_req)
  BY DEF CountExact, Used
<1> QED  BY <1>1, <1>2, <1>3, <1>4, <1>5, <1>6, UsedBound, DeletesBound

LEMMA NoWrap ==
    ASSUME NEW u \in Nat, NEW i \in Nat, NEW c \in Nat, NEW d \in Nat,
           c <= 16383, d <= 16383, u + i = c + d
    PROVE  /\ i > 0 => (u + 1) % 2^16 = u + 1
           /\ i = 0 /\ d > 0 => (u - 1) % 2^16 = u - 1
<1>1. 2^16 = 65536  OBVIOUS
<1>2. i > 0 => (u + 1) % 65536 = u + 1  OBVIOUS
<1>3. i = 0 /\ d > 0 => (u - 1) % 65536 = u - 1  OBVIOUS
<1> QED  BY <1>1, <1>2, <1>3

\* A step that neither allocates nor releases moves a session from one side's
\* queue to the number, and no queue is so long that the 16 bits wrap.
LEMMA MovingCount ==
    ASSUME DirInv, OwnerHolds, OwnerHolds', CountExact, Moving \/ UNCHANGED vars
    PROVE  usedSessionIDs' + Len(insert_req)' = Cardinality(Used)' + Len(delete_req)'
<1> DEFINE u == usedSessionIDs
           i == Len(insert_req)
           c == Cardinality(Used)
           d == Len(delete_req)
<1>1. /\ u \in Nat /\ i \in Nat /\ c \in Nat /\ c <= 16383 /\ d \in Nat /\ d <= 16383
      /\ u + i = c + d
  BY CountTypes
<1>9. /\ i > 0 => (u + 1) % 2^16 = u + 1
      /\ i = 0 /\ d > 0 => (u - 1) % 2^16 = u - 1
  <2> HIDE DEF u, i, c, d
  <2> QED  BY <1>1, NoWrap
<1>2. Cardinality(Used)' = c  BY MovingOwner, UsedKept
<1>3. CASE SendInsert
  <2>1. insert_req # <<>> /\ insert_req' = Tail(insert_req) /\ delete_req' = delete_req
        /\ usedSessionIDs' = (u + 1) % 2^16
    BY <1>3 DEF SendInsert
  <2>2. Len(insert_req)' = i - 1 /\ i > 0  BY <1>1, <2>1, CountTypes, HeadTailProperties, EmptySeq
  <2>3. Len(delete_req)' = d  BY <2>1
  <2>4. usedSessionIDs' = u + 1  BY <1>9, <2>1, <2>2
  <2> HIDE DEF u, i, c, d
  <2> QED  BY <1>1, <1>2, <2>2, <2>3, <2>4
<1>4. CASE SendDelete
  <2>1. insert_req = <<>> /\ insert_req' = <<>> /\ delete_req # <<>>
        /\ delete_req' = Tail(delete_req) /\ usedSessionIDs' = (u - 1) % 2^16
    BY <1>4 DEF SendDelete
  <2>2. Len(delete_req)' = d - 1 /\ d > 0
    <3>1. delete_req \in Seq(Update)  BY CountTypes
    <3>2. Len(Tail(delete_req)) = Len(delete_req) - 1 /\ Len(delete_req) # 0
      BY <2>1, <3>1, HeadTailProperties, EmptySeq
    <3> QED  BY <1>1, <2>1, <3>2
  <2>3. Len(insert_req)' = 0 /\ i = 0  BY <2>1
  <2>4. usedSessionIDs' = u - 1  BY <1>9, <2>1, <2>2, <2>3
  <2> HIDE DEF u, i, c, d
  <2> QED  BY <1>1, <1>2, <2>2, <2>3, <2>4
<1>5. ASSUME UNCHANGED <<usedSessionIDs, insert_req, delete_req>>
      PROVE  usedSessionIDs' + Len(insert_req)' = Cardinality(Used)' + Len(delete_req)'
  <2>1. usedSessionIDs' = u /\ Len(insert_req)' = i /\ Len(delete_req)' = d  BY <1>5
  <2> QED  BY <1>1, <1>2, <2>1
<1>6. CASE UNCHANGED vars  BY <1>5, <1>6 DEF vars, updateVars
<1>7. CASE \/ ReturnId \/ NewId \/ PassAnswer \/ AnswerCreated \/ TakeUpdateReply \/ InsertReverse
           \/ CamLookup \/ CamUpdate
  BY <1>5, <1>7
  DEF ReturnId, NewId, PassAnswer, AnswerCreated, TakeUpdateReply, InsertReverse, CamLookup,
      CamUpdate, updateVars
<1>8. CASE (\E t \in TxTuple : TxLookup(t))
            \/ (\E t \in RxTuple, creation \in BOOLEAN : RxLookup(t, creation))
  BY <1>5, <1>8 DEF TxLookup, RxLookup, AskCam, updateVars
<1> QED  BY <1>3, <1>4, <1>6, <1>7, <1>8 DEF Moving

LEMMA LenAppend == ASSUME NEW q \in Seq(Update), NEW u PROVE Len(Append(q, u)) = Len(q) + 1
OBVIOUS

LEMMA CountNext ==
    ASSUME DirInv, DirInv', OwnerHolds, OwnerHolds', CountExact, [Next]_vars
    PROVE  CountExact'
<1> DEFINE Counted == usedSessionIDs + Len(insert_req) = Cardinality(Used) + Len(delete_req)
<1>0. /\ usedSessionIDs \in Nat /\ Len(insert_req) \in Nat /\ Cardinality(Used) \in Nat
      /\ Len(delete_req) \in Nat /\ Counted
  BY CountTypes
<1>1. ASSUME CreateSession PROVE Counted'
  <2>1. PICK s \in Session, t \in Tuple : Directory!Allocate(s, t)  BY <1>1, CreateOwner
  <2>2. Cardinality(Used)' = Cardinality(Used) + 1  BY <2>1, UsedGrows
  <2>3. \E u : insert_req' = Append(insert_req, u)  BY <1>1 DEF CreateSession
  <2>4. Len(insert_req)' = Len(insert_req) + 1  BY <2>3, CountTypes, LenAppend
  <2>5. UNCHANGED <<usedSessionIDs, delete_req>>  BY <1>1 DEF CreateSession
  <2>6. usedSessionIDs' = usedSessionIDs /\ Len(delete_req)' = Len(delete_req)  BY <2>5
  <2>7. Counted'  BY <1>0, <2>2, <2>4, <2>6
  <2> QED  BY <2>7
<1>2. ASSUME NEW r \in Session, Release(r) PROVE Counted'
  <2>1. UNCHANGED <<usedSessionIDs, insert_req>>  BY <1>2 DEF Release
  <2>2. CASE tupleValid[r]
    <3>1. Cardinality(Used)' = Cardinality(Used) - 1  BY <1>2, <2>2, ReleaseOwner, UsedShrinks
    <3>2. \E u : delete_req' = Append(delete_req, u)  BY <1>2, <2>2 DEF Release
    <3>3. Len(delete_req)' = Len(delete_req) + 1  BY <3>2, CountTypes, LenAppend
    <3> QED  BY <1>0, <2>1, <3>1, <3>3
  <2>3. CASE ~tupleValid[r]
    <3>1. Used' = Used  BY <1>2, <2>3, ReleaseOwner, UsedKept
    <3>2. delete_req' = delete_req  BY <1>2, <2>3 DEF Release
    <3> QED  BY <1>0, <2>1, <3>1, <3>2
  <2> QED  BY <2>2, <2>3
<1>3. ASSUME Moving \/ UNCHANGED vars PROVE Counted'  BY <1>3, MovingCount
<1>4. Counted'
  <2> HIDE DEF Counted
  <2> QED  BY <1>1, <1>2, <1>3 DEF Next, Moving
<1>5. CountExact' <=> Counted'  BY DEF CountExact, Used
<1> QED  BY <1>4, <1>5

LEMMA CountInit == ASSUME Init PROVE CountExact
<1>1. OwnerHolds /\ Directory!Init  BY OwnerInit, InitType, InitConserved, OwnerIs DEF IInv
<1>2. Used = {}  BY <1>1 DEF OwnerHolds, Directory!Init
<1>3. Cardinality(Used) = 0  BY <1>2, FS_EmptySet
<1>4. usedSessionIDs = 0 /\ insert_req = <<>> /\ delete_req = <<>>  BY DEF Init
<1> QED  BY <1>3, <1>4 DEF CountExact, Used

\* The number of sessions software reads is exact, up to the updates that have
\* not been sent, for any number of sessions: it never wraps, because the IDs
\* are conserved and so no more deletes wait than there are sessions.
THEOREM CountKept == Spec => []CountExact
<1>1. Init => CountExact  BY CountInit
<1>2. DirInv => OwnerHolds  BY OwnerIs DEF DirInv
<1>3. CountExact /\ DirInv /\ DirInv' /\ OwnerHolds /\ OwnerHolds' /\ [Next]_vars => CountExact'
  BY CountNext
<1> QED  BY <1>1, <1>2, <1>3, DirInvariance, PTL DEF Spec
=============================================================================
