---------------------------- MODULE SessionLookup ----------------------------
(***************************************************************************)
(* session_lookup_controller (session_lookup_controller.cpp): which        *)
(* session a connection has.                                               *)
(*                                                                         *)
(* Five functions run side by side and are connected by streams:           *)
(*   sessionIdManager             fills the list of free session IDs;      *)
(*   lookupReplyHandler           looks a packet's or the application's    *)
(*                                tuple up, one request at a time, and     *)
(*                                creates a session for an unknown tuple;  *)
(*   updateRequestSender          merges inserts and deletes and counts;   *)
(*   updateReplyHandler           passes on the replies to inserts;        *)
(*   reverseLookupTableInterface  keeps the tuple of every session, and    *)
(*                                frees a session the state table closes.  *)
(* The lookup table itself (the CAM) is outside: it answers lookups and    *)
(* performs updates in its own time, each of the two kinds in order.       *)
(*                                                                         *)
(* The streams of requests from and answers to the other modules are not   *)
(* kept: a request is an action's parameter.                               *)
(***************************************************************************)
EXTENDS Integers, Sequences, SequencesExt, FiniteSets

CONSTANTS
    MAX_SESSIONS,   \* number of session IDs
    Local, Remote,  \* endpoints (address and port) on this side, on the other
    Depth,          \* depth of the streams to and from the CAM
    DeleteDepth,    \* depth of sessionDelete_req
    FinDepth        \* depth of slc_sessionIdFinFifo

ASSUME SessionLookupAssumption ==
    /\ MAX_SESSIONS \in 1 .. 2^14 - 1       \* IDs have 14 bits
    /\ {Depth, DeleteDepth, FinDepth} \subseteq Nat \ {0}

Session == 0 .. MAX_SESSIONS - 1
NoSession == MAX_SESSIONS

\* fourTuple, source and destination as in a packet, and fourTupleInternal.
RxTuple == [src : Remote, dst : Local]
TxTuple == [src : Local, dst : Remote]
Tuple   == [my : Local, their : Remote]

FromRx(t) == [my |-> t.dst, their |-> t.src]
FromTx(t) == [my |-> t.src, their |-> t.dst]

\* The tuples of the sessions that were never used: the value is never read
\* as a session's tuple.
NoTuple == [my |-> "none", their |-> "none"]

ASSUME NoTupleAssumption == NoTuple \notin Tuple

Source == {"RX", "TX_APP"}
Query  == [tuple : Tuple, allowCreation : BOOLEAN, source : Source]
Update == [op : {"INSERT", "DELETE"}, value : Session, key : Tuple, source : Source]

VARIABLES
    counter,            \* sessionIdManager: IDs handed out the first time
    freeList,           \* slc_sessionIdFreeList
    fin,                \* slc_sessionIdFinFifo
    slc_fsmState,       \* lookupReplyHandler: LUP_REQ, LUP_RSP or UPD_RSP
    slc_queryCache, slc_insertTuples,
    lookup_req, lookup_rsp,         \* to and from the CAM
    insert_req, delete_req,         \* to updateRequestSender
    update_req, update_rsp,         \* to and from the CAM
    insert_rsp,                     \* updateReplyHandler to lookupReplyHandler
    reverseInsert,                  \* reverseLupInsertFifo
    reverseLookupTable, tupleValid,
    usedSessionIDs,     \* updateRequestSender, in regSessionCount for software
    cam                 \* the content of the CAM

idVars      == <<counter, freeList, fin>>
handlerVars == <<slc_fsmState, slc_queryCache, slc_insertTuples>>
lookupVars  == <<lookup_req, lookup_rsp>>
updateVars  == <<insert_req, delete_req, update_req, update_rsp, insert_rsp>>
reverseVars == <<reverseInsert, reverseLookupTable, tupleValid>>
vars == <<idVars, handlerVars, lookupVars, updateVars, reverseVars, usedSessionIDs, cam>>

Init ==
    /\ counter = 0 /\ freeList = <<>> /\ fin = <<>>
    /\ slc_fsmState = "LUP_REQ" /\ slc_queryCache = <<>> /\ slc_insertTuples = <<>>
    /\ lookup_req = <<>> /\ lookup_rsp = <<>>
    /\ insert_req = <<>> /\ delete_req = <<>>
    /\ update_req = <<>> /\ update_rsp = <<>> /\ insert_rsp = <<>>
    /\ reverseInsert = <<>>
    /\ reverseLookupTable = [s \in Session |-> NoTuple]
    /\ tupleValid = [s \in Session |-> FALSE]
    /\ usedSessionIDs = 0
    /\ cam = [t \in Tuple |-> NoSession]

-----------------------------------------------------------------------------
(***************************************************************************)
(* sessionIdManager: an ID that comes back first, else one never used.     *)
(* The free list has room for every ID.                                    *)
(***************************************************************************)
ReturnId ==
    /\ fin # <<>>
    /\ freeList' = Append(freeList, Head(fin))
    /\ fin' = Tail(fin)
    /\ UNCHANGED <<counter, handlerVars, lookupVars, updateVars, reverseVars,
                   usedSessionIDs, cam>>

NewId ==
    /\ fin = <<>> /\ counter < MAX_SESSIONS
    /\ freeList' = Append(freeList, counter)
    /\ counter' = counter + 1
    /\ UNCHANGED <<fin, handlerVars, lookupVars, updateVars, reverseVars,
                   usedSessionIDs, cam>>

-----------------------------------------------------------------------------
(***************************************************************************)
(* lookupReplyHandler                                                      *)
(***************************************************************************)
\* LUP_REQ: send a lookup to the CAM and remember what it is for.
AskCam(t, creation, source) ==
    /\ slc_fsmState = "LUP_REQ"
    /\ lookup_req' = Append(lookup_req, [key |-> t, source |-> source])
    /\ slc_queryCache' = Append(slc_queryCache,
            [tuple |-> t, allowCreation |-> creation, source |-> source])
    /\ slc_fsmState' = "LUP_RSP"
    /\ UNCHANGED <<idVars, slc_insertTuples, lookup_rsp, updateVars, reverseVars,
                   usedSessionIDs, cam>>

\* A connection the application opens may always be created ...
TxLookup(t) == AskCam(FromTx(t), TRUE, "TX_APP")

\* ... and one of a packet if the packet is a SYN for an open port.
RxLookup(t, creation) == AskCam(FromRx(t), creation, "RX")

\* Mutant of CreateSession: a session for a tuple that has one.
CreateSessionOnHit ==
    /\ slc_fsmState = "LUP_RSP" /\ lookup_rsp # <<>>
    /\ LET reply == Head(lookup_rsp)
           query == Head(slc_queryCache)
       IN  /\ query.allowCreation /\ freeList # <<>>
           /\ insert_req' = Append(insert_req,
                   [op |-> "INSERT", value |-> Head(freeList), key |-> query.tuple,
                    source |-> reply.source])
           /\ slc_insertTuples' = Append(slc_insertTuples, query.tuple)
    /\ freeList' = Tail(freeList)
    /\ slc_queryCache' = Tail(slc_queryCache)
    /\ lookup_rsp' = Tail(lookup_rsp)
    /\ slc_fsmState' = "UPD_RSP"
    /\ UNCHANGED <<counter, fin, lookup_req, delete_req, update_req, update_rsp,
                   insert_rsp, reverseVars, usedSessionIDs, cam>>

\* LUP_RSP of an unknown tuple: give it a session if it may have one and one
\* is free.
CreateSession ==
    /\ slc_fsmState = "LUP_RSP" /\ lookup_rsp # <<>>
    /\ LET reply == Head(lookup_rsp)
           query == Head(slc_queryCache)
       IN  /\ ~reply.hit /\ query.allowCreation /\ freeList # <<>>
           /\ insert_req' = Append(insert_req,
                   [op |-> "INSERT", value |-> Head(freeList), key |-> query.tuple,
                    source |-> reply.source])
           /\ slc_insertTuples' = Append(slc_insertTuples, query.tuple)
    /\ freeList' = Tail(freeList)
    /\ slc_queryCache' = Tail(slc_queryCache)
    /\ lookup_rsp' = Tail(lookup_rsp)
    /\ slc_fsmState' = "UPD_RSP"
    /\ UNCHANGED <<counter, fin, lookup_req, delete_req, update_req, update_rsp,
                   insert_rsp, reverseVars, usedSessionIDs, cam>>

\* Mutant of PassAnswer: with no free ID the handler waits for one.
PassAnswerWaits ==
    /\ slc_fsmState = "LUP_RSP" /\ lookup_rsp # <<>>
    /\ Head(lookup_rsp).hit \/ ~Head(slc_queryCache).allowCreation
    /\ slc_queryCache' = Tail(slc_queryCache)
    /\ lookup_rsp' = Tail(lookup_rsp)
    /\ slc_fsmState' = "LUP_REQ"
    /\ UNCHANGED <<idVars, slc_insertTuples, lookup_req, updateVars, reverseVars,
                   usedSessionIDs, cam>>

\* LUP_RSP in every other case: pass the CAM's answer on.
PassAnswer ==
    /\ slc_fsmState = "LUP_RSP" /\ lookup_rsp # <<>>
    /\ \/ Head(lookup_rsp).hit
       \/ ~Head(slc_queryCache).allowCreation
       \/ freeList = <<>>
    /\ slc_queryCache' = Tail(slc_queryCache)
    /\ lookup_rsp' = Tail(lookup_rsp)
    /\ slc_fsmState' = "LUP_REQ"
    /\ UNCHANGED <<idVars, slc_insertTuples, lookup_req, updateVars, reverseVars,
                   usedSessionIDs, cam>>

\* Mutant of AnswerCreated: the tuple stays in slc_insertTuples.
AnswerCreatedKeepsTuple ==
    /\ slc_fsmState = "UPD_RSP" /\ insert_rsp # <<>>
    /\ reverseInsert' = Append(reverseInsert,
            [key |-> Head(insert_rsp).value, value |-> Head(slc_insertTuples)])
    /\ insert_rsp' = Tail(insert_rsp)
    /\ slc_fsmState' = "LUP_REQ"
    /\ UNCHANGED <<idVars, slc_queryCache, slc_insertTuples, lookupVars, insert_req,
                   delete_req, update_req, update_rsp, reverseLookupTable, tupleValid,
                   usedSessionIDs, cam>>

\* UPD_RSP: the CAM has the new session; answer the request and have the
\* tuple written into the reverse table.
AnswerCreated ==
    /\ slc_fsmState = "UPD_RSP" /\ insert_rsp # <<>>
    /\ reverseInsert' = Append(reverseInsert,
            [key |-> Head(insert_rsp).value, value |-> Head(slc_insertTuples)])
    /\ insert_rsp' = Tail(insert_rsp)
    /\ slc_insertTuples' = Tail(slc_insertTuples)
    /\ slc_fsmState' = "LUP_REQ"
    /\ UNCHANGED <<idVars, slc_queryCache, lookupVars, insert_req, delete_req, update_req,
                   update_rsp, reverseLookupTable, tupleValid, usedSessionIDs, cam>>

-----------------------------------------------------------------------------
(***************************************************************************)
(* updateRequestSender: inserts before deletes.  The ID of a delete is     *)
(* returned when the delete is sent, not when it has been performed.       *)
(***************************************************************************)
SendInsert ==
    /\ insert_req # <<>> /\ Len(update_req) < Depth
    /\ update_req' = Append(update_req, Head(insert_req))
    /\ insert_req' = Tail(insert_req)
    /\ usedSessionIDs' = (usedSessionIDs + 1) % 2^16
    /\ UNCHANGED <<idVars, handlerVars, lookupVars, delete_req, update_rsp, insert_rsp,
                   reverseVars, cam>>

\* Mutants of SendDelete: the session is not counted off; its ID is not returned.
SendDeleteNoCount ==
    /\ insert_req = <<>>
    /\ delete_req # <<>> /\ Len(update_req) < Depth /\ Len(fin) < FinDepth
    /\ update_req' = Append(update_req, Head(delete_req))
    /\ fin' = Append(fin, Head(delete_req).value)
    /\ delete_req' = Tail(delete_req)
    /\ UNCHANGED <<counter, freeList, handlerVars, lookupVars, insert_req, update_rsp,
                   insert_rsp, reverseVars, usedSessionIDs, cam>>

SendDeleteLosesId ==
    /\ insert_req = <<>>
    /\ delete_req # <<>> /\ Len(update_req) < Depth /\ Len(fin) < FinDepth
    /\ update_req' = Append(update_req, Head(delete_req))
    /\ delete_req' = Tail(delete_req)
    /\ usedSessionIDs' = (usedSessionIDs - 1) % 2^16
    /\ UNCHANGED <<idVars, handlerVars, lookupVars, insert_req, update_rsp, insert_rsp,
                   reverseVars, cam>>

SendDelete ==
    /\ insert_req = <<>>
    /\ delete_req # <<>> /\ Len(update_req) < Depth /\ Len(fin) < FinDepth
    /\ update_req' = Append(update_req, Head(delete_req))
    /\ fin' = Append(fin, Head(delete_req).value)
    /\ delete_req' = Tail(delete_req)
    /\ usedSessionIDs' = (usedSessionIDs - 1) % 2^16
    /\ UNCHANGED <<counter, freeList, handlerVars, lookupVars, insert_req, update_rsp,
                   insert_rsp, reverseVars, cam>>

\* updateReplyHandler: only the replies to inserts are of interest.
TakeUpdateReply ==
    /\ update_rsp # <<>>
    /\ insert_rsp' = IF Head(update_rsp).op = "INSERT"
                     THEN Append(insert_rsp, Head(update_rsp)) ELSE insert_rsp
    /\ update_rsp' = Tail(update_rsp)
    /\ UNCHANGED <<idVars, handlerVars, lookupVars, insert_req, delete_req, update_req,
                   reverseVars, usedSessionIDs, cam>>

-----------------------------------------------------------------------------
(***************************************************************************)
(* reverseLookupTableInterface: inserts before releases.                   *)
(***************************************************************************)
InsertReverse ==
    /\ reverseInsert # <<>>
    /\ LET i == Head(reverseInsert)
       IN  /\ reverseLookupTable' = [reverseLookupTable EXCEPT ![i.key] = i.value]
           /\ tupleValid' = [tupleValid EXCEPT ![i.key] = TRUE]
    /\ reverseInsert' = Tail(reverseInsert)
    /\ UNCHANGED <<idVars, handlerVars, lookupVars, updateVars, usedSessionIDs, cam>>

\* Mutants of Release: a session without a connection is deleted; the session
\* keeps its connection.
ReleaseUnchecked(s) ==
    /\ reverseInsert = <<>> /\ Len(delete_req) < DeleteDepth
    /\ delete_req' = Append(delete_req, [op |-> "DELETE", value |-> s,
                                         key |-> reverseLookupTable[s], source |-> "RX"])
    /\ tupleValid' = [tupleValid EXCEPT ![s] = FALSE]
    /\ UNCHANGED <<idVars, handlerVars, lookupVars, insert_req, update_req, update_rsp,
                   insert_rsp, reverseInsert, reverseLookupTable, usedSessionIDs, cam>>

ReleaseStaysValid(s) ==
    /\ reverseInsert = <<>> /\ Len(delete_req) < DeleteDepth
    /\ tupleValid[s]
    /\ delete_req' = Append(delete_req, [op |-> "DELETE", value |-> s,
                                         key |-> reverseLookupTable[s], source |-> "RX"])
    /\ UNCHANGED <<idVars, handlerVars, lookupVars, insert_req, update_req, update_rsp,
                   insert_rsp, reverseVars, usedSessionIDs, cam>>

\* The state table has closed session s.  It does so more than once for one
\* session, so s may have no connection any more.
Release(s) ==
    /\ reverseInsert = <<>> /\ Len(delete_req) < DeleteDepth
    /\ delete_req' =
           IF tupleValid[s]
           THEN Append(delete_req, [op |-> "DELETE", value |-> s,
                                    key |-> reverseLookupTable[s], source |-> "RX"])
           ELSE delete_req
    /\ tupleValid' = [tupleValid EXCEPT ![s] = FALSE]
    /\ UNCHANGED <<idVars, handlerVars, lookupVars, insert_req, update_req, update_rsp,
                   insert_rsp, reverseInsert, reverseLookupTable, usedSessionIDs, cam>>

\* The addresses the TX engine is given for a packet of session s.
ReverseLookup(s) == [src |-> reverseLookupTable[s].my, dst |-> reverseLookupTable[s].their]

-----------------------------------------------------------------------------
(***************************************************************************)
(* The CAM.                                                                *)
(***************************************************************************)
CamLookup ==
    /\ lookup_req # <<>>
    /\ LET r == Head(lookup_req)
       IN  lookup_rsp' = Append(lookup_rsp,
               [sessionID |-> cam[r.key], hit |-> cam[r.key] # NoSession,
                source |-> r.source])
    /\ lookup_req' = Tail(lookup_req)
    /\ UNCHANGED <<idVars, handlerVars, updateVars, reverseVars, usedSessionIDs, cam>>

\* A content of the CAM with one update performed.
CamWith(content, u) ==
    [content EXCEPT ![u.key] = IF u.op = "INSERT" THEN u.value ELSE NoSession]

CamUpdate ==
    /\ update_req # <<>> /\ Len(update_rsp) < Depth
    /\ cam' = CamWith(cam, Head(update_req))
    /\ update_rsp' = Append(update_rsp, Head(update_req))
    /\ update_req' = Tail(update_req)
    /\ UNCHANGED <<idVars, handlerVars, lookupVars, insert_req, delete_req, insert_rsp,
                   reverseVars, usedSessionIDs>>

-----------------------------------------------------------------------------
Next ==
    \/ ReturnId \/ NewId
    \/ \E t \in TxTuple : TxLookup(t)
    \/ \E t \in RxTuple, creation \in BOOLEAN : RxLookup(t, creation)
    \/ CreateSession \/ PassAnswer \/ AnswerCreated
    \/ SendInsert \/ SendDelete \/ TakeUpdateReply
    \/ InsertReverse
    \/ \E s \in Session : Release(s)
    \/ CamLookup \/ CamUpdate

Spec == Init /\ [][Next]_vars

\* Every function runs in every clock cycle.  A delete can be passed by an
\* insert, but the next insert needs an answer of the CAM first.
Fairness ==
    /\ WF_vars(ReturnId) /\ WF_vars(NewId)
    /\ WF_vars(CreateSession) /\ WF_vars(PassAnswer) /\ WF_vars(AnswerCreated)
    /\ WF_vars(SendInsert) /\ SF_vars(SendDelete) /\ WF_vars(TakeUpdateReply)
    /\ WF_vars(InsertReverse)
    /\ WF_vars(CamLookup) /\ WF_vars(CamUpdate)

FairSpec == Spec /\ Fairness

-----------------------------------------------------------------------------
(***************************************************************************)
(* Properties                                                              *)
(***************************************************************************)
CamReply == [sessionID : Session \union {NoSession}, hit : BOOLEAN, source : Source]

\* Every variable has its type.
TypeOK ==
    /\ counter \in 0 .. MAX_SESSIONS
    /\ freeList \in Seq(Session) /\ fin \in Seq(Session)
    /\ slc_fsmState \in {"LUP_REQ", "LUP_RSP", "UPD_RSP"}
    /\ slc_queryCache \in Seq(Query) /\ slc_insertTuples \in Seq(Tuple)
    /\ lookup_req \in Seq([key : Tuple, source : Source]) /\ lookup_rsp \in Seq(CamReply)
    /\ \A q \in {insert_req, delete_req, update_req, update_rsp, insert_rsp} :
          q \in Seq(Update)
    /\ reverseInsert \in Seq([key : Session, value : Tuple])
    /\ reverseLookupTable \in [Session -> Tuple \union {NoTuple}]
    /\ tupleValid \in [Session -> BOOLEAN]
    /\ usedSessionIDs \in 0 .. 2^16 - 1
    /\ cam \in [Tuple -> Session \union {NoSession}]

IsInsert(u) == u.op = "INSERT"

\* How many entries of a queue are in a set.
Among(T, q) == Cardinality({i \in DOMAIN q : q[i] \in T})

\* What carries the ID of session s: updates, inserts, tuples for the reverse table.
Updates(s)   == {u \in Update : u.value = s}
InsertsOf(s) == {u \in Update : IsInsert(u) /\ u.value = s}
Entries(s)   == [key : {s}, value : Tuple]

\* The tuples that are being inserted for session s, from the free list to the
\* reverse table.
Inserting(s) ==
    {u.key : u \in InsertsOf(s) \cap UNION {ToSet(insert_req), ToSet(update_req),
                                           ToSet(update_rsp), ToSet(insert_rsp)}}
        \union {i.value : i \in {j \in ToSet(reverseInsert) : j.key = s}}

\* No session ID is lost or handed out twice, whatever is released and
\* however often: an ID that has been used is in exactly one place.
Places(s) ==
    Among({s}, freeList) + Among({s}, fin) + Among(Updates(s), delete_req)
        + Among(InsertsOf(s), insert_req) + Among(InsertsOf(s), update_req)
        + Among(InsertsOf(s), update_rsp) + Among(InsertsOf(s), insert_rsp)
        + Among(Entries(s), reverseInsert) + (IF tupleValid[s] THEN 1 ELSE 0)

IdsConserved == \A s \in Session : Places(s) = IF s < counter THEN 1 ELSE 0

\* The CAM as it will be when every update under way has been performed: the
\* last update of a tuple decides.
UnderWay   == update_req \o insert_req \o delete_req
UpdatesOf(t) == {i \in DOMAIN UnderWay : UnderWay[i].key = t}

SettledCam ==
    [t \in Tuple |->
        IF UpdatesOf(t) = {} THEN cam[t]
        ELSE LET u == UnderWay[Max(UpdatesOf(t))]
             IN  IF IsInsert(u) THEN u.value ELSE NoSession]

\* The CAM and the reverse table describe the same connections: the packets
\* that answer what the TX engine sends for a session find that session, and
\* a tuple the CAM knows is the tuple of its session.
DirectoriesAgree ==
    /\ \A s \in Session : tupleValid[s] =>
          LET sent == ReverseLookup(s)
          IN  SettledCam[FromRx([src |-> sent.dst, dst |-> sent.src])] = s
    /\ \A t \in Tuple : SettledCam[t] # NoSession =>
          LET s == SettledCam[t]
          IN  (tupleValid[s] /\ reverseLookupTable[s] = t) \/ Inserting(s) = {t}

\* The number software reads is the number of sessions in use, as far as
\* the updates have been sent.
CountExact ==
    usedSessionIDs + Len(insert_req) =
        Cardinality({s \in Session : tupleValid[s] \/ Inserting(s) # {}}) + Len(delete_req)

\* The connection a session belongs to, from the moment its ID is taken.
Owner == [s \in Session |-> IF tupleValid[s] THEN reverseLookupTable[s]
                            ELSE IF Inserting(s) # {} THEN CHOOSE t \in Inserting(s) : TRUE
                            ELSE NoTuple]

\* The five functions and the CAM keep one directory.
Directory == INSTANCE SessionDirectory WITH owner <- Owner

OneDirectory == Directory!Spec

\* Every lookup is answered: the exchanges with the CAM cannot block.
LookupsAnswered == slc_fsmState # "LUP_REQ" ~> slc_fsmState = "LUP_REQ"

\* The ID of a closed session can be used again.
IdsReturn ==
    \A s \in Session :
        ToSet(delete_req) \cap Updates(s) # {} ~> s \in ToSet(freeList)
=============================================================================
