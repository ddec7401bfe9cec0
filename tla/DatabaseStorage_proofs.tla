----------------------- MODULE DatabaseStorage_proofs -----------------------
(***************************************************************************)
(* Theorems about DatabaseStorage for every set of workers, documents and   *)
(* conditions, and every bound on the number of writes.                     *)
(***************************************************************************)
EXTENDS DatabaseStorage, TLAPS

USE StorageAssumption

-----------------------------------------------------------------------------
(* Lemmas about the values the actions build.                               *)

LEMMA EmptyDocument == {} \in Docs
BY DEF Docs

LEMMA ReplyType == \A code \in {"none", "200", "201", "304", "404", "409", "412", "error"} :
                       Reply(code) \in Answer
BY EmptyDocument DEF Reply, Outcome, Answer, NoEtag

LEMMA CheckType == ASSUME NEW m, NEW c, NEW e, NEW x
                   PROVE  CheckEtag(m, c, e, x) \in {"ok", "304", "412", "error"}
BY DEF CheckEtag, CheckPreconditions

LEMMA VerdictType == ASSUME NEW r, NEW d
                     PROVE  /\ NodeVerdict(r, d) \in {"ok", "404", "409"}
                            /\ NodeVerdict(r, d) = "ok" => NodeUpdate(r, d) \in Docs
BY DEF NodeVerdict

LEMMA NoWorkType == NoWork \in Work
BY EmptyDocument DEF NoWork, Work

LEMMA NoRequestType == NoRequest \in Request
<1>1. (CHOOSE k \in Keys : TRUE) \in Keys
  OBVIOUS
<1> QED
  BY <1>1, EmptyDocument DEF NoRequest, Request

-----------------------------------------------------------------------------
(* Every variable keeps its type.                                           *)

LEMMA TypeInit == Init => TypeOK
<1> SUFFICES ASSUME Init PROVE TypeOK
  OBVIOUS
<1>1. DOMAIN rows = {} /\ rows \in [DOMAIN rows -> Row]
  BY DEF Init
<1>2. versions \in Seq([key : Keys, doc : Docs]) /\ used \subseteq Nat
  BY DEF Init
<1>3. pc \in [Workers -> Labels] /\ req \in [Workers -> Request]
  BY NoRequestType DEF Init, Labels
<1>4. work \in [Workers -> Work] /\ answer \in [Workers -> Answer]
  BY NoWorkType, ReplyType DEF Init
<1> QED
  BY <1>1, <1>2, <1>3, <1>4 DEF Init, TypeOK

LEMMA FinishType ==
    ASSUME TypeOK, NEW w \in Workers, NEW a \in Answer, Finish(w, a)
    PROVE  pc' \in [Workers -> Labels] /\ answer' \in [Workers -> Answer]
BY DEF TypeOK, Finish, Labels

LEMMA GotoType ==
    ASSUME TypeOK, NEW w \in Workers, NEW l \in Labels, Goto(w, l)
    PROVE  pc' \in [Workers -> Labels] /\ answer' \in [Workers -> Answer]
BY DEF TypeOK, Goto, Labels

LEMMA DrawType ==
    ASSUME TypeOK, NEW w \in Workers, DrawEtag(w)
    PROVE  /\ versions' \in Seq([key : Keys, doc : Docs])
           /\ Len(versions') = NewEtag
           /\ NewEtag \in Nat \ {0}
           /\ versions'[NewEtag] = [key |-> req[w].key, doc |-> work[w].doc]
           /\ \A e \in 1 .. Len(versions) : versions'[e] = versions[e]
<1>1. [key |-> req[w].key, doc |-> work[w].doc] \in [key : Keys, doc : Docs]
  BY DEF TypeOK, Request, Work
<1> QED
  BY <1>1 DEF TypeOK, DrawEtag, NewEtag

LEMMA ReceiveRequest ==
    ASSUME NEW w \in Workers, Receive(w)
    PROVE  \E r \in Request : Accept(w, r)
<1>1. PICK method \in {"get", "put", "delete"}, target \in Nodes \cup {WholeDocument}, k \in Keys :
      \E body \in Bodies(method, target), c \in Conditions :
        Accept(w, [method |-> method, target |-> target, key |-> k, body |-> body, cond |-> c])
  BY DEF Receive
<1>2. PICK body \in Bodies(method, target), c \in Conditions :
        Accept(w, [method |-> method, target |-> target, key |-> k, body |-> body, cond |-> c])
  BY <1>1
<1>3. body \in Docs
  BY EmptyDocument DEF Bodies
<1> QED
  BY <1>2, <1>3 DEF Request

LEMMA AcceptType == ASSUME TypeOK, NEW w \in Workers, NEW r \in Request, Accept(w, r) PROVE TypeOK'
<1>1. req' \in [Workers -> Request]
  BY DEF Accept, TypeOK
<1>2. work' \in [Workers -> Work]
  BY NoWorkType DEF Accept, TypeOK, Work, NoWork, Request
<1>3. pc' \in [Workers -> Labels] /\ answer' \in [Workers -> Answer]
  BY FinishType, GotoType, ReplyType DEF Accept, FirstStep, Labels
<1> QED
  BY <1>1, <1>2, <1>3 DEF Accept, TableUnchanged, TypeOK

LEMMA LoadType == ASSUME TypeOK, NEW w \in Workers, Load(w) PROVE TypeOK'
<1>1. CASE Finish(w, Reply("error")) /\ UNCHANGED work
  BY <1>1, FinishType, ReplyType DEF Load, TableUnchanged, TypeOK
<1>2. CASE /\ Finish(w, Reply(IF req[w].method = "delete" THEN "404" ELSE "409"))
           /\ UNCHANGED work
  BY <1>2, FinishType, ReplyType DEF Load, TableUnchanged, TypeOK
<1>3. ASSUME NEW i \in DOMAIN rows, Recompute(w, rows[i])
      PROVE  TypeOK'
  <2> DEFINE r       == req[w]
             row     == rows[i]
             check   == CheckEtag(r.method, r.cond, row.etag, TRUE)
             verdict == IF check = "ok" THEN NodeVerdict(r, row.doc) ELSE check
  <2>1. verdict \in {"ok", "304", "404", "409", "412", "error"}
    BY CheckType, VerdictType
  <2>2. CASE verdict = "ok"
    <3>1. check = "ok" /\ NodeVerdict(r, row.doc) = "ok"
      BY <2>2, CheckType
    <3>2. NodeUpdate(r, row.doc) \in Docs
      BY <3>1, VerdictType
    <3>3. row.etag \in Nat
      BY DEF TypeOK, Row
    <3>4. /\ Goto(w, "fetch")
          /\ work' = [work EXCEPT ![w] =
                [NoWork EXCEPT !.base = row.etag, !.doc = NodeUpdate(r, row.doc),
                               !.created = r.method = "put" /\ r.target \in Elements \ row.doc]]
      BY <1>3, <2>2 DEF Recompute
    <3>5. work' \in [Workers -> Work]
      <4> DEFINE new == [NoWork EXCEPT !.base = row.etag, !.doc = NodeUpdate(r, row.doc),
                               !.created = r.method = "put" /\ r.target \in Elements \ row.doc]
      <4>1. new \in Work
        BY <3>2, <3>3, NoWorkType DEF Work, NoWork
      <4> QED
        BY <3>4, <4>1 DEF TypeOK
    <3> QED
      BY <3>4, <3>5, GotoType DEF Load, TableUnchanged, TypeOK, Labels
  <2>3. CASE verdict # "ok"
    <3>1. Finish(w, Reply(verdict)) /\ UNCHANGED work
      BY <1>3, <2>3 DEF Recompute
    <3>2. Reply(verdict) \in Answer
      BY <2>1, <2>3, ReplyType
    <3> QED
      BY <3>1, <3>2, FinishType DEF Load, TableUnchanged, TypeOK
  <2> QED
    BY <2>2, <2>3
<1> QED
  BY <1>1, <1>2, <1>3 DEF Load

LEMMA GetType == ASSUME TypeOK, NEW w \in Workers, GetDocument(w) PROVE TypeOK'
<1>1. ASSUME NEW i \in DOMAIN rows PROVE GetReply(req[w], rows[i]) \in Answer
  <2>1. rows[i].etag \in Nat /\ rows[i].doc \in Docs
    BY DEF TypeOK, Row
  <2>2. Outcome("200", rows[i].etag, NoEtag, rows[i].doc) \in Answer
    BY <2>1 DEF Answer, Outcome, Row, NoEtag
  <2> QED
    BY <2>2, CheckType, ReplyType DEF GetReply
<1>2. pc' \in [Workers -> Labels] /\ answer' \in [Workers -> Answer]
  BY <1>1, FinishType, ReplyType DEF GetDocument
<1> QED
  BY <1>2 DEF GetDocument, TableUnchanged, TypeOK

LEMMA PutType == ASSUME TypeOK, NEW w \in Workers, FetchForPut(w) PROVE TypeOK'
<1> USE DEF FetchForPut, TableUnchanged
<1>1. CASE Finish(w, Reply("error")) /\ UNCHANGED <<work, versions>>
  BY <1>1, FinishType, ReplyType DEF TypeOK
<1>2. ASSUME NEW code \in {"ok", "304", "412", "error"}, code # "ok",
             Finish(w, Reply(code)), UNCHANGED <<work, versions>>
      PROVE  TypeOK'
  BY <1>2, FinishType, ReplyType DEF TypeOK
<1>3. ASSUME NEW new \in Work, DrawEtag(w), work' = [work EXCEPT ![w] = new],
             Goto(w, "insert") \/ Goto(w, "update")
      PROVE  TypeOK'
  <2>1. work' \in [Workers -> Work]
    BY <1>3 DEF TypeOK
  <2> QED
    BY <1>3, <2>1, DrawType, GotoType DEF TypeOK, Labels
<1>4. work[w] \in Work /\ NewEtag \in Nat
  BY DEF TypeOK, NewEtag
<1>5. CASE PutAbsent(w)
  <2> DEFINE r     == req[w]
             check == IF IsWholeDocument(r)
                      THEN CheckEtag(r.method, r.cond, NoEtag, FALSE) ELSE "error"
             new   == [work[w] EXCEPT !.etag = NewEtag, !.created = TRUE]
  <2>1. check \in {"ok", "304", "412", "error"}
    BY CheckType
  <2>2. CASE check = "ok"
    <3>1. new \in Work
      BY <1>4 DEF Work
    <3>2. work' = [work EXCEPT ![w] = new]
      BY <1>5, <2>2 DEF PutAbsent, AbsentCheck, TypeOK
    <3> QED
      BY <1>3, <1>5, <2>2, <3>1, <3>2 DEF PutAbsent, AbsentCheck
  <2>3. CASE check # "ok"
    BY <1>2, <1>5, <2>1, <2>3 DEF PutAbsent, AbsentCheck
  <2> QED
    BY <2>2, <2>3
<1>6. ASSUME NEW i \in DOMAIN rows, PutExisting(w, i)
      PROVE  TypeOK'
  <2> DEFINE row   == rows[i]
             check == CheckEtag(req[w].method, req[w].cond, row.etag, TRUE)
             same  == Outcome(SuccessCode(w), row.etag, NoEtag, row.doc)
             new   == Holding(work[w], NewEtag, i, row.etag)
  <2>1. row \in Row /\ i \in Nat
    BY DEF TypeOK
  <2>2. CASE Finish(w, same) /\ UNCHANGED <<work, versions>>
    <3>1. same \in Answer
      BY <2>1 DEF Answer, Outcome, Row, SuccessCode, NoEtag
    <3> QED
      BY <2>2, <3>1, FinishType DEF TypeOK
  <2>3. CASE check # "ok" /\ Finish(w, Reply(check)) /\ UNCHANGED <<work, versions>>
    BY <1>2, <2>3, CheckType
  <2>4. CASE /\ DrawEtag(w)
             /\ work' = [work EXCEPT ![w] = new]
             /\ Goto(w, "update")
    <3>1. new \in Work
      BY <1>4, <2>1 DEF Work, Row, Holding
    <3> QED
      BY <1>3, <2>4, <3>1
  <2> QED
    BY <1>6, <2>2, <2>3, <2>4 DEF PutExisting
<1> QED
  BY <1>1, <1>5, <1>6

LEMMA DeleteType == ASSUME TypeOK, NEW w \in Workers, FetchForDelete(w) PROVE TypeOK'
<1> USE DEF FetchForDelete, TableUnchanged
<1>1. CASE Finish(w, Reply("error")) /\ UNCHANGED work
  BY <1>1, FinishType, ReplyType DEF TypeOK
<1>2. CASE Finish(w, Reply("404")) /\ UNCHANGED work
  BY <1>2, FinishType, ReplyType DEF TypeOK
<1>3. ASSUME NEW i \in DOMAIN rows, DeleteExisting(w, i)
      PROVE  TypeOK'
  <2> DEFINE check == CheckEtag("delete", req[w].cond, rows[i].etag, TRUE)
             new   == [work[w] EXCEPT !.id = i, !.old = rows[i].etag]
  <2>1. CASE check = "ok"
    <3>0. work[w] \in Work /\ i \in Nat /\ rows[i].etag \in Nat
      BY DEF TypeOK, Row
    <3>1. new \in Work
      BY <3>0 DEF Work
    <3>2. work' = [work EXCEPT ![w] = new] /\ Goto(w, "remove")
      BY <1>3, <2>1 DEF DeleteExisting, TypeOK
    <3>3. work' \in [Workers -> Work]
      BY <3>1, <3>2 DEF TypeOK
    <3> QED
      BY <3>2, <3>3, GotoType DEF TypeOK, Labels
  <2>2. CASE check # "ok"
    BY <1>3, <2>2, CheckType, FinishType, ReplyType DEF DeleteExisting, TypeOK
  <2> QED
    BY <2>1, <2>2
<1> QED
  BY <1>1, <1>2, <1>3

LEMMA InsertType == ASSUME TypeOK, NEW w \in Workers, Insert(w) PROVE TypeOK'
<1> DEFINE new == NewRow(w, req[w].key)
<1>0. work[w] \in Work /\ req[w] \in Request /\ lastId \in Nat
  BY DEF TypeOK
<1>1. PICK i \in 1 .. lastId + 1 :
          /\ rows' = [j \in DOMAIN rows \cup {i} |-> IF j = i THEN new ELSE rows[j]]
          /\ lastId' = IF i > lastId THEN i ELSE lastId
          /\ work' = [work EXCEPT ![w].id = i]
  BY DEF Insert
<1>2. new \in Row
  BY <1>0 DEF Row, Work, Request, NewRow
<1>3. lastId' \in Nat /\ DOMAIN rows' \subseteq 1 .. lastId'
  BY <1>0, <1>1 DEF TypeOK
<1>4. rows' \in [DOMAIN rows' -> Row]
  BY <1>1, <1>2 DEF TypeOK
<1>5. work' \in [Workers -> Work]
  <2>1. [work[w] EXCEPT !.id = i] \in Work
    BY <1>0 DEF Work
  <2> QED
    BY <1>1, <2>1 DEF TypeOK
<1>6. used' \subseteq Nat
  BY <1>0 DEF Insert, Work, TypeOK
<1> QED
  BY <1>3, <1>4, <1>5, <1>6, GotoType DEF Insert, TypeOK, Labels

LEMMA UpdateType == ASSUME TypeOK, NEW w \in Workers, Update(w) PROVE TypeOK'
<1> DEFINE id  == work[w].id
           new == NewRow(w, rows[id].key)
<1>1. work[w] \in Work /\ id \in DOMAIN rows /\ rows[id] \in Row
  BY DEF TypeOK, Update
<1>2. new \in Row
  BY <1>1 DEF Row, Work, NewRow
<1>3. rows' = [rows EXCEPT ![id] = new]
  BY <1>1 DEF Update, TypeOK
<1>4. rows' \in [DOMAIN rows' -> Row] /\ DOMAIN rows' = DOMAIN rows
  BY <1>1, <1>2, <1>3 DEF TypeOK
<1>5. used' \subseteq Nat
  BY <1>1 DEF Update, Work, TypeOK
<1> QED
  BY <1>4, <1>5, GotoType DEF Update, TypeOK, Labels

LEMMA RemoveType == ASSUME TypeOK, NEW w \in Workers, Remove(w) PROVE TypeOK'
<1>1. work[w].old \in Nat
  BY DEF TypeOK, Work
<1>2. Outcome("200", NoEtag, work[w].old, {}) \in Answer
  BY <1>1, EmptyDocument DEF Answer, Outcome, NoEtag
<1>3. /\ rows' = [j \in DOMAIN rows \ {work[w].id} |-> rows[j]]
      /\ DOMAIN rows' = DOMAIN rows \ {work[w].id}
  BY DEF Remove
<1>4. rows' \in [DOMAIN rows' -> Row] /\ DOMAIN rows' \subseteq 1 .. lastId
  BY <1>3 DEF TypeOK
<1> QED
  BY <1>2, <1>4, FinishType DEF Remove, TypeOK

LEMMA WriteFailsType == ASSUME TypeOK, NEW w \in Workers, WriteFails(w) PROVE TypeOK'
BY FinishType, ReplyType DEF WriteFails, TableUnchanged, TypeOK

LEMMA RefreshType == ASSUME TypeOK, NEW w \in Workers, Refresh(w) PROVE TypeOK'
<1> DEFINE ok == Outcome(SuccessCode(w), work[w].etag, work[w].old, {})
<1>1. work[w].etag \in Nat /\ work[w].old \in Nat
  BY DEF TypeOK, Work
<1>2. ok \in Answer
  BY <1>1, EmptyDocument DEF Answer, Outcome, SuccessCode
<1> QED
  BY <1>2, FinishType, ReplyType DEF Refresh, TableUnchanged, TypeOK

LEMMA RespondType == ASSUME TypeOK, NEW w \in Workers, Respond(w) PROVE TypeOK'
BY NoRequestType, NoWorkType, ReplyType DEF Respond, TableUnchanged, TypeOK, Labels

LEMMA TypeStep == TypeOK /\ [Next]_vars => TypeOK'
<1> SUFFICES ASSUME TypeOK, [Next]_vars PROVE TypeOK'
  OBVIOUS
<1>1. CASE UNCHANGED vars
  BY <1>1 DEF vars, TypeOK
<1>2. ASSUME NEW w \in Workers, Receive(w) PROVE TypeOK'
  BY <1>2, ReceiveRequest, AcceptType
<1> QED
  BY <1>1, <1>2, LoadType, GetType, PutType, DeleteType, InsertType, UpdateType, RemoveType,
     WriteFailsType, RefreshType, RespondType DEF Next

(* Every variable has its type in every state.                              *)
THEOREM TypeCorrect == Spec => []TypeOK
BY TypeInit, TypeStep, PTL DEF Spec

-----------------------------------------------------------------------------
(* Steps that leave the table alone.                                        *)

LEMMA DrawKeeps ==
    ASSUME TypeOK, NEW w \in Workers, DrawEtag(w) \/ UNCHANGED versions
    PROVE  /\ 1 .. Len(versions) \subseteq 1 .. Len(versions')
           /\ \A e \in 1 .. Len(versions) : versions'[e] = versions[e]
<1>1. Len(versions) \in Nat
  BY DEF TypeOK
<1>2. CASE DrawEtag(w)
  <2>1. Len(versions') = Len(versions) + 1
    BY <1>2, DrawType DEF NewEtag
  <2>2. \A e \in 1 .. Len(versions) : versions'[e] = versions[e]
    BY <1>2, DrawType
  <2>3. 1 .. Len(versions) \subseteq 1 .. Len(versions')
    BY <1>1, <2>1
  <2> QED
    BY <2>2, <2>3
<1>3. CASE UNCHANGED versions
  BY <1>3
<1> QED
  BY <1>2, <1>3

LEMMA VersionsGrow ==
    ASSUME TypeOK, [Next]_vars
    PROVE  /\ 1 .. Len(versions) \subseteq 1 .. Len(versions')
           /\ \A e \in 1 .. Len(versions) : versions'[e] = versions[e]
<1>1. ASSUME NEW w \in Workers, FetchForPut(w) PROVE DrawEtag(w) \/ UNCHANGED versions
  BY <1>1 DEF FetchForPut, PutAbsent, PutExisting
<1>2. ASSUME NEW w \in Workers, Receive(w) PROVE UNCHANGED versions
  BY <1>2, ReceiveRequest DEF Accept
<1>3. ASSUME NEW w \in Workers,
             \/ Load(w) \/ GetDocument(w) \/ FetchForDelete(w) \/ Insert(w) \/ Update(w)
             \/ Remove(w) \/ WriteFails(w) \/ Refresh(w) \/ Respond(w)
      PROVE  UNCHANGED versions
  BY <1>3 DEF Load, GetDocument, FetchForDelete, Insert, Update, Remove, WriteFails, Refresh, Respond
<1>4. CASE UNCHANGED vars
  BY <1>4 DEF vars
<1> QED
  BY <1>1, <1>2, <1>3, <1>4, DrawKeeps DEF Next

-----------------------------------------------------------------------------
(* A document never has two rows.                                           *)

LEMMA InsertRows ==
    ASSUME TypeOK, NEW w \in Workers, Insert(w)
    PROVE  \E i \in Nat \ DOMAIN rows :
             /\ AutoIncrement => i = lastId + 1
             /\ DOMAIN rows' = DOMAIN rows \cup {i}
             /\ rows'[i] = [key |-> req[w].key, doc |-> work[w].doc, etag |-> work[w].etag]
             /\ \A j \in DOMAIN rows : rows'[j] = rows[j]
             /\ lastId' = IF i > lastId THEN i ELSE lastId
<1>1. PICK i \in 1 .. lastId + 1 :
          /\ IsNextId(i)
          /\ rows' = [j \in DOMAIN rows \cup {i} |->
                        IF j = i THEN NewRow(w, req[w].key) ELSE rows[j]]
          /\ lastId' = IF i > lastId THEN i ELSE lastId
  BY DEF Insert
<1>2. i \in Nat \ DOMAIN rows
  BY <1>1 DEF IsNextId, TypeOK
<1>3. AutoIncrement => i = lastId + 1
  BY <1>1 DEF IsNextId
<1>4. \A j \in DOMAIN rows : j # i
  BY <1>2
<1> QED
  BY <1>1, <1>2, <1>3, <1>4 DEF NewRow

LEMMA UpdateRows ==
    ASSUME TypeOK, NEW w \in Workers, Update(w)
    PROVE  /\ work[w].id \in DOMAIN rows
           /\ DOMAIN rows' = DOMAIN rows
           /\ rows'[work[w].id] = [key |-> rows[work[w].id].key, doc |-> work[w].doc,
                                   etag |-> work[w].etag]
           /\ \A j \in DOMAIN rows \ {work[w].id} : rows'[j] = rows[j]
<1> DEFINE id == work[w].id
<1>1. id \in DOMAIN rows /\ rows[id] \in Row
  BY DEF Update, TypeOK
<1>2. rows' = [rows EXCEPT ![id] = NewRow(w, rows[id].key)]
  BY DEF Update
<1>3. rows \in [DOMAIN rows -> Row]
  BY DEF TypeOK
<1>4. DOMAIN rows' = DOMAIN rows /\ \A j \in DOMAIN rows \ {id} : rows'[j] = rows[j]
  BY <1>1, <1>2, <1>3
<1>5. rows'[id] = NewRow(w, rows[id].key)
  BY <1>1, <1>2, <1>3
<1> QED
  BY <1>1, <1>4, <1>5 DEF NewRow

LEMMA RemoveRows ==
    ASSUME NEW w \in Workers, Remove(w)
    PROVE  /\ DOMAIN rows' = DOMAIN rows \ {work[w].id}
           /\ \A j \in DOMAIN rows' : rows'[j] = rows[j]
BY DEF Remove

LEMMA OtherRows ==
    ASSUME NEW w \in Workers,
           \/ Receive(w) \/ Load(w) \/ GetDocument(w) \/ FetchForPut(w) \/ FetchForDelete(w)
           \/ WriteFails(w) \/ Refresh(w) \/ Respond(w)
    PROVE  UNCHANGED <<rows, lastId, used>>
BY ReceiveRequest DEF Accept, Load, GetDocument, FetchForPut, FetchForDelete, WriteFails, Refresh,
   Respond, TableUnchanged

LEMMA OneRowStep == TypeOK /\ OneRowPerDocument /\ [Next]_vars => OneRowPerDocument'
<1> SUFFICES ASSUME TypeOK, OneRowPerDocument, [Next]_vars PROVE OneRowPerDocument'
  OBVIOUS
<1>1. ASSUME NEW w \in Workers, Insert(w) PROVE OneRowPerDocument'
  <2>1. \A j \in DOMAIN rows : rows[j].key # req[w].key
    BY <1>1 DEF Insert, Unoccupied, RowsOf
  <2>2. PICK i \in Nat \ DOMAIN rows :
          /\ DOMAIN rows' = DOMAIN rows \cup {i}
          /\ rows'[i] = [key |-> req[w].key, doc |-> work[w].doc, etag |-> work[w].etag]
          /\ \A j \in DOMAIN rows : rows'[j] = rows[j]
    BY <1>1, InsertRows
  <2>3. rows'[i].key = req[w].key
    BY <2>2
  <2> QED
    BY <2>1, <2>2, <2>3 DEF OneRowPerDocument
<1>2. ASSUME NEW w \in Workers, Update(w) PROVE OneRowPerDocument'
  <2>1. \A j \in DOMAIN rows : rows'[j].key = rows[j].key
    <3> TAKE j \in DOMAIN rows
    <3>1. CASE j = work[w].id
      <4>1. rows'[j] = [key |-> rows[j].key, doc |-> work[w].doc, etag |-> work[w].etag]
        BY <1>2, <3>1, UpdateRows
      <4> QED
        BY <4>1
    <3>2. CASE j # work[w].id
      BY <1>2, <3>2, UpdateRows
    <3> QED
      BY <3>1, <3>2
  <2> QED
    BY <1>2, <2>1, UpdateRows DEF OneRowPerDocument
<1>3. ASSUME NEW w \in Workers, Remove(w) PROVE OneRowPerDocument'
  BY <1>3, RemoveRows DEF OneRowPerDocument
<1>4. CASE UNCHANGED rows
  BY <1>4 DEF OneRowPerDocument
<1> QED
  BY <1>1, <1>2, <1>3, <1>4, OtherRows DEF Next, vars

(* However requests interleave, and whether or not ids are reused, a        *)
(* document has at most one row.                                            *)
THEOREM OneRowAlways == Spec => []OneRowPerDocument
<1>1. Init => OneRowPerDocument
  BY DEF Init, OneRowPerDocument
<1> QED
  BY <1>1, OneRowStep, TypeCorrect, PTL DEF Spec

-----------------------------------------------------------------------------
(* The writers between their draw and their commit.                         *)

OthersKeep(w) == \A v \in Workers \ {w} : /\ pc'[v] = pc[v] /\ req'[v] = req[v]
                                          /\ work'[v] = work[v] /\ answer'[v] = answer[v]

LEMMA FinishOthers ==
    ASSUME TypeOK, NEW w \in Workers, NEW a, Finish(w, a)
    PROVE  /\ pc'[w] = "done" /\ answer'[w] = a
           /\ \A v \in Workers \ {w} : pc'[v] = pc[v] /\ answer'[v] = answer[v]
BY DEF Finish, TypeOK

LEMMA GotoOthers ==
    ASSUME TypeOK, NEW w \in Workers, NEW l, Goto(w, l)
    PROVE  /\ pc'[w] = l /\ answer'[w] = answer[w]
           /\ \A v \in Workers \ {w} : pc'[v] = pc[v] /\ answer'[v] = answer[v]
BY DEF Goto, TypeOK

(* Steps that neither touch the table nor draw a tag, and bring the worker  *)
(* to a place where it holds nothing.                                       *)
Quiet(w) == /\ UNCHANGED <<rows, lastId, used, versions>>
            /\ pc'[w] \in {"idle", "load", "fetch", "done"}
            /\ OthersKeep(w)

LEMMA AcceptQuiet ==
    ASSUME TypeOK, NEW w \in Workers, NEW r \in Request, Accept(w, r)
    PROVE  Quiet(w) /\ req'[w] = r /\ (pc'[w] = "done" => answer'[w] = Reply("409"))
<1>1. \A v \in Workers \ {w} : req'[v] = req[v] /\ work'[v] = work[v]
  BY DEF Accept, TypeOK
<1>2. req'[w] = r
  BY DEF Accept, TypeOK
<1>3. CASE Finish(w, Reply("409"))
  BY <1>1, <1>2, <1>3, FinishOthers DEF Quiet, OthersKeep, Accept, TableUnchanged
<1>4. CASE Goto(w, FirstStep(r))
  BY <1>1, <1>2, <1>4, GotoOthers DEF Quiet, OthersKeep, Accept, TableUnchanged, FirstStep
<1> QED
  BY <1>3, <1>4 DEF Accept

LEMMA RecomputeCases ==
    ASSUME NEW w \in Workers, NEW row, Recompute(w, row)
    PROVE  \/ /\ Goto(w, "fetch")
              /\ work' = [work EXCEPT ![w] =
                    [NoWork EXCEPT !.base = row.etag, !.doc = NodeUpdate(req[w], row.doc),
                       !.created = req[w].method = "put" /\ req[w].target \in Elements \ row.doc]]
           \/ \E code \in {"304", "404", "409", "412", "error"} :
                 Finish(w, Reply(code)) /\ UNCHANGED work
<1> DEFINE check   == CheckEtag(req[w].method, req[w].cond, row.etag, TRUE)
           verdict == IF check = "ok" THEN NodeVerdict(req[w], row.doc) ELSE check
<1>1. verdict \in {"ok", "304", "404", "409", "412", "error"}
  BY CheckType, VerdictType
<1>2. CASE verdict = "ok"
  BY <1>2 DEF Recompute
<1>3. CASE verdict # "ok"
  BY <1>1, <1>3 DEF Recompute
<1> QED
  BY <1>2, <1>3

LEMMA LoadQuiet ==
    ASSUME TypeOK, NEW w \in Workers, Load(w)
    PROVE  /\ Quiet(w) /\ UNCHANGED req
           /\ pc'[w] = "done" => answer'[w].etag = NoEtag
<1>1. UNCHANGED <<rows, lastId, used, versions, req>>
  BY DEF Load, TableUnchanged
<1>2. ASSUME NEW code, Finish(w, Reply(code)), UNCHANGED work
      PROVE  Quiet(w) /\ (pc'[w] = "done" => answer'[w].etag = NoEtag)
  BY <1>1, <1>2, FinishOthers DEF Quiet, OthersKeep, Reply, Outcome
<1>3. ASSUME NEW row, Goto(w, "fetch"), NEW new, work' = [work EXCEPT ![w] = new]
      PROVE  Quiet(w) /\ pc'[w] = "fetch"
  <2>1. \A v \in Workers \ {w} : work'[v] = work[v]
    BY <1>3 DEF TypeOK
  <2> QED
    BY <1>1, <1>3, <2>1, GotoOthers DEF Quiet, OthersKeep
<1>4. ASSUME NEW i \in DOMAIN rows, Recompute(w, rows[i])
      PROVE  Quiet(w) /\ (pc'[w] = "done" => answer'[w].etag = NoEtag)
  BY <1>2, <1>3, <1>4, RecomputeCases
<1> QED
  BY <1>1, <1>2, <1>4 DEF Load

LEMMA GetQuiet ==
    ASSUME TypeOK, NEW w \in Workers, GetDocument(w)
    PROVE  /\ Quiet(w) /\ UNCHANGED <<req, work>> /\ pc'[w] = "done" /\ req[w].method = "get"
           /\ \/ answer'[w].etag = NoEtag
              \/ \E i \in DOMAIN rows : /\ rows[i].key = req[w].key
                                       /\ answer'[w].etag = rows[i].etag
                                       /\ answer'[w].doc = rows[i].doc
<1> DEFINE P(a) == /\ Finish(w, a)
                   /\ \/ a.etag = NoEtag
                      \/ \E i \in DOMAIN rows : /\ rows[i].key = req[w].key
                                               /\ a.etag = rows[i].etag
                                               /\ a.doc = rows[i].doc
<1>1. \E a : P(a)
  <2>1. CASE Finish(w, Reply("error")) \/ Finish(w, Reply("404"))
    BY <2>1 DEF Reply, Outcome
  <2>2. ASSUME NEW i \in DOMAIN rows, Found(req[w].key, i), Finish(w, GetReply(req[w], rows[i]))
        PROVE  \E a : P(a)
    <3>1. rows[i].key = req[w].key
      BY <2>2 DEF Found, RowsOf
    <3>2. \/ GetReply(req[w], rows[i]).etag = NoEtag
          \/ /\ GetReply(req[w], rows[i]).etag = rows[i].etag
             /\ GetReply(req[w], rows[i]).doc = rows[i].doc
      BY DEF GetReply, Reply, Outcome
    <3> QED
      BY <2>2, <3>1, <3>2
  <2> QED
    BY <2>1, <2>2 DEF GetDocument
<1> QED
  BY <1>1, FinishOthers DEF GetDocument, TableUnchanged, Quiet, OthersKeep

LEMMA PutCases ==
    ASSUME TypeOK, NEW w \in Workers, FetchForPut(w)
    PROVE  /\ UNCHANGED <<rows, lastId, used, req>> /\ OthersKeep(w) /\ IsWrite(req[w])
           /\ \/ /\ UNCHANGED <<versions, work>> /\ pc'[w] = "done"
                 /\ \/ answer'[w].etag = NoEtag
                    \/ \E i \in DOMAIN rows : /\ rows[i].key = req[w].key
                                             /\ answer'[w].etag = rows[i].etag
                                             /\ work[w].doc = rows[i].doc
              \/ /\ DrawEtag(w) /\ work'[w].etag = NewEtag /\ work'[w].doc = work[w].doc
                 /\ \/ pc'[w] = "insert" /\ IsWholeDocument(req[w])
                    \/ /\ pc'[w] = "update"
                       /\ work'[w].id \in DOMAIN rows
                       /\ rows[work'[w].id].key = req[w].key
<1> DEFINE Kept == UNCHANGED <<rows, lastId, used, req>> /\ OthersKeep(w)
           Answered == /\ UNCHANGED <<versions, work>> /\ pc'[w] = "done"
                       /\ \/ answer'[w].etag = NoEtag
                          \/ \E i \in DOMAIN rows : /\ rows[i].key = req[w].key
                                                   /\ answer'[w].etag = rows[i].etag
                                                   /\ work[w].doc = rows[i].doc
           Drawn == /\ DrawEtag(w) /\ work'[w].etag = NewEtag /\ work'[w].doc = work[w].doc
                    /\ \/ pc'[w] = "insert" /\ IsWholeDocument(req[w])
                       \/ /\ pc'[w] = "update"
                          /\ work'[w].id \in DOMAIN rows
                          /\ rows[work'[w].id].key = req[w].key
<1>1. UNCHANGED <<rows, lastId, used, req>> /\ IsWrite(req[w])
  BY DEF FetchForPut, TableUnchanged
<1>2. ASSUME NEW a, Finish(w, a), UNCHANGED <<work, versions>>,
             \/ a.etag = NoEtag
             \/ \E i \in DOMAIN rows : /\ rows[i].key = req[w].key /\ a.etag = rows[i].etag
                                      /\ work[w].doc = rows[i].doc
      PROVE  Kept /\ Answered
  BY <1>1, <1>2, FinishOthers DEF OthersKeep
<1>3. ASSUME NEW code, Finish(w, Reply(code)), UNCHANGED <<work, versions>>
      PROVE  Kept /\ Answered
  <2>1. Reply(code).etag = NoEtag
    BY DEF Reply, Outcome
  <2> QED
    BY <1>2, <1>3, <2>1
<1>4. work[w] \in Work /\ work \in [Workers -> Work]
  BY DEF TypeOK
<1>5. ASSUME PutAbsent(w)
      PROVE  Kept /\ (Answered \/ Drawn)
  <2> DEFINE check == IF IsWholeDocument(req[w])
                      THEN CheckEtag(req[w].method, req[w].cond, NoEtag, FALSE) ELSE "error"
             new   == [work[w] EXCEPT !.etag = NewEtag, !.created = TRUE]
  <2>1. CASE check = "ok"
    <3>1. /\ DrawEtag(w) /\ work' = [work EXCEPT ![w] = new] /\ Goto(w, "insert")
          /\ IsWholeDocument(req[w])
      BY <1>4, <1>5, <2>1 DEF PutAbsent, AbsentCheck
    <3>2. new.etag = NewEtag /\ new.doc = work[w].doc
      BY <1>4 DEF Work
    <3>3. work'[w] = new /\ \A v \in Workers \ {w} : work'[v] = work[v]
      BY <3>1, <1>4
    <3> QED
      BY <1>1, <3>1, <3>2, <3>3, GotoOthers DEF OthersKeep
  <2>2. CASE check # "ok"
    BY <1>1, <1>3, <1>5, <2>2 DEF PutAbsent, AbsentCheck
  <2> QED
    BY <2>1, <2>2
<1>6. ASSUME NEW i \in DOMAIN rows, Found(req[w].key, i), PutExisting(w, i)
      PROVE  Kept /\ (Answered \/ Drawn)
  <2> DEFINE new  == Holding(work[w], NewEtag, i, rows[i].etag)
             check == CheckEtag(req[w].method, req[w].cond, rows[i].etag, TRUE)
             same == Outcome(SuccessCode(w), rows[i].etag, NoEtag, rows[i].doc)
  <2>1. rows[i].key = req[w].key
    BY <1>6 DEF Found, RowsOf
  <2>2. CASE rows[i].doc = work[w].doc /\ Finish(w, same) /\ UNCHANGED <<work, versions>>
    <3>1. same.etag = rows[i].etag
      BY DEF Outcome
    <3> QED
      BY <1>2, <2>1, <2>2, <3>1
  <2>3. CASE Finish(w, Reply(check)) /\ UNCHANGED <<work, versions>>
    BY <1>3, <2>3
  <2>4. CASE /\ DrawEtag(w)
             /\ work' = [work EXCEPT ![w] = new]
             /\ Goto(w, "update")
    <3>2. new.etag = NewEtag /\ new.doc = work[w].doc /\ new.id = i
      BY DEF Holding
    <3>3. work'[w] = new /\ \A v \in Workers \ {w} : work'[v] = work[v]
      BY <1>4, <2>4
    <3> QED
      BY <1>1, <2>1, <2>4, <3>2, <3>3, GotoOthers DEF OthersKeep
  <2> QED
    BY <1>6, <2>2, <2>3, <2>4 DEF PutExisting
<1> HIDE DEF Kept, Answered, Drawn
<1>7. Kept /\ (Answered \/ Drawn)
  <2>1. CASE Finish(w, Reply("error")) /\ UNCHANGED <<work, versions>>
    BY <1>3, <2>1
  <2> QED
    BY <1>5, <1>6, <2>1 DEF FetchForPut
<1> QED
  BY <1>1, <1>7 DEF Kept, Answered, Drawn

LEMMA DeleteCases ==
    ASSUME TypeOK, NEW w \in Workers, FetchForDelete(w)
    PROVE  /\ UNCHANGED <<rows, lastId, used, versions, req>> /\ OthersKeep(w)
           /\ \/ pc'[w] = "done" /\ answer'[w].etag = NoEtag
              \/ /\ pc'[w] = "remove"
                 /\ work'[w].id \in DOMAIN rows
                 /\ rows[work'[w].id].key = req[w].key
<1> DEFINE Kept     == UNCHANGED <<rows, lastId, used, versions, req>> /\ OthersKeep(w)
           Refused  == pc'[w] = "done" /\ answer'[w].etag = NoEtag
           Fetched  == /\ pc'[w] = "remove"
                       /\ work'[w].id \in DOMAIN rows
                       /\ rows[work'[w].id].key = req[w].key
<1>1. UNCHANGED <<rows, lastId, used, versions, req>>
  BY DEF FetchForDelete, TableUnchanged
<1>2. ASSUME NEW code, Finish(w, Reply(code)), UNCHANGED work
      PROVE  Kept /\ Refused
  BY <1>1, <1>2, FinishOthers DEF OthersKeep, Reply, Outcome
<1>3. ASSUME NEW i \in DOMAIN rows, Found(req[w].key, i), DeleteExisting(w, i)
      PROVE  Kept /\ (Refused \/ Fetched)
  <2> DEFINE check == CheckEtag("delete", req[w].cond, rows[i].etag, TRUE)
             new   == [work[w] EXCEPT !.id = i, !.old = rows[i].etag]
  <2>1. rows[i].key = req[w].key
    BY <1>3 DEF Found, RowsOf
  <2>2. CASE Finish(w, Reply(check)) /\ UNCHANGED work
    BY <1>2, <2>2
  <2>3. CASE work' = [work EXCEPT ![w] = new] /\ Goto(w, "remove")
    <3>1. new.id = i
      BY DEF TypeOK, Work
    <3>2. work'[w] = new /\ \A v \in Workers \ {w} : work'[v] = work[v]
      BY <2>3 DEF TypeOK
    <3> HIDE DEF new
    <3>3. /\ pc'[w] = "remove"
          /\ \A v \in Workers \ {w} : pc'[v] = pc[v] /\ answer'[v] = answer[v]
      BY <2>3, GotoOthers
    <3>4. Kept
      BY <1>1, <3>2, <3>3 DEF OthersKeep
    <3>5. Fetched
      BY <2>1, <3>1, <3>2, <3>3
    <3> QED
      BY <3>4, <3>5
  <2> QED
    BY <1>3, <2>2, <2>3 DEF DeleteExisting
<1> HIDE DEF Kept, Refused, Fetched
<1>4. Kept /\ (Refused \/ Fetched)
  BY <1>2, <1>3 DEF FetchForDelete
<1> QED
  BY <1>4 DEF Kept, Refused, Fetched

LEMMA WriteFailsQuiet ==
    ASSUME TypeOK, NEW w \in Workers, WriteFails(w)
    PROVE  Quiet(w) /\ UNCHANGED <<req, work>> /\ pc'[w] = "done" /\ answer'[w].etag = NoEtag
BY FinishOthers DEF WriteFails, TableUnchanged, Quiet, OthersKeep, Reply, Outcome

LEMMA RefreshQuiet ==
    ASSUME TypeOK, NEW w \in Workers, Refresh(w)
    PROVE  /\ Quiet(w) /\ UNCHANGED <<req, work>> /\ pc[w] = "refresh" /\ pc'[w] = "done"
           /\ answer'[w].etag \in {NoEtag, work[w].etag}
<1>1. UNCHANGED <<rows, lastId, used, versions, req, work>> /\ pc[w] = "refresh"
  BY DEF Refresh, TableUnchanged
<1>2. CASE Finish(w, Reply("error"))
  BY <1>1, <1>2, FinishOthers DEF Quiet, OthersKeep, Reply, Outcome
<1>3. CASE Finish(w, Outcome(SuccessCode(w), work[w].etag, work[w].old, {}))
  BY <1>1, <1>3, FinishOthers DEF Quiet, OthersKeep, Outcome
<1> QED
  BY <1>2, <1>3 DEF Refresh

LEMMA RespondQuiet ==
    ASSUME TypeOK, NEW w \in Workers, Respond(w)
    PROVE  Quiet(w) /\ pc'[w] = "idle"
BY DEF Respond, TableUnchanged, Quiet, OthersKeep, TypeOK

(* The three commits keep every worker's request, and the others wholly.    *)
LEMMA CommitKeeps ==
    ASSUME TypeOK, NEW w \in Workers, Insert(w) \/ Update(w) \/ Remove(w)
    PROVE  /\ UNCHANGED <<versions, req>> /\ OthersKeep(w)
           /\ pc'[w] \in {"refresh", "done"} /\ (pc'[w] = "refresh" <=> ~Remove(w))
           /\ work'[w].etag = work[w].etag /\ work'[w].doc = work[w].doc
           /\ used' = IF Remove(w) THEN used ELSE used \cup {work[w].etag}
<1>1. CASE Insert(w)
  <2>1. PICK i : work' = [work EXCEPT ![w].id = i]
    BY <1>1 DEF Insert
  <2>2. /\ work'[w].etag = work[w].etag /\ work'[w].doc = work[w].doc
        /\ \A v \in Workers \ {w} : work'[v] = work[v]
    BY <2>1 DEF TypeOK, Work
  <2>3. pc[w] = "insert" /\ Goto(w, "refresh")
    BY <1>1 DEF Insert
  <2> QED
    BY <1>1, <2>2, <2>3, GotoOthers DEF Insert, OthersKeep, Remove
<1>2. CASE Update(w)
  BY <1>2, GotoOthers DEF Update, OthersKeep, Remove
<1>3. CASE Remove(w)
  BY <1>3, FinishOthers DEF Remove, OthersKeep
<1> QED
  BY <1>1, <1>2, <1>3

LEMMA QuietKeepsStorage ==
    ASSUME TypeOK, StorageInv, NEW w \in Workers, Quiet(w)
    PROVE  StorageInv'
<1>1. \A v \in Workers : pc'[v] \in {"insert", "update", "refresh", "remove"} => v # w
  BY DEF Quiet
<1>2. DrawnTagsAreTheWriters'
  BY <1>1 DEF Quiet, OthersKeep, StorageInv, DrawnTagsAreTheWriters
<1>3. DrawnTagsAreFresh'
  BY <1>1 DEF Quiet, OthersKeep, StorageInv, DrawnTagsAreFresh, HoldsTag
<1>4. KeptIdsAreTheWriters'
  BY <1>1 DEF Quiet, OthersKeep, StorageInv, KeptIdsAreTheWriters
<1> QED
  BY <1>2, <1>3, <1>4 DEF StorageInv

LEMMA PutKeepsStorage ==
    ASSUME TypeOK, StorageInv, NEW w \in Workers, FetchForPut(w)
    PROVE  StorageInv'
<1>1. UNCHANGED <<rows, lastId, used, req>> /\ OthersKeep(w) /\ IsWrite(req[w])
  BY PutCases
<1>2. CASE UNCHANGED <<versions, work>> /\ pc'[w] = "done"
  BY <1>1, <1>2, QuietKeepsStorage DEF Quiet
<1>3. CASE /\ DrawEtag(w) /\ work'[w].etag = NewEtag /\ work'[w].doc = work[w].doc
           /\ \/ pc'[w] = "insert"
              \/ /\ pc'[w] = "update" /\ work'[w].id \in DOMAIN rows
                 /\ rows[work'[w].id].key = req[w].key
  <2>1. /\ 1 .. Len(versions) \subseteq 1 .. Len(versions')
        /\ \A e \in 1 .. Len(versions) : versions'[e] = versions[e]
    BY <1>3, DrawKeeps
  <2>2. /\ NewEtag \in 1 .. Len(versions') /\ NewEtag \notin 1 .. Len(versions)
        /\ versions'[NewEtag] = [key |-> req[w].key, doc |-> work[w].doc]
    <3>1. Len(versions') = NewEtag /\ NewEtag \in Nat \ {0}
          /\ versions'[NewEtag] = [key |-> req[w].key, doc |-> work[w].doc]
      BY <1>3, DrawType
    <3>2. Len(versions) \in Nat
      BY DEF TypeOK
    <3> QED
      BY <3>1, <3>2 DEF NewEtag
  <2>3. req[w].method # "get"
    BY <1>1 DEF IsWrite
  <2>4. DrawnTagsAreTheWriters'
    BY <1>1, <1>3, <2>1, <2>2, <2>3 DEF OthersKeep, StorageInv, DrawnTagsAreTheWriters
  <2>5. DrawnTagsAreFresh'
    <3>1. used' \subseteq 1 .. Len(versions') /\ NewEtag \notin used'
      BY <1>1, <2>1, <2>2 DEF StorageInv, DrawnTagsAreFresh
    <3>2. \A v \in Workers \ {w} : HoldsTag(v) => work[v].etag # NewEtag
      BY <2>2 DEF StorageInv, DrawnTagsAreTheWriters, HoldsTag
    <3>3. \A v \in Workers \ {w} : HoldsTag(v)' => HoldsTag(v) /\ work'[v].etag = work[v].etag
      BY <1>1 DEF HoldsTag, OthersKeep
    <3> QED
      BY <1>1, <1>3, <3>1, <3>2, <3>3 DEF StorageInv, DrawnTagsAreFresh
  <2>6. KeptIdsAreTheWriters'
    <3>1. DOMAIN rows \subseteq 1 .. lastId
      BY DEF TypeOK
    <3> QED
      BY <1>1, <1>3, <3>1 DEF OthersKeep, StorageInv, KeptIdsAreTheWriters
  <2> QED
    BY <2>4, <2>5, <2>6 DEF StorageInv
<1> QED
  BY <1>2, <1>3, PutCases

LEMMA DeleteKeepsStorage ==
    ASSUME TypeOK, StorageInv, NEW w \in Workers, FetchForDelete(w)
    PROVE  StorageInv'
<1>1. UNCHANGED <<rows, lastId, used, versions, req>> /\ OthersKeep(w)
  BY DeleteCases
<1>2. CASE pc'[w] = "done"
  BY <1>1, <1>2, QuietKeepsStorage DEF Quiet
<1>3. CASE pc'[w] = "remove" /\ work'[w].id \in DOMAIN rows /\ rows[work'[w].id].key = req[w].key
  <2>1. DrawnTagsAreTheWriters'
    BY <1>1, <1>3 DEF OthersKeep, StorageInv, DrawnTagsAreTheWriters
  <2>2. DrawnTagsAreFresh'
    BY <1>1, <1>3 DEF OthersKeep, StorageInv, DrawnTagsAreFresh, HoldsTag
  <2>3. KeptIdsAreTheWriters'
    BY <1>1, <1>3 DEF OthersKeep, StorageInv, KeptIdsAreTheWriters, TypeOK
  <2> QED
    BY <2>1, <2>2, <2>3 DEF StorageInv
<1> QED
  BY <1>2, <1>3, DeleteCases

LEMMA CommitKeepsStorage ==
    ASSUME TypeOK, StorageInv, NEW w \in Workers, Insert(w) \/ Update(w) \/ Remove(w)
    PROVE  StorageInv'
<1>1. /\ UNCHANGED <<versions, req>> /\ OthersKeep(w)
      /\ pc'[w] \in {"refresh", "done"} /\ (pc'[w] = "refresh" <=> ~Remove(w))
      /\ work'[w].etag = work[w].etag /\ work'[w].doc = work[w].doc
      /\ used' = IF Remove(w) THEN used ELSE used \cup {work[w].etag}
  BY CommitKeeps
<1>2. ~Remove(w) => HoldsTag(w)
  BY DEF Insert, Update, HoldsTag
<1>3. DrawnTagsAreTheWriters'
  <2> SUFFICES ASSUME NEW v \in Workers, pc'[v] \in {"insert", "update", "refresh"}
               PROVE  /\ req'[v].method # "get"
                      /\ work'[v].etag \in 1 .. Len(versions')
                      /\ versions'[work'[v].etag] = [key |-> req'[v].key, doc |-> work'[v].doc]
    BY DEF DrawnTagsAreTheWriters
  <2>1. CASE v = w
    <3>1. ~Remove(w)
      BY <1>1, <2>1
    <3>2. pc[w] \in {"insert", "update", "refresh"}
      BY <1>2, <3>1 DEF HoldsTag
    <3> QED
      BY <1>1, <2>1, <3>2 DEF StorageInv, DrawnTagsAreTheWriters
  <2>2. CASE v # w
    <3>1. pc'[v] = pc[v] /\ work'[v] = work[v]
      BY <1>1, <2>2 DEF OthersKeep
    <3> QED
      BY <1>1, <3>1 DEF StorageInv, DrawnTagsAreTheWriters
  <2> QED
    BY <2>1, <2>2
<1>4. DrawnTagsAreFresh'
  <2>1. \A v \in Workers : HoldsTag(v)' =>
          v # w /\ HoldsTag(v) /\ work'[v].etag = work[v].etag
    BY <1>1 DEF HoldsTag, OthersKeep
  <2>2. ~Remove(w) => /\ work[w].etag \in 1 .. Len(versions)
                      /\ \A v \in Workers \ {w} : HoldsTag(v) => work[v].etag # work[w].etag
    BY <1>2 DEF HoldsTag, StorageInv, DrawnTagsAreTheWriters, DrawnTagsAreFresh
  <2> QED
    BY <1>1, <2>1, <2>2 DEF StorageInv, DrawnTagsAreFresh
<1>5. KeptIdsAreTheWriters'
  <2> SUFFICES ASSUME AutoIncrement, NEW v \in Workers, pc'[v] \in {"update", "remove"}
               PROVE  /\ work'[v].id \in 1 .. lastId'
                      /\ work'[v].id \in DOMAIN rows' => rows'[work'[v].id].key = req'[v].key
    BY DEF KeptIdsAreTheWriters
  <2>1. v # w /\ pc'[v] = pc[v] /\ work'[v] = work[v] /\ req'[v] = req[v]
    BY <1>1 DEF OthersKeep
  <2>2. /\ work[v].id \in 1 .. lastId
        /\ work[v].id \in DOMAIN rows => rows[work[v].id].key = req[v].key
    BY <2>1 DEF StorageInv, KeptIdsAreTheWriters
  <2>3. lastId \in Nat
    BY DEF TypeOK
  <2>4. CASE Insert(w)
    <3>1. PICK i \in Nat \ DOMAIN rows :
             /\ AutoIncrement => i = lastId + 1
             /\ DOMAIN rows' = DOMAIN rows \cup {i}
             /\ \A j \in DOMAIN rows : rows'[j] = rows[j]
             /\ lastId' = IF i > lastId THEN i ELSE lastId
      BY <2>4, InsertRows
    <3>2. work[v].id # i /\ 1 .. lastId \subseteq 1 .. lastId'
      BY <2>2, <2>3, <3>1
    <3> QED
      BY <2>1, <2>2, <3>1, <3>2
  <2>5. CASE Update(w)
    <3>1. lastId' = lastId
      BY <2>5 DEF Update
    <3>2. DOMAIN rows' = DOMAIN rows /\ \A j \in DOMAIN rows : rows'[j].key = rows[j].key
      <4>1. ASSUME NEW j \in DOMAIN rows PROVE rows'[j].key = rows[j].key
        <5>1. CASE j = work[w].id
          <6>1. rows'[j] = [key |-> rows[j].key, doc |-> work[w].doc, etag |-> work[w].etag]
            BY <2>5, <5>1, UpdateRows
          <6> QED
            BY <6>1
        <5>2. CASE j # work[w].id
          BY <2>5, <5>2, UpdateRows
        <5> QED
          BY <5>1, <5>2
      <4> QED
        BY <2>5, <4>1, UpdateRows
    <3> QED
      BY <2>1, <2>2, <3>1, <3>2
  <2>6. CASE Remove(w)
    <3>1. lastId' = lastId
      BY <2>6 DEF Remove
    <3> QED
      BY <2>1, <2>2, <2>6, <3>1, RemoveRows
  <2> QED
    BY <2>4, <2>5, <2>6
<1> QED
  BY <1>3, <1>4, <1>5 DEF StorageInv

LEMMA StorageStep == TypeOK /\ StorageInv /\ [Next]_vars => StorageInv'
<1> SUFFICES ASSUME TypeOK, StorageInv, [Next]_vars PROVE StorageInv'
  OBVIOUS
<1>1. ASSUME NEW w \in Workers,
             \/ Receive(w) \/ Load(w) \/ GetDocument(w) \/ WriteFails(w) \/ Refresh(w) \/ Respond(w)
      PROVE  Quiet(w)
  BY <1>1, ReceiveRequest, AcceptQuiet, LoadQuiet, GetQuiet, WriteFailsQuiet, RefreshQuiet, RespondQuiet
<1>2. CASE UNCHANGED vars
  BY <1>2 DEF vars, StorageInv, DrawnTagsAreTheWriters, DrawnTagsAreFresh, KeptIdsAreTheWriters, HoldsTag
<1> QED
  BY <1>1, <1>2, QuietKeepsStorage, PutKeepsStorage, DeleteKeepsStorage, CommitKeepsStorage DEF Next

(* The inductive invariant holds: tags drawn are the writers' own and new,  *)
(* and where ids are not reused a kept id never comes to name another row.  *)
THEOREM StorageInvariant == Spec => []StorageInv
<1>1. Init => StorageInv
  BY DEF Init, StorageInv, DrawnTagsAreTheWriters, DrawnTagsAreFresh, KeptIdsAreTheWriters, HoldsTag
<1> QED
  BY <1>1, StorageStep, TypeCorrect, PTL DEF Spec

-----------------------------------------------------------------------------
(* Entity tags name versions.                                               *)

LEMMA StoredStep ==
    ASSUME AutoIncrement, TypeOK, StorageInv, StoredTagsAreTrue, [Next]_vars
    PROVE  StoredTagsAreTrue'
<1> DEFINE True(row) == /\ row.etag \in 1 .. Len(versions')
                        /\ versions'[row.etag] = [key |-> row.key, doc |-> row.doc]
<1>1. /\ 1 .. Len(versions) \subseteq 1 .. Len(versions')
      /\ \A e \in 1 .. Len(versions) : versions'[e] = versions[e]
  BY VersionsGrow
<1>2. \A j \in DOMAIN rows : True(rows[j])
  BY <1>1 DEF StoredTagsAreTrue
<1>3. ASSUME NEW w \in Workers, pc[w] \in {"insert", "update"}, NEW row,
             row = [key |-> req[w].key, doc |-> work[w].doc, etag |-> work[w].etag]
      PROVE  True(row)
  BY <1>1, <1>3 DEF StorageInv, DrawnTagsAreTheWriters
<1>4. SUFFICES ASSUME NEW j \in DOMAIN rows' PROVE True(rows'[j])
  BY DEF StoredTagsAreTrue
<1> HIDE DEF True
<1>5. ASSUME NEW w \in Workers, Insert(w) PROVE True(rows'[j])
  <2>1. pc[w] = "insert"
    BY <1>5 DEF Insert
  <2>2. PICK i \in Nat \ DOMAIN rows :
          /\ DOMAIN rows' = DOMAIN rows \cup {i}
          /\ rows'[i] = [key |-> req[w].key, doc |-> work[w].doc, etag |-> work[w].etag]
          /\ \A k \in DOMAIN rows : rows'[k] = rows[k]
    BY <1>5, InsertRows
  <2>3. True(rows'[i])
    BY <1>3, <2>1, <2>2
  <2> QED
    BY <1>2, <2>2, <2>3
<1>6. ASSUME NEW w \in Workers, Update(w) PROVE True(rows'[j])
  <2>1. pc[w] = "update"
    BY <1>6 DEF Update
  <2>2. rows[work[w].id].key = req[w].key
    BY <1>6, <2>1, UpdateRows DEF StorageInv, KeptIdsAreTheWriters
  <2> QED
    BY <1>2, <1>3, <1>6, <2>1, <2>2, UpdateRows
<1>7. ASSUME NEW w \in Workers, Remove(w) PROVE True(rows'[j])
  BY <1>2, <1>7, RemoveRows
<1>8. CASE UNCHANGED rows
  BY <1>2, <1>8
<1> QED
  BY <1>5, <1>6, <1>7, <1>8, OtherRows DEF Next, vars

LEMMA AnsweredStep ==
    ASSUME TypeOK, StorageInv, EtagNamesVersion, [Next]_vars
    PROVE  AnsweredTagsAreTrue'
<1> SUFFICES ASSUME NEW v \in Workers, pc'[v] = "done", answer'[v].etag # NoEtag
             PROVE  /\ answer'[v].etag \in 1 .. Len(versions')
                    /\ versions'[answer'[v].etag] =
                         [key |-> req'[v].key,
                          doc |-> IF req'[v].method = "get" THEN answer'[v].doc ELSE work'[v].doc]
  BY DEF AnsweredTagsAreTrue
<1>1. /\ 1 .. Len(versions) \subseteq 1 .. Len(versions')
      /\ \A e \in 1 .. Len(versions) : versions'[e] = versions[e]
  BY VersionsGrow
<1>2. CASE pc'[v] = pc[v] /\ req'[v] = req[v] /\ work'[v] = work[v] /\ answer'[v] = answer[v]
  BY <1>1, <1>2 DEF EtagNamesVersion, AnsweredTagsAreTrue
<1>3. ASSUME NEW w \in Workers, OthersKeep(w), v # w
      PROVE  pc'[v] = pc[v] /\ req'[v] = req[v] /\ work'[v] = work[v] /\ answer'[v] = answer[v]
  BY <1>3 DEF OthersKeep
<1>4. ASSUME NEW w \in Workers, Receive(w) PROVE v # w /\ OthersKeep(w)
  BY <1>4, ReceiveRequest, AcceptQuiet DEF Quiet, Reply, Outcome
<1>5. ASSUME NEW w \in Workers, Load(w) PROVE v # w /\ OthersKeep(w)
  BY <1>5, LoadQuiet DEF Quiet
<1>6. ASSUME NEW w \in Workers, GetDocument(w), v = w
      PROVE  \E i \in DOMAIN rows : /\ req'[v].method = "get" /\ rows[i].key = req'[v].key
                                   /\ answer'[v].etag = rows[i].etag /\ answer'[v].doc = rows[i].doc
  BY <1>6, GetQuiet
<1>7. ASSUME NEW w \in Workers, FetchForPut(w), v = w
      PROVE  \E i \in DOMAIN rows : /\ req'[v].method # "get" /\ rows[i].key = req'[v].key
                                   /\ answer'[v].etag = rows[i].etag /\ work'[v].doc = rows[i].doc
  BY <1>7, PutCases DEF IsWrite
<1>8. ASSUME NEW w \in Workers, FetchForDelete(w) PROVE v # w /\ OthersKeep(w)
  BY <1>8, DeleteCases
<1>9. ASSUME NEW w \in Workers, Insert(w) \/ Update(w) PROVE v # w /\ OthersKeep(w)
  BY <1>9, CommitKeeps DEF Insert, Update, Remove
<1>10. ASSUME NEW w \in Workers, Remove(w) PROVE v # w /\ OthersKeep(w)
  <2>1. answer'[w].etag = NoEtag
    BY <1>10, FinishOthers DEF Remove, Outcome
  <2> QED
    BY <1>10, <2>1, CommitKeeps
<1>11. ASSUME NEW w \in Workers, WriteFails(w) PROVE v # w /\ OthersKeep(w)
  BY <1>11, WriteFailsQuiet DEF Quiet
<1>12. ASSUME NEW w \in Workers, Refresh(w), v = w
       PROVE  /\ req'[v].method # "get" /\ answer'[v].etag \in 1 .. Len(versions)
              /\ versions[answer'[v].etag] = [key |-> req'[v].key, doc |-> work'[v].doc]
  BY <1>12, RefreshQuiet DEF StorageInv, DrawnTagsAreTheWriters
<1>13. ASSUME NEW w \in Workers, Respond(w) PROVE v # w /\ OthersKeep(w)
  BY <1>13, RespondQuiet DEF Quiet
<1>14. ASSUME NEW w \in Workers, GetDocument(w) \/ FetchForPut(w) \/ Refresh(w) PROVE OthersKeep(w)
  BY <1>14, GetQuiet, PutCases, RefreshQuiet DEF Quiet
<1> DEFINE FromRow ==
      \E i \in DOMAIN rows :
         /\ rows[i].key = req'[v].key /\ answer'[v].etag = rows[i].etag
         /\ rows[i].doc = IF req'[v].method = "get" THEN answer'[v].doc ELSE work'[v].doc
<1>15. CASE FromRow
  BY <1>1, <1>15 DEF EtagNamesVersion, StoredTagsAreTrue
<1>16. CASE /\ req'[v].method # "get" /\ answer'[v].etag \in 1 .. Len(versions)
            /\ versions[answer'[v].etag] = [key |-> req'[v].key, doc |-> work'[v].doc]
  BY <1>1, <1>16
<1>17. CASE UNCHANGED vars
  BY <1>2, <1>17 DEF vars
<1>18. ASSUME NEW w \in Workers, GetDocument(w), v = w PROVE FromRow
  BY <1>6, <1>18
<1>19. ASSUME NEW w \in Workers, FetchForPut(w), v = w PROVE FromRow
  BY <1>7, <1>19
<1> HIDE DEF FromRow
<1> QED
  BY <1>2, <1>3, <1>4, <1>5, <1>8, <1>9, <1>10, <1>11, <1>12, <1>13, <1>14, <1>15, <1>16,
     <1>14, <1>17, <1>18, <1>19 DEF Next

(* Where ids are not reused, a tag names one version of one document: both  *)
(* what is stored under it and what any request is answered under it. (With *)
(* reused ids it does not: the run SQLiteIdReuse shows how.)                *)
THEOREM EtagsNameVersions == ASSUME AutoIncrement PROVE Spec => []EtagNamesVersion
<1>1. Init => EtagNamesVersion
  BY DEF Init, EtagNamesVersion, StoredTagsAreTrue, AnsweredTagsAreTrue
<1>2. TypeOK /\ StorageInv /\ EtagNamesVersion /\ [Next]_vars => EtagNamesVersion'
  BY StoredStep, AnsweredStep DEF EtagNamesVersion
<1> QED
  BY <1>1, <1>2, StorageInvariant, TypeCorrect, PTL DEF Spec

-----------------------------------------------------------------------------
(* What a step may do to the documents.                                     *)

(* Whatever a step of one worker does, the others' programs stand still.    *)
LEMMA StepsAlone ==
    ASSUME TypeOK, NEW w \in Workers,
           \/ Receive(w) \/ Load(w) \/ GetDocument(w) \/ FetchForPut(w) \/ FetchForDelete(w)
           \/ Insert(w) \/ Update(w) \/ Remove(w) \/ WriteFails(w) \/ Refresh(w) \/ Respond(w)
    PROVE  OthersKeep(w)
BY ReceiveRequest, AcceptQuiet, LoadQuiet, GetQuiet, PutCases, DeleteCases, CommitKeeps,
   WriteFailsQuiet, RefreshQuiet, RespondQuiet DEF Quiet

LEMMA OnlyDocumentPutInserts ==
    ASSUME TypeOK, StorageInv, [Next]_vars,
           NEW k \in Keys, RowsOf(k) = {}, RowsOf(k)' # {}
    PROVE  \E w \in Workers : Insert(w) /\ req[w].key = k
<1>1. PICK j \in DOMAIN rows' : rows'[j].key = k
  BY DEF RowsOf
<1>2. \A i \in DOMAIN rows : rows[i].key # k
  BY DEF RowsOf
<1>3. ASSUME NEW w \in Workers, Insert(w) PROVE req[w].key = k
  <2>1. PICK i \in Nat \ DOMAIN rows :
          /\ DOMAIN rows' = DOMAIN rows \cup {i}
          /\ rows'[i] = [key |-> req[w].key, doc |-> work[w].doc, etag |-> work[w].etag]
          /\ \A n \in DOMAIN rows : rows'[n] = rows[n]
    BY <1>3, InsertRows
  <2>2. j = i
    BY <1>1, <1>2, <2>1
  <2> QED
    BY <1>1, <2>1, <2>2
<1>4. ASSUME NEW w \in Workers, Update(w) PROVE FALSE
  <2>1. j \in DOMAIN rows
    BY <1>4, UpdateRows
  <2>2. j = work[w].id
    BY <1>1, <1>2, <1>4, <2>1, UpdateRows
  <2>3. rows'[j] = [key |-> rows[j].key, doc |-> work[w].doc, etag |-> work[w].etag]
    BY <1>4, <2>2, UpdateRows
  <2> QED
    BY <1>1, <1>2, <2>1, <2>3
<1>5. ASSUME NEW w \in Workers, Remove(w) PROVE FALSE
  BY <1>1, <1>2, <1>5, RemoveRows
<1>6. CASE UNCHANGED rows
  BY <1>1, <1>2, <1>6
<1> QED
  BY <1>3, <1>4, <1>5, <1>6, OtherRows DEF Next, vars

(* Only the PUT of a whole document inserts.                                *)
WholePutInserts == \A w \in Workers : pc[w] = "insert" =>
                       req[w].method = "put" /\ IsWholeDocument(req[w])

LEMMA WholePutStep == TypeOK /\ WholePutInserts /\ [Next]_vars => WholePutInserts'
<1> SUFFICES ASSUME TypeOK, WholePutInserts, [Next]_vars PROVE WholePutInserts'
  OBVIOUS
<1> SUFFICES ASSUME NEW v \in Workers, pc'[v] = "insert"
             PROVE  req'[v].method = "put" /\ IsWholeDocument(req'[v])
  BY DEF WholePutInserts
<1>1. CASE pc'[v] = pc[v] /\ req'[v] = req[v]
  BY <1>1 DEF WholePutInserts
<1>2. ASSUME NEW w \in Workers, FetchForPut(w), v = w
      PROVE  req'[v].method = "put" /\ IsWholeDocument(req'[v])
  BY <1>2, PutCases DEF IsWrite
<1>3. ASSUME NEW w \in Workers,
             \/ Receive(w) \/ Load(w) \/ GetDocument(w) \/ FetchForDelete(w)
             \/ Insert(w) \/ Update(w) \/ Remove(w) \/ WriteFails(w) \/ Refresh(w) \/ Respond(w)
      PROVE  pc'[w] # "insert"
  BY <1>3, ReceiveRequest, AcceptQuiet, LoadQuiet, GetQuiet, DeleteCases, CommitKeeps,
     WriteFailsQuiet, RefreshQuiet, RespondQuiet DEF Quiet
<1>4. ASSUME NEW w \in Workers, OthersKeep(w), v # w PROVE pc'[v] = pc[v] /\ req'[v] = req[v]
  BY <1>4 DEF OthersKeep
<1>5. CASE UNCHANGED vars
  BY <1>1, <1>5 DEF vars
<1> QED
  BY <1>1, <1>2, <1>3, <1>4, <1>5, StepsAlone DEF Next

(* A document comes into being only by the PUT of the whole document: no    *)
(* interleaving makes a node update bring a deleted document back.          *)
THEOREM OnlyPutCreates == Spec => OnlyDocumentPutCreates
<1>1. Init => WholePutInserts
  BY DEF Init, WholePutInserts
<1>2. ASSUME TypeOK, StorageInv, WholePutInserts, [Next]_vars
      PROVE  [\A k \in Keys : RowsOf(k) = {} /\ RowsOf(k)' # {} =>
                 \E w \in Workers : /\ pc[w] # pc'[w]
                                    /\ req[w].key = k /\ req[w].method = "put"
                                    /\ IsWholeDocument(req[w])]_vars
  <2> SUFFICES ASSUME NEW k \in Keys, RowsOf(k) = {}, RowsOf(k)' # {}
               PROVE  \E w \in Workers : /\ pc[w] # pc'[w]
                                         /\ req[w].key = k /\ req[w].method = "put"
                                         /\ IsWholeDocument(req[w])
    OBVIOUS
  <2>1. PICK w \in Workers : Insert(w) /\ req[w].key = k
    BY <1>2, OnlyDocumentPutInserts
  <2>2. pc[w] = "insert" /\ pc'[w] = "refresh"
    BY <1>2, <2>1, GotoOthers DEF Insert
  <2> QED
    BY <1>2, <2>1, <2>2 DEF WholePutInserts
<1> QED
  BY <1>1, <1>2, WholePutStep, StorageInvariant, TypeCorrect, PTL DEF Spec, OnlyDocumentPutCreates

-----------------------------------------------------------------------------
(* The storage implements the versioned store.                              *)

LEMMA OneVersion ==
    ASSUME NEW k, NEW i, RowsOf(k) = {i}
    PROVE  CurrentVersion(k) = [etag |-> rows[i].etag, doc |-> rows[i].doc]
<1>1. RowsOf(k) # {} /\ (CHOOSE j \in RowsOf(k) : TRUE) = i
  OBVIOUS
<1> QED
  BY <1>1 DEF CurrentVersion

LEMMA OneVersionNext ==
    ASSUME NEW k, NEW i, RowsOf(k)' = {i}
    PROVE  CurrentVersion(k)' = [etag |-> rows'[i].etag, doc |-> rows'[i].doc]
<1>1. RowsOf(k)' # {} /\ (CHOOSE j \in RowsOf(k)' : TRUE) = i
  OBVIOUS
<1> QED
  BY <1>1 DEF CurrentVersion

LEMMA RowIsOnly ==
    ASSUME OneRowPerDocument, NEW i \in DOMAIN rows
    PROVE  RowsOf(rows[i].key) = {i}
BY DEF OneRowPerDocument, RowsOf

LEMMA VersionKept ==
    ASSUME OneRowPerDocument, NEW k, RowsOf(k)' = RowsOf(k),
           \A i \in RowsOf(k) : rows'[i] = rows[i]
    PROVE  CurrentVersion(k)' = CurrentVersion(k)
<1>1. CASE RowsOf(k) = {}
  BY <1>1 DEF CurrentVersion
<1>2. CASE RowsOf(k) # {}
  <2>1. PICK i \in RowsOf(k) : RowsOf(k) = {i}
    BY <1>2, RowIsOnly DEF RowsOf
  <2> QED
    BY <2>1, OneVersion, OneVersionNext
<1> QED
  BY <1>1, <1>2

LEMMA StoreExcept ==
    ASSUME NEW K \in Keys, NEW v, CurrentVersion(K)' = v,
           \A k \in Keys \ {K} : CurrentVersion(k)' = CurrentVersion(k)
    PROVE  Store' = [Store EXCEPT ![K] = v]
BY DEF Store

LEMMA StoreKept == ASSUME UNCHANGED rows PROVE UNCHANGED Store
<1>1. \A k : RowsOf(k)' = RowsOf(k)
  BY DEF RowsOf
<1>2. \A k : CurrentVersion(k)' = CurrentVersion(k)
  BY <1>1 DEF CurrentVersion
<1> QED
  BY <1>2 DEF Store

LEMMA InsertWrites ==
    ASSUME TypeOK, OneRowPerDocument, NEW w \in Workers, Insert(w)
    PROVE  Store' = [Store EXCEPT ![req[w].key] = [etag |-> work[w].etag, doc |-> work[w].doc]]
<1>0. PICK K : K = req[w].key
  OBVIOUS
<1>1. PICK i \in Nat \ DOMAIN rows :
          /\ DOMAIN rows' = DOMAIN rows \cup {i}
          /\ rows'[i] = [key |-> req[w].key, doc |-> work[w].doc, etag |-> work[w].etag]
          /\ \A j \in DOMAIN rows : rows'[j] = rows[j]
  BY InsertRows
<1>2. RowsOf(K) = {} /\ K \in Keys
  BY <1>0 DEF Insert, Unoccupied, TypeOK, Request
<1>3. RowsOf(K)' = {i}
  BY <1>0, <1>1, <1>2 DEF RowsOf
<1>4. CurrentVersion(K)' = [etag |-> work[w].etag, doc |-> work[w].doc]
  BY <1>1, <1>3, OneVersionNext
<1>5. \A k \in Keys \ {K} : CurrentVersion(k)' = CurrentVersion(k)
  <2> TAKE k \in Keys \ {K}
  <2>1. RowsOf(k)' = RowsOf(k) /\ \A j \in RowsOf(k) : rows'[j] = rows[j]
    BY <1>0, <1>1 DEF RowsOf
  <2> QED
    BY <2>1, VersionKept
<1> QED
  BY <1>0, <1>2, <1>4, <1>5, StoreExcept

LEMMA UpdateWrites ==
    ASSUME TypeOK, OneRowPerDocument, NEW w \in Workers, Update(w)
    PROVE  \E k \in Keys : 
             Store' = [Store EXCEPT ![k] = [etag |-> work[w].etag, doc |-> work[w].doc]]
<1>0. PICK id, K : id = work[w].id /\ K = rows[id].key
  OBVIOUS
<1>1. /\ id \in DOMAIN rows /\ DOMAIN rows' = DOMAIN rows
      /\ rows'[id] = [key |-> rows[id].key, doc |-> work[w].doc, etag |-> work[w].etag]
      /\ \A j \in DOMAIN rows \ {id} : rows'[j] = rows[j]
  BY <1>0, UpdateRows
<1>2. K \in Keys
  BY <1>0, <1>1 DEF TypeOK, Row
<1>3. \A j \in DOMAIN rows : rows'[j].key = rows[j].key
  BY <1>1
<1>4. \A k : RowsOf(k)' = RowsOf(k)
  BY <1>1, <1>3 DEF RowsOf
<1>5. RowsOf(K) = {id}
  BY <1>0, <1>1, RowIsOnly
<1>6. CurrentVersion(K)' = [etag |-> work[w].etag, doc |-> work[w].doc]
  BY <1>1, <1>4, <1>5, OneVersionNext
<1>7. \A k \in Keys \ {K} : CurrentVersion(k)' = CurrentVersion(k)
  <2> TAKE k \in Keys \ {K}
  <2>1. \A j \in RowsOf(k) : rows'[j] = rows[j]
    BY <1>0, <1>1 DEF RowsOf
  <2> QED
    BY <1>4, <2>1, VersionKept
<1> QED
  BY <1>2, <1>6, <1>7, StoreExcept

LEMMA RemoveWrites ==
    ASSUME TypeOK, OneRowPerDocument, NEW w \in Workers, Remove(w)
    PROVE  \/ UNCHANGED Store
           \/ \E k \in Keys : Store' = [Store EXCEPT ![k] = [etag |-> 0, doc |-> {}]]
<1>0. PICK id, K : id = work[w].id /\ K = rows[id].key
  OBVIOUS
<1>1. DOMAIN rows' = DOMAIN rows \ {id} /\ \A j \in DOMAIN rows' : rows'[j] = rows[j]
  BY <1>0, RemoveRows
<1>2. CASE id \notin DOMAIN rows
  <2>1. \A k : RowsOf(k)' = RowsOf(k) /\ \A j \in RowsOf(k) : rows'[j] = rows[j]
    BY <1>1, <1>2 DEF RowsOf
  <2>2. \A k : CurrentVersion(k)' = CurrentVersion(k)
    BY <2>1, VersionKept
  <2> QED
    BY <2>2 DEF Store
<1>3. CASE id \in DOMAIN rows
  <2>1. K \in Keys /\ RowsOf(K) = {id}
    BY <1>0, <1>3, RowIsOnly DEF TypeOK, Row
  <2>2. RowsOf(K)' = {}
    BY <1>1, <2>1 DEF RowsOf
  <2>3. CurrentVersion(K)' = [etag |-> 0, doc |-> {}]
    BY <2>2 DEF CurrentVersion
  <2>4. \A k \in Keys \ {K} : CurrentVersion(k)' = CurrentVersion(k)
    <3> TAKE k \in Keys \ {K}
    <3>1. RowsOf(k)' = RowsOf(k) /\ \A j \in RowsOf(k) : rows'[j] = rows[j]
      BY <1>0, <1>1, <1>3 DEF RowsOf
    <3> QED
      BY <3>1, VersionKept
  <2> QED
    BY <2>1, <2>3, <2>4, StoreExcept
<1> QED
  BY <1>2, <1>3

LEMMA RefinementStep ==
    ASSUME TypeOK, OneRowPerDocument, StorageInv, [Next]_vars
    PROVE  [VS!Next]_<<Store, Len(versions), used>>
<1> DEFINE Stutter == UNCHANGED <<Store, Len(versions), used>>
<1>1. CASE UNCHANGED <<rows, versions, used>>
  BY <1>1, StoreKept
<1>2. ASSUME NEW w \in Workers, FetchForPut(w)
      PROVE  VS!Issue \/ UNCHANGED <<rows, versions, used>>
  <2>1. CASE DrawEtag(w)
    <3>1. Len(versions') = Len(versions) + 1
      BY <2>1, DrawType DEF NewEtag
    <3>2. UNCHANGED <<rows, used>>
      BY <1>2, PutCases
    <3> QED
      BY <3>1, <3>2, StoreKept DEF VS!Issue
  <2>2. CASE UNCHANGED versions
    BY <1>2, <2>2, PutCases
  <2> QED
    BY <1>2, <2>1, <2>2, PutCases
<1>3. ASSUME NEW w \in Workers, Insert(w) \/ Update(w)
      PROVE  \E k \in Keys, e \in 1 .. Len(versions), d \in Docs : VS!Write(k, e, d)
  <2>1. HoldsTag(w)
    BY <1>3 DEF HoldsTag, Insert, Update
  <2>2. work[w].etag \in 1 .. Len(versions) /\ work[w].etag \notin used
    BY <2>1 DEF HoldsTag, StorageInv, DrawnTagsAreTheWriters, DrawnTagsAreFresh
  <2>3. work[w].doc \in Docs /\ req[w].key \in Keys
    BY DEF TypeOK, Work, Request
  <2>4. used' = used \cup {work[w].etag} /\ UNCHANGED versions
    BY <1>3 DEF Insert, Update
  <2>5. PICK k \in Keys :
          Store' = [Store EXCEPT ![k] = [etag |-> work[w].etag, doc |-> work[w].doc]]
    BY <1>3, <2>3, InsertWrites, UpdateWrites
  <2>6. VS!Write(k, work[w].etag, work[w].doc)
    BY <2>2, <2>4, <2>5 DEF VS!Write
  <2> QED
    BY <2>2, <2>3, <2>6
<1>4. ASSUME NEW w \in Workers, Remove(w)
      PROVE  (\E k \in Keys : VS!Remove(k)) \/ Stutter
  <2>1. UNCHANGED <<versions, used>>
    BY <1>4 DEF Remove
  <2> QED
    BY <1>4, <2>1, RemoveWrites DEF VS!Remove, VS!NoVersion
<1>5. ASSUME NEW w \in Workers,
             \/ Receive(w) \/ Load(w) \/ GetDocument(w) \/ FetchForDelete(w)
             \/ WriteFails(w) \/ Refresh(w) \/ Respond(w)
      PROVE  UNCHANGED <<rows, versions, used>>
  BY <1>5, ReceiveRequest, AcceptQuiet, LoadQuiet, GetQuiet, DeleteCases, WriteFailsQuiet,
     RefreshQuiet, RespondQuiet DEF Quiet
<1>6. CASE UNCHANGED vars
  BY <1>1, <1>6 DEF vars
<1> HIDE DEF Stutter
<1>7. VS!Next \/ Stutter
  BY <1>1, <1>2, <1>3, <1>4, <1>5, <1>6 DEF Next, VS!Next, Stutter
<1> QED
  BY <1>7 DEF Stutter

(* However requests interleave, and whether or not ids are reused, the      *)
(* table behaves as a versioned store: every change of a document is one    *)
(* step that touches no other and makes a version with a tag never used.    *)
THEOREM Refinement == Spec => ImplementsVersionedStore
<1>1. Init => VS!Init
  <2> SUFFICES ASSUME Init PROVE VS!Init
    OBVIOUS
  <2>1. \A k : RowsOf(k) = {}
    BY DEF Init, RowsOf
  <2>2. Store = [k \in Keys |-> [etag |-> 0, doc |-> {}]]
    BY <2>1 DEF Store, CurrentVersion
  <2>3. Len(versions) = 0 /\ used = {}
    BY DEF Init
  <2> QED
    BY <2>2, <2>3 DEF VS!Init, VS!NoVersion
<1>2. TypeOK /\ OneRowPerDocument /\ StorageInv /\ [Next]_vars
        => [VS!Next]_<<Store, Len(versions), used>>
  BY RefinementStep
<1> QED
  BY <1>1, <1>2, OneRowAlways, StorageInvariant, TypeCorrect, PTL
     DEF Spec, ImplementsVersionedStore, VS!Spec

-----------------------------------------------------------------------------
(* What a write that is on its way was computed from, and checked against.  *)

(* What the headers ask of the tag a request found.                         *)
Admits(c, etag) ==
    /\ Given(c.ifMatch) => c.ifMatch.star \/ etag \in c.ifMatch.tags
    /\ Given(c.ifNoneMatch) /\ ~c.ifModified => ~c.ifNoneMatch.star /\ etag \notin c.ifNoneMatch.tags

LEMMA CheckedOnRow ==
    ASSUME NEW m, NEW c, NEW e, CheckEtag(m, c, e, TRUE) = "ok"
    PROVE  Admits(c, e)
<1>1. MatchETag(c.ifMatch, TRUE, e) \/ ~Given(c.ifMatch)
  BY DEF CheckEtag, CheckPreconditions
<1>2. ~NoneMatchFails(c, TRUE, e)
  BY DEF CheckEtag, CheckPreconditions
<1> QED
  BY <1>1, <1>2 DEF MatchETag, NoneMatchFails, Admits

LEMMA CheckedOnNone ==
    ASSUME NEW m, NEW c, NoEtag \notin c.ifMatch.tags, CheckEtag(m, c, NoEtag, FALSE) = "ok"
    PROVE  ~Given(c.ifMatch) /\ ~c.ifUnmodified
BY DEF CheckEtag, CheckPreconditions, MatchETag

LEMMA LoadFinds ==
    ASSUME TypeOK, NEW w \in Workers, Load(w), pc'[w] = "fetch"
    PROVE  \E i \in DOMAIN rows :
             /\ CheckEtag(req[w].method, req[w].cond, rows[i].etag, TRUE) = "ok"
             /\ NodeUpdate(req[w], rows[i].doc) \in ValidDocs
             /\ work'[w].base = rows[i].etag
             /\ work'[w].doc = NodeUpdate(req[w], rows[i].doc)
<1>1. ASSUME NEW a, Finish(w, a) PROVE FALSE
  BY <1>1, FinishOthers
<1>2. PICK i \in DOMAIN rows : Recompute(w, rows[i])
  BY <1>1 DEF Load
<1> DEFINE new == [NoWork EXCEPT !.base = rows[i].etag, !.doc = NodeUpdate(req[w], rows[i].doc),
                     !.created = req[w].method = "put" /\ req[w].target \in Elements \ rows[i].doc]
<1>3. /\ CheckEtag(req[w].method, req[w].cond, rows[i].etag, TRUE) = "ok"
      /\ NodeVerdict(req[w], rows[i].doc) = "ok"
      /\ work' = [work EXCEPT ![w] = new]
  BY <1>1, <1>2 DEF Recompute
<1>4. new.base = rows[i].etag /\ new.doc = NodeUpdate(req[w], rows[i].doc)
  BY DEF NoWork
<1>5. work'[w] = new
  BY <1>3 DEF TypeOK
<1>6. NodeUpdate(req[w], rows[i].doc) \in ValidDocs
  BY <1>3 DEF NodeVerdict
<1> QED
  BY <1>3, <1>4, <1>5, <1>6

LEMMA PutFinds ==
    ASSUME TypeOK, NEW w \in Workers, FetchForPut(w)
    PROVE  /\ work'[w].base = work[w].base
           /\ pc'[w] = "insert" => CheckEtag(req[w].method, req[w].cond, NoEtag, FALSE) = "ok"
           /\ pc'[w] = "update" => \E i \in DOMAIN rows :
                 /\ CheckEtag(req[w].method, req[w].cond, rows[i].etag, TRUE) = "ok"
                 /\ work'[w].old = rows[i].etag
<1> DEFINE Done == UNCHANGED work /\ pc'[w] = "done"
<1>1. ASSUME NEW a, Finish(w, a), UNCHANGED work PROVE Done
  BY <1>1, FinishOthers
<1>2. ASSUME PutAbsent(w), ~Done
      PROVE  /\ work'[w].base = work[w].base /\ pc'[w] = "insert"
             /\ CheckEtag(req[w].method, req[w].cond, NoEtag, FALSE) = "ok"
  <2>1. AbsentCheck(req[w]) = "ok"
    BY <1>1, <1>2 DEF PutAbsent
  <2>2. /\ work' = [work EXCEPT ![w] = [work[w] EXCEPT !.etag = NewEtag, !.created = TRUE]]
        /\ Goto(w, "insert")
    BY <1>2, <2>1 DEF PutAbsent
  <2>3. work'[w].base = work[w].base
    BY <2>2 DEF TypeOK, Work
  <2> QED
    BY <2>1, <2>2, <2>3, GotoOthers DEF AbsentCheck
<1>3. ASSUME NEW i \in DOMAIN rows, PutExisting(w, i), ~Done
      PROVE  /\ work'[w].base = work[w].base /\ pc'[w] = "update"
             /\ CheckEtag(req[w].method, req[w].cond, rows[i].etag, TRUE) = "ok"
             /\ work'[w].old = rows[i].etag
  <2> DEFINE new == Holding(work[w], NewEtag, i, rows[i].etag)
  <2>1. /\ CheckEtag(req[w].method, req[w].cond, rows[i].etag, TRUE) = "ok"
        /\ work' = [work EXCEPT ![w] = new] /\ Goto(w, "update")
    BY <1>1, <1>3 DEF PutExisting
  <2>2. new.base = work[w].base /\ new.old = rows[i].etag
    BY DEF Holding
  <2>3. work'[w] = new
    BY <2>1 DEF TypeOK
  <2> QED
    BY <2>1, <2>2, <2>3, GotoOthers
<1>4. Done \/ PutAbsent(w) \/ \E i \in DOMAIN rows : PutExisting(w, i)
  BY <1>1 DEF FetchForPut
<1> HIDE DEF Done
<1>5. CASE Done
  BY <1>5 DEF Done
<1> QED
  BY <1>2, <1>3, <1>4, <1>5

LEMMA DeleteFinds ==
    ASSUME TypeOK, NEW w \in Workers, FetchForDelete(w), pc'[w] = "remove"
    PROVE  \E i \in DOMAIN rows :
             /\ CheckEtag("delete", req[w].cond, rows[i].etag, TRUE) = "ok"
             /\ work'[w].old = rows[i].etag
<1>1. ASSUME NEW a, Finish(w, a) PROVE FALSE
  BY <1>1, FinishOthers
<1>2. PICK i \in DOMAIN rows : DeleteExisting(w, i)
  BY <1>1 DEF FetchForDelete
<1> DEFINE new == [work[w] EXCEPT !.id = i, !.old = rows[i].etag]
<1>3. /\ CheckEtag("delete", req[w].cond, rows[i].etag, TRUE) = "ok"
      /\ work' = [work EXCEPT ![w] = new]
  BY <1>1, <1>2 DEF DeleteExisting
<1>4. new.old = rows[i].etag /\ work'[w] = new
  BY <1>3 DEF TypeOK, Work
<1> QED
  BY <1>3, <1>4

(* The row of a tag has the document the tag was drawn for, whatever became *)
(* of its id.                                                               *)
RowsInv == \A i \in DOMAIN rows :
               /\ rows[i].doc \in ValidDocs
               /\ rows[i].etag \in 1 .. Len(versions)
               /\ versions[rows[i].etag].doc = rows[i].doc

ComputedFromMatch(w) ==
    /\ work[w].base \in 1 .. Len(versions)
    /\ work[w].doc = NodeUpdate(req[w], versions[work[w].base].doc)
    /\ Given(req[w].cond.ifMatch) /\ ~req[w].cond.ifMatch.star
          => work[w].base \in req[w].cond.ifMatch.tags

(* What a request carries from one read to the next, and to its write.      *)
Warranted(w) ==
    /\ NoEtag \notin req[w].cond.ifMatch.tags
    /\ pc[w] \in {"insert", "update"} => IsWrite(req[w])
    /\ pc[w] \in {"fetch", "insert", "update"} /\ IsWrite(req[w]) => work[w].doc \in ValidDocs
    /\ pc[w] \in {"fetch", "update"} /\ IsWrite(req[w]) /\ ~IsWholeDocument(req[w])
          => ComputedFromMatch(w)
    /\ pc[w] = "insert" => ~Given(req[w].cond.ifMatch) /\ ~req[w].cond.ifUnmodified
    /\ pc[w] \in {"update", "remove"} => Admits(req[w].cond, work[w].old)

WarrantInv == RowsInv /\ \A w \in Workers : Warranted(w)

LEMMA WarrantInit == Init => WarrantInv
BY DEF Init, WarrantInv, RowsInv, Warranted, NoRequest, Unconditional, NoHeader

LEMMA RowsStep == TypeOK /\ StorageInv /\ WarrantInv /\ [Next]_vars => RowsInv'
<1> SUFFICES ASSUME TypeOK, StorageInv, WarrantInv, [Next]_vars, NEW i \in DOMAIN rows'
             PROVE  /\ rows'[i].doc \in ValidDocs
                    /\ rows'[i].etag \in 1 .. Len(versions')
                    /\ versions'[rows'[i].etag].doc = rows'[i].doc
  BY DEF RowsInv
<1>1. /\ 1 .. Len(versions) \subseteq 1 .. Len(versions')
      /\ \A e \in 1 .. Len(versions) : versions'[e] = versions[e]
  BY VersionsGrow
<1>2. CASE i \in DOMAIN rows /\ rows'[i] = rows[i]
  BY <1>1, <1>2 DEF WarrantInv, RowsInv
<1>3. ASSUME NEW w \in Workers, Insert(w) \/ Update(w),
             rows'[i].doc = work[w].doc, rows'[i].etag = work[w].etag
      PROVE  /\ rows'[i].doc \in ValidDocs
             /\ rows'[i].etag \in 1 .. Len(versions')
             /\ versions'[rows'[i].etag].doc = rows'[i].doc
  <2>1. pc[w] \in {"insert", "update"}
    BY <1>3 DEF Insert, Update
  <2>2. work[w].doc \in ValidDocs
    BY <2>1 DEF WarrantInv, Warranted
  <2>3. /\ work[w].etag \in 1 .. Len(versions)
        /\ versions[work[w].etag] = [key |-> req[w].key, doc |-> work[w].doc]
    BY <2>1 DEF StorageInv, DrawnTagsAreTheWriters
  <2> QED
    BY <1>1, <1>3, <2>2, <2>3
<1>4. ASSUME NEW w \in Workers, Insert(w)
      PROVE  \/ i \in DOMAIN rows /\ rows'[i] = rows[i]
             \/ rows'[i].doc = work[w].doc /\ rows'[i].etag = work[w].etag
  <2>1. PICK n \in Nat \ DOMAIN rows :
          /\ DOMAIN rows' = DOMAIN rows \cup {n}
          /\ rows'[n] = [key |-> req[w].key, doc |-> work[w].doc, etag |-> work[w].etag]
          /\ \A j \in DOMAIN rows : rows'[j] = rows[j]
    BY <1>4, InsertRows
  <2> QED
    BY <2>1
<1>5. ASSUME NEW w \in Workers, Update(w)
      PROVE  \/ i \in DOMAIN rows /\ rows'[i] = rows[i]
             \/ rows'[i].doc = work[w].doc /\ rows'[i].etag = work[w].etag
  <2>1. CASE i = work[w].id
    <3>1. rows'[i] = [key |-> rows[i].key, doc |-> work[w].doc, etag |-> work[w].etag]
      BY <1>5, <2>1, UpdateRows
    <3> QED
      BY <3>1
  <2>2. CASE i # work[w].id
    BY <1>5, <2>2, UpdateRows
  <2> QED
    BY <2>1, <2>2
<1>6. ASSUME NEW w \in Workers, Remove(w) PROVE i \in DOMAIN rows /\ rows'[i] = rows[i]
  BY <1>6, RemoveRows
<1>7. CASE UNCHANGED rows
  BY <1>2, <1>7
<1> QED
  BY <1>2, <1>3, <1>4, <1>5, <1>6, <1>7, OtherRows DEF Next, vars

(* A request that stands still is warranted as it was.                      *)
LEMMA OthersWarranted ==
    ASSUME TypeOK, [Next]_vars, NEW v \in Workers, Warranted(v),
           pc'[v] = pc[v], req'[v] = req[v], work'[v] = work[v]
    PROVE  Warranted(v)'
<1>1. /\ 1 .. Len(versions) \subseteq 1 .. Len(versions')
      /\ \A e \in 1 .. Len(versions) : versions'[e] = versions[e]
  BY VersionsGrow
<1>2. ComputedFromMatch(v) => ComputedFromMatch(v)'
  BY <1>1 DEF ComputedFromMatch
<1> QED
  BY <1>2 DEF Warranted

LEMMA ReceiveWarranted ==
    ASSUME TypeOK, NEW w \in Workers, NEW r \in Request, Accept(w, r) PROVE Warranted(w)'
<1>1. req'[w] = r /\ pc'[w] \in {"done", "load", "fetch"}
  BY AcceptQuiet, FinishOthers, GotoOthers DEF Accept, FirstStep
<1>2. NoEtag \notin r.cond.ifMatch.tags
  BY DEF Accept, NoEtag
<1>3. CASE pc'[w] = "fetch"
  <2>1. ~Invalid(r) /\ (IsWrite(r) => IsWholeDocument(r))
    BY <1>3, FinishOthers, GotoOthers DEF Accept, FirstStep
  <2>2. work'[w].doc = r.body
    BY DEF Accept, TypeOK, NoWork
  <2> QED
    BY <1>1, <1>2, <1>3, <2>1, <2>2 DEF Warranted, Invalid, IsWrite
<1> QED
  BY <1>1, <1>2, <1>3 DEF Warranted

LEMMA LoadWarranted ==
    ASSUME TypeOK, WarrantInv, NEW w \in Workers, Load(w) PROVE Warranted(w)'
<1>1. UNCHANGED <<versions, req>> /\ pc'[w] \in {"done", "fetch"} /\ Warranted(w)
  <2>1. ASSUME NEW row, Recompute(w, row) PROVE pc'[w] \in {"done", "fetch"}
    BY <2>1, RecomputeCases, FinishOthers, GotoOthers
  <2> QED
    BY <2>1, FinishOthers DEF Load, WarrantInv
<1>2. CASE pc'[w] = "fetch"
  <2>1. PICK i \in DOMAIN rows :
             /\ CheckEtag(req[w].method, req[w].cond, rows[i].etag, TRUE) = "ok"
             /\ NodeUpdate(req[w], rows[i].doc) \in ValidDocs
             /\ work'[w].base = rows[i].etag
             /\ work'[w].doc = NodeUpdate(req[w], rows[i].doc)
    BY <1>2, LoadFinds
  <2>2. Admits(req[w].cond, rows[i].etag)
    BY <2>1, CheckedOnRow
  <2>3. ComputedFromMatch(w)'
    BY <1>1, <2>1, <2>2 DEF ComputedFromMatch, Admits, WarrantInv, RowsInv
  <2> QED
    BY <1>1, <1>2, <2>1, <2>3 DEF Warranted
<1> QED
  BY <1>1, <1>2 DEF Warranted

LEMMA PutWarranted ==
    ASSUME TypeOK, [Next]_vars, WarrantInv, NEW w \in Workers, FetchForPut(w) PROVE Warranted(w)'
<1>1. /\ req' = req /\ IsWrite(req[w]) /\ pc[w] = "fetch" /\ Warranted(w)
      /\ pc'[w] \in {"done", "insert", "update"} /\ work'[w].doc = work[w].doc
      /\ pc'[w] = "insert" => IsWholeDocument(req[w])
  <2>1. UNCHANGED work => work'[w].doc = work[w].doc
    OBVIOUS
  <2> QED
    BY <2>1, PutCases DEF FetchForPut, WarrantInv
<1>2. work'[w].base = work[w].base
  BY PutFinds
<1>3. work'[w].doc \in ValidDocs
  BY <1>1 DEF Warranted
<1>4. ~IsWholeDocument(req[w]) => ComputedFromMatch(w)'
  <2>1. /\ 1 .. Len(versions) \subseteq 1 .. Len(versions')
        /\ \A e \in 1 .. Len(versions) : versions'[e] = versions[e]
    BY VersionsGrow
  <2>2. ~IsWholeDocument(req[w]) => ComputedFromMatch(w)
    BY <1>1 DEF Warranted
  <2> QED
    BY <1>1, <1>2, <2>1, <2>2 DEF ComputedFromMatch
<1>5. pc'[w] = "insert" => ~Given(req[w].cond.ifMatch) /\ ~req[w].cond.ifUnmodified
  BY <1>1, PutFinds, CheckedOnNone DEF Warranted
<1>6. pc'[w] = "update" => Admits(req[w].cond, work'[w].old)
  BY PutFinds, CheckedOnRow
<1> QED
  BY <1>1, <1>3, <1>4, <1>5, <1>6 DEF Warranted

LEMMA DeleteWarranted ==
    ASSUME TypeOK, WarrantInv, NEW w \in Workers, FetchForDelete(w) PROVE Warranted(w)'
<1>1. /\ req' = req /\ pc'[w] \in {"done", "remove"} /\ Warranted(w)
  BY DeleteCases DEF WarrantInv
<1>2. pc'[w] = "remove" => Admits(req[w].cond, work'[w].old)
  BY DeleteFinds, CheckedOnRow
<1> QED
  BY <1>1, <1>2 DEF Warranted

LEMMA WarrantStep == TypeOK /\ StorageInv /\ WarrantInv /\ [Next]_vars => WarrantInv'
<1> SUFFICES ASSUME TypeOK, StorageInv, WarrantInv, [Next]_vars PROVE WarrantInv'
  OBVIOUS
<1>1. RowsInv'
  BY RowsStep
<1>2. ASSUME NEW w \in Workers, Warranted(w)', OthersKeep(w) PROVE WarrantInv'
  <2>1. ASSUME NEW v \in Workers, v # w PROVE Warranted(v)'
    BY <1>2, <2>1, OthersWarranted DEF OthersKeep, WarrantInv
  <2> QED
    BY <1>1, <1>2, <2>1 DEF WarrantInv
<1>3. ASSUME NEW w \in Workers, Receive(w) PROVE Warranted(w)'
  BY <1>3, ReceiveRequest, ReceiveWarranted
<1>4. ASSUME NEW w \in Workers, UNCHANGED req, pc'[w] \in {"done", "refresh"} PROVE Warranted(w)'
  BY <1>4 DEF WarrantInv, Warranted
<1>5. ASSUME NEW w \in Workers,
             \/ GetDocument(w) \/ Insert(w) \/ Update(w) \/ Remove(w) \/ WriteFails(w) \/ Refresh(w)
      PROVE  Warranted(w)'
  BY <1>4, <1>5, GetQuiet, CommitKeeps, WriteFailsQuiet, RefreshQuiet
<1>6. ASSUME NEW w \in Workers, Respond(w) PROVE Warranted(w)'
  <2>1. req'[w] = NoRequest /\ pc'[w] = "idle"
    BY <1>6 DEF Respond, TypeOK
  <2> QED
    BY <2>1 DEF Warranted, NoRequest, Unconditional, NoHeader
<1>7. CASE UNCHANGED vars
  <2>1. ASSUME NEW v \in Workers PROVE Warranted(v)'
    BY <1>7, OthersWarranted DEF WarrantInv, vars
  <2> QED
    BY <1>1, <2>1 DEF WarrantInv
<1> QED
  BY <1>2, <1>3, <1>5, <1>6, <1>7, LoadWarranted, PutWarranted, DeleteWarranted, StepsAlone DEF Next

LEMMA WarrantInvariant == Spec => []WarrantInv
BY WarrantInit, WarrantStep, StorageInvariant, TypeCorrect, PTL DEF Spec

(* Whatever interleaves, only documents that passed validation are stored   *)
(* (appusage/__init__.py:138).                                              *)
THEOREM StoredAreValid == Spec => []StoredDocumentsAreValid
<1>1. WarrantInv => StoredDocumentsAreValid
  BY DEF WarrantInv, RowsInv, StoredDocumentsAreValid
<1> QED
  BY <1>1, WarrantInvariant, PTL

(* A write on its way to the database found what its headers ask for        *)
(* (database.py:96, xcap_service.py:61).                                    *)
THEOREM WritesAreWarranted == Spec => []WriteIsWarranted
<1>1. WarrantInv => WriteIsWarranted
  BY DEF WarrantInv, Warranted, Admits, WriteIsWarranted
<1> QED
  BY <1>1, WarrantInvariant, PTL

(* The two reads of a conditional node update never disagree: what it       *)
(* writes is computed from a version its If-Match names, even where ids are *)
(* reused (appusage/__init__.py:195).                                       *)
THEOREM ComputedFromWhatMatched == Spec => []ConditionalUpdateComputedFromMatch
<1>1. WarrantInv => ConditionalUpdateComputedFromMatch
  BY DEF WarrantInv, Warranted, ComputedFromMatch, ConditionalUpdateComputedFromMatch
<1> QED
  BY <1>1, WarrantInvariant, PTL

-----------------------------------------------------------------------------
(* What a write does to the documents, where ids are not reused.            *)

LEMMA VersionsKept ==
    ASSUME NEW k, RowsOf(k)' = RowsOf(k), \A i \in RowsOf(k) : rows'[i] = rows[i]
    PROVE  VersionOf(k)' = VersionOf(k)
BY DEF VersionOf

LEMMA CommitsOwn ==
    ASSUME AutoIncrement, TypeOK, StorageInv, NEW w \in Workers, Insert(w) \/ Update(w) \/ Remove(w)
    PROVE  /\ \A k \in Keys \ {req[w].key} : VersionOf(k)' = VersionOf(k)
           /\ ~Remove(w) => [doc |-> work[w].doc, etag |-> work[w].etag] \in VersionOf(req[w].key)'
<1> PICK K : K = req[w].key
  OBVIOUS
<1> PICK id : id = work[w].id
  OBVIOUS
<1>0. req' = req
  BY CommitKeeps
<1>1. CASE Insert(w)
  <2>1. PICK i \in Nat \ DOMAIN rows :
            /\ DOMAIN rows' = DOMAIN rows \cup {i}
            /\ rows'[i] = [key |-> K, doc |-> work[w].doc, etag |-> work[w].etag]
            /\ \A j \in DOMAIN rows : rows'[j] = rows[j]
    BY <1>1, InsertRows
  <2>2. rows'[i].key = K /\ rows'[i].doc = work[w].doc /\ rows'[i].etag = work[w].etag
    BY <2>1
  <2>3. ASSUME NEW k \in Keys \ {K} PROVE VersionOf(k)' = VersionOf(k)
    <3>1. RowsOf(k)' = RowsOf(k) /\ \A j \in RowsOf(k) : rows'[j] = rows[j]
      BY <2>1, <2>2 DEF RowsOf
    <3> QED
      BY <3>1, VersionsKept
  <2>4. i \in RowsOf(K)'
    BY <2>1, <2>2 DEF RowsOf
  <2>5. [doc |-> rows'[i].doc, etag |-> rows'[i].etag] \in VersionOf(K)'
    BY <2>4 DEF VersionOf
  <2> QED
    BY <1>0, <2>2, <2>3, <2>5
<1>2. CASE Update(w) \/ Remove(w)
  <2>1. id \in DOMAIN rows => rows[id].key = K
    BY <1>2 DEF StorageInv, KeptIdsAreTheWriters, Update, Remove
  <2>2. CASE Update(w)
    <3>1. /\ id \in DOMAIN rows /\ DOMAIN rows' = DOMAIN rows
          /\ rows'[id] = [key |-> rows[id].key, doc |-> work[w].doc, etag |-> work[w].etag]
          /\ \A j \in DOMAIN rows \ {id} : rows'[j] = rows[j]
      BY <2>2, UpdateRows
    <3>2. rows'[id].key = K /\ rows'[id].doc = work[w].doc /\ rows'[id].etag = work[w].etag
      BY <2>1, <3>1
    <3>3. ASSUME NEW k \in Keys \ {K} PROVE VersionOf(k)' = VersionOf(k)
      <4>1. RowsOf(k)' = RowsOf(k) /\ \A j \in RowsOf(k) : rows'[j] = rows[j]
        BY <2>1, <3>1, <3>2 DEF RowsOf
      <4> QED
        BY <4>1, VersionsKept
    <3>4. id \in RowsOf(K)'
      BY <3>1, <3>2 DEF RowsOf
    <3>5. [doc |-> rows'[id].doc, etag |-> rows'[id].etag] \in VersionOf(K)'
      BY <3>4 DEF VersionOf
    <3> QED
      BY <1>0, <3>2, <3>3, <3>5
  <2>3. CASE Remove(w)
    <3>1. DOMAIN rows' = DOMAIN rows \ {id} /\ \A j \in DOMAIN rows' : rows'[j] = rows[j]
      BY <2>3, RemoveRows
    <3>2. ASSUME NEW k \in Keys \ {K} PROVE VersionOf(k)' = VersionOf(k)
      <4>1. RowsOf(k)' = RowsOf(k) /\ \A j \in RowsOf(k) : rows'[j] = rows[j]
        BY <2>1, <3>1 DEF RowsOf
      <4> QED
        BY <4>1, VersionsKept
    <3> QED
      BY <2>3, <3>2
  <2> QED
    BY <1>2, <2>2, <2>3
<1> QED
  BY <1>1, <1>2

(* The worker whose program counter changes is the one that takes the step. *)
LEMMA OwnStep ==
    ASSUME TypeOK, [Next]_vars, NEW w \in Workers, pc[w] # pc'[w]
    PROVE  \/ Insert(w) \/ Update(w) \/ Remove(w)
           \/ UNCHANGED rows /\ (Receive(w) \/ Load(w) \/ GetDocument(w) \/ FetchForPut(w)
                                 \/ FetchForDelete(w) \/ WriteFails(w) \/ Refresh(w) \/ Respond(w))
<1>1. PICK v \in Workers :
          \/ Receive(v) \/ Load(v) \/ GetDocument(v) \/ FetchForPut(v) \/ FetchForDelete(v)
          \/ Insert(v) \/ Update(v) \/ Remove(v) \/ WriteFails(v) \/ Refresh(v) \/ Respond(v)
  BY DEF Next, vars
<1>2. v = w
  BY <1>1, StepsAlone DEF OthersKeep
<1> QED
  BY <1>1, <1>2, OtherRows

(* A write of one request changes no other document, whatever row ids it    *)
(* kept across its two sessions (database.py:118), if ids are not reused.   *)
THEOREM WritesStayAtHome == ASSUME AutoIncrement PROVE Spec => WritesOwnDocument
<1>1. TypeOK /\ StorageInv /\ [Next]_vars
      => [\A w \in Workers : pc[w] # pc'[w] =>
            /\ \A k \in Keys \ {req[w].key} : VersionOf(k)' = VersionOf(k)
            /\ (pc'[w] = "refresh") => \E v \in VersionOf(req[w].key)' : v.doc = work[w].doc]_vars
  <2> SUFFICES ASSUME TypeOK, StorageInv, [Next]_vars, NEW w \in Workers, pc[w] # pc'[w]
               PROVE  /\ \A k \in Keys \ {req[w].key} : VersionOf(k)' = VersionOf(k)
                      /\ (pc'[w] = "refresh") =>
                            \E v \in VersionOf(req[w].key)' : v.doc = work[w].doc
    OBVIOUS
  <2>1. CASE Insert(w) \/ Update(w) \/ Remove(w)
    <3>1. pc'[w] = "refresh" => ~Remove(w)
      BY <2>1, CommitKeeps
    <3>2. [doc |-> work[w].doc, etag |-> work[w].etag].doc = work[w].doc
      OBVIOUS
    <3> QED
      BY <2>1, <3>1, <3>2, CommitsOwn
  <2>2. CASE UNCHANGED rows /\ (Receive(w) \/ Load(w) \/ GetDocument(w) \/ FetchForPut(w)
                                \/ FetchForDelete(w) \/ WriteFails(w) \/ Refresh(w) \/ Respond(w))
    <3>1. \A k : RowsOf(k)' = RowsOf(k)
      BY <2>2 DEF RowsOf
    <3>2. \A k : VersionOf(k)' = VersionOf(k)
      BY <2>2, <3>1, VersionsKept
    <3>3. pc'[w] # "refresh"
      BY <2>2, ReceiveRequest, AcceptQuiet, LoadQuiet, GetQuiet, PutCases, DeleteCases,
         WriteFailsQuiet, RefreshQuiet, RespondQuiet DEF Quiet
    <3> QED
      BY <3>2, <3>3
  <2> QED
    BY <2>1, <2>2, OwnStep
<1> QED
  BY <1>1, StorageInvariant, TypeCorrect, PTL DEF Spec, WritesOwnDocument

(* A node update that nothing overtook changes its node and nothing else    *)
(* (appusage/__init__.py:195): what it stores was computed from the version *)
(* it replaces.                                                             *)
THEOREM NodeUpdatesAreLocal == ASSUME AutoIncrement PROVE Spec => NodeUpdateIsLocal
<1>1. TypeOK /\ StorageInv /\ WarrantInv /\ [Next]_vars
      => [\A w \in Workers : \A v \in VersionOf(req[w].key) :
            (/\ pc[w] = "update" /\ pc'[w] = "refresh" /\ ~IsWholeDocument(req[w])
             /\ v.etag = work[w].base)
            => \E u \in VersionOf(req[w].key)' : u.doc = NodeUpdate(req[w], v.doc)]_vars
  <2> SUFFICES ASSUME TypeOK, StorageInv, WarrantInv, [Next]_vars, NEW w \in Workers,
                      NEW v \in VersionOf(req[w].key), pc[w] = "update", pc'[w] = "refresh",
                      ~IsWholeDocument(req[w]), v.etag = work[w].base
               PROVE  \E u \in VersionOf(req[w].key)' : u.doc = NodeUpdate(req[w], v.doc)
    OBVIOUS
  <2>1. Update(w) /\ ~Remove(w)
    <3>1. pc[w] # pc'[w]
      OBVIOUS
    <3>2. ~Remove(w) /\ ~Insert(w) /\ ~WriteFails(w) /\ ~Load(w) /\ ~GetDocument(w)
          /\ ~FetchForPut(w) /\ ~FetchForDelete(w) /\ ~Refresh(w) /\ ~Respond(w)
      BY WriteFailsQuiet DEF Remove, Insert, Load, GetDocument, FetchForPut, FetchForDelete, Refresh,
         Respond, Quiet
    <3>3. ~Receive(w)
      BY ReceiveRequest DEF Accept
    <3> QED
      BY <3>1, <3>2, <3>3, OwnStep
  <2>2. PICK i \in DOMAIN rows : v = [doc |-> rows[i].doc, etag |-> rows[i].etag]
    BY DEF VersionOf, RowsOf
  <2>3. v.doc = versions[work[w].base].doc
    BY <2>2 DEF WarrantInv, RowsInv
  <2>4. work[w].doc = NodeUpdate(req[w], v.doc)
    BY <2>3 DEF WarrantInv, Warranted, ComputedFromMatch
  <2>5. [doc |-> work[w].doc, etag |-> work[w].etag] \in VersionOf(req[w].key)'
    BY <2>1, CommitsOwn
  <2>6. [doc |-> work[w].doc, etag |-> work[w].etag].doc = work[w].doc
    OBVIOUS
  <2> QED
    BY <2>4, <2>5, <2>6
<1> QED
  BY <1>1, StorageInvariant, WarrantInvariant, TypeCorrect, PTL DEF Spec, NodeUpdateIsLocal
=============================================================================
