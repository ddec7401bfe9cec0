------------------------- MODULE ThorStorage_proofs -------------------------
(***************************************************************************)
(* Theorems about ThorStorage for every set of accounts, documents,         *)
(* databases, conditions and workers.                                       *)
(***************************************************************************)
EXTENDS ThorStorage, TLAPS

USE ThorAssumption

-----------------------------------------------------------------------------
(* Lemmas about the values the actions build.                               *)

LEMMA CheckType == ASSUME NEW r, NEW e
                   PROVE  /\ Check(r, e) \in {"ok", "304", "412", "error"}
                          /\ AbsentCheck(r) \in {"ok", "304", "412", "error"}
BY DEF Check, AbsentCheck, CheckEtag, CheckPreconditions

LEMMA VerdictType == ASSUME NEW r, NEW p
                     PROVE  Verdict(r, p) \in {"ok", "304", "404", "412", "error"}
BY CheckType DEF Verdict

LEMMA ReplyType == \A code \in {"none", "200", "201", "304", "404", "412", "error"} :
                       Reply(code) \in Answer /\ Reply(code).etag = NoEtag
BY DEF Reply, Outcome, Answer, Change, NoChange, NoEtag

LEMMA NewProfileType == \A is \in {"missing", "bare", "there"} : NewProfile(is) \in Profile
<1>1. SomeSettings \in Settings
  BY DEF SomeSettings
<1> QED
  BY <1>1 DEF NewProfile, Profile, NoVersion, Version, NoEtag

LEMMA NoWorkType == NoWork \in Work
BY NewProfileType DEF NoWork, Work, NoVersion, Version, NoEtag

LEMMA NoRequestType == NoRequest \in Request /\ NoRequest.method = "get"
<1>1. (CHOOSE u \in Users : TRUE) \in Users /\ (CHOOSE x \in Paths : TRUE) \in Paths
  OBVIOUS
<1> QED
  BY <1>1 DEF NoRequest, Request

LEMMA NewVersionType ==
    ASSUME TypeOK, NEW w \in Workers
    PROVE  NewVersion(w) \in Version
BY DEF TypeOK, NewVersion, Request, Work, Version, NoVersion, NoEtag

LEMMA WithVersionType ==
    ASSUME NEW p \in Profile, NEW x \in Paths, NEW v \in Version
    PROVE  /\ WithVersion(p, x, v) \in Profile
           /\ WithVersion(p, x, v).is = p.is
           /\ WithVersion(p, x, v).settings = p.settings
           /\ WithVersion(p, x, v).docs[x] = v
           /\ \A y \in Paths \ {x} : WithVersion(p, x, v).docs[y] = p.docs[y]
BY DEF WithVersion, Profile

LEMMA StoredType ==
    ASSUME TypeOK, NEW w \in Workers, pc[w] \in {"get", "update", "commit"}
    PROVE  Stored(w) \in Profile /\ work[w].db \in Databases /\ req[w].user \in Users
BY DEF TypeOK, Stored, Request

-----------------------------------------------------------------------------
(* Every variable keeps its type.                                           *)

LEMMA TypeInit == Init => TypeOK
<1> SUFFICES ASSUME Init PROVE TypeOK
  OBVIOUS
<1>1. profiles \in [Databases -> [Users -> Profile]]
  BY NewProfileType DEF Init
<1>2. versions \in Seq([user : Users, path : Paths, doc : Docs])
  BY DEF Init
<1>3. /\ pc \in [Workers -> Labels] /\ req \in [Workers -> Request]
      /\ \A w \in Workers : ~IsPut(req[w])
  BY NoRequestType DEF Init, Labels, IsPut
<1>4. work \in [Workers -> Work] /\ answer \in [Workers -> Answer]
  BY NoWorkType, ReplyType DEF Init
<1> QED
  BY <1>1, <1>2, <1>3, <1>4 DEF Init, TypeOK

LEMMA FinishType ==
    ASSUME TypeOK, NEW w \in Workers, NEW a \in Answer, Finish(w, a),
           UNCHANGED <<profiles, engine, versions, req>>
    PROVE  TypeOK'
<1>1. pc' \in [Workers -> Labels] /\ answer' \in [Workers -> Answer] /\ work' \in [Workers -> Work]
  BY NoWorkType DEF TypeOK, Finish, Labels
<1>2. \A v \in Workers : pc'[v] \in {"get", "update", "commit"} => v # w /\ work'[v] = work[v]
  BY DEF TypeOK, Finish
<1> QED
  BY <1>1, <1>2 DEF TypeOK, Finish

LEMMA GotoType ==
    ASSUME TypeOK, NEW w \in Workers, NEW l \in Labels, NEW new \in Work, Goto(w, l),
           work' = [work EXCEPT ![w] = new],
           l \in {"get", "update", "commit"} => new.db \in Databases,
           UNCHANGED <<profiles, engine, req>>,
           versions' \in Seq([user : Users, path : Paths, doc : Docs])
    PROVE  TypeOK'
<1>1. pc' \in [Workers -> Labels] /\ work' \in [Workers -> Work]
  BY DEF TypeOK, Goto
<1>2. \A v \in Workers : pc'[v] \in {"get", "update", "commit"} => work'[v].db \in Databases
  BY DEF TypeOK, Goto
<1> QED
  BY <1>1, <1>2 DEF TypeOK, Goto

LEMMA ReceiveRequest ==
    ASSUME NEW w \in Workers, Receive(w)
    PROVE  \E r \in Request : (IsPut(r) => r.body \in Docs) /\ Accept(w, r)
<1>1. PICK method \in {"get", "put", "put_node", "delete"}, u \in Users, x \in Paths, c \in Conditions :
      \E body \in IF method \in {"put", "put_node"} THEN Docs ELSE {NoDoc} :
        Accept(w, [method |-> method, user |-> u, path |-> x, body |-> body, cond |-> c])
  BY DEF Receive
<1>2. PICK body \in IF method \in {"put", "put_node"} THEN Docs ELSE {NoDoc} :
        Accept(w, [method |-> method, user |-> u, path |-> x, body |-> body, cond |-> c])
  BY <1>1
<1>3. [method |-> method, user |-> u, path |-> x, body |-> body, cond |-> c] \in Request
  BY <1>2 DEF Request
<1> QED
  BY <1>2, <1>3 DEF IsPut

LEMMA AcceptType ==
    ASSUME TypeOK, NEW w \in Workers, NEW r \in Request, IsPut(r) => r.body \in Docs, Accept(w, r)
    PROVE  TypeOK'
<1>1. req' \in [Workers -> Request] /\ pc' \in [Workers -> Labels]
  BY DEF Accept, Goto, Labels, TypeOK
<1>2. \A v \in Workers : pc'[v] \in {"get", "update", "commit"} => pc'[v] = pc[v]
  BY DEF Accept, Goto, TypeOK
<1>3. \A v \in Workers : IsPut(req'[v]) => req'[v].body \in Docs
  BY DEF Accept, TypeOK
<1> QED
  BY <1>1, <1>2, <1>3 DEF Accept, Goto, TypeOK

LEMMA OpenType == ASSUME TypeOK, NEW w \in Workers, OpenSession(w) PROVE TypeOK'
<1>1. CASE Finish(w, Reply("404"))
  BY <1>1, FinishType, ReplyType DEF OpenSession
<1>2. CASE /\ engine # NoDatabase
           /\ work' = [work EXCEPT ![w] = OnDatabase(@, engine)]
           /\ Goto(w, IF pc[w] = "open_get" THEN "get" ELSE "update")
  <2>1. OnDatabase(work[w], engine) \in Work /\ OnDatabase(work[w], engine).db = engine
    BY DEF TypeOK, Work, OnDatabase
  <2>2. work' = [work EXCEPT ![w] = OnDatabase(work[w], engine)]
    BY <1>2
  <2>3. (IF pc[w] = "open_get" THEN "get" ELSE "update") \in Labels /\ engine \in Databases
    BY <1>2 DEF Labels, TypeOK
  <2>4. versions' \in Seq([user : Users, path : Paths, doc : Docs])
    BY DEF OpenSession, TypeOK
  <2> QED
    BY <1>2, <2>1, <2>2, <2>3, <2>4, GotoType DEF OpenSession
<1> QED
  BY <1>1, <1>2 DEF OpenSession

(* Drawing a tag keeps what the earlier tags are for.                       *)
LEMMA DrawGrows ==
    ASSUME TypeOK, NEW w \in Workers, IsPut(req[w]), DrawEtag(w)
    PROVE  /\ versions' \in Seq([user : Users, path : Paths, doc : Docs])
           /\ Len(versions) \in Nat /\ Len(versions') = Len(versions) + 1
           /\ versions'[Len(versions) + 1] =
                 [user |-> req[w].user, path |-> req[w].path, doc |-> req[w].body]
           /\ \A e \in 1 .. Len(versions) : versions'[e] = versions[e]
<1>1. [user |-> req[w].user, path |-> req[w].path, doc |-> req[w].body]
         \in [user : Users, path : Paths, doc : Docs]
  BY DEF TypeOK, Request
<1> QED
  BY <1>1 DEF TypeOK, DrawEtag

LEMMA DrawType ==
    ASSUME TypeOK, NEW w \in Workers, IsPut(req[w]), DrawEtag(w),
           UNCHANGED <<profiles, engine, req>>
    PROVE  TypeOK'
<1>1. Drawn(work[w], Len(versions) + 1) \in Work
  BY DrawGrows DEF TypeOK, Work, Drawn
<1>2. work' = [work EXCEPT ![w] = Drawn(work[w], Len(versions) + 1)]
  BY DEF DrawEtag
<1> QED
  BY <1>1, <1>2, DrawGrows, GotoType DEF DrawEtag, Labels

(* How a get_document ends.                                                 *)
LEMMA GetEnds ==
    ASSUME TypeOK, NEW w \in Workers, GetDocument(w)
    PROVE  \/ IsPut(req[w]) /\ DrawEtag(w)
           \/ /\ UNCHANGED versions
              /\ \E a \in Answer :
                    /\ Finish(w, a)
                    /\ a.etag # NoEtag =>
                          /\ a.change = NoChange
                          /\ HasDocument(Stored(w), req[w].path)
                          /\ a.etag = Stored(w).docs[req[w].path].etag
                          /\ a.doc = Stored(w).docs[req[w].path].doc
<1>1. CASE Finish(w, Reply("error")) /\ UNCHANGED versions
  BY <1>1, ReplyType
<1>2. CASE Finish(w, Reply("404")) /\ UNCHANGED versions
  BY <1>2, ReplyType
<1>3. CASE IsPut(req[w]) /\ DrawEtag(w)
  BY <1>3
<1>4. CASE HasDocument(Stored(w), req[w].path) /\ Got(w, Stored(w).docs[req[w].path])
  <2> DEFINE v == Stored(w).docs[req[w].path]
             a == Outcome("200", v.etag, v.doc, NoChange)
  <2>1. v \in Version
    BY StoredType DEF GetDocument, TypeOK, Request, Profile
  <2>2. a \in Answer /\ a.change = NoChange /\ a.etag = v.etag /\ a.doc = v.doc
    BY <2>1 DEF Answer, Outcome, Change, NoChange, Version, NoEtag
  <2>4. CASE Check(req[w], v.etag) # "ok" /\ Finish(w, Reply(Check(req[w], v.etag))) /\ UNCHANGED versions
    <3>1. Check(req[w], v.etag) \in {"304", "412", "error"}
      BY <2>4, CheckType
    <3> QED
      BY <2>4, <3>1, ReplyType
  <2>5. CASE Finish(w, a) /\ UNCHANGED versions
    BY <1>4, <2>2, <2>5
  <2>6. CASE DrawEtag(w) /\ IsPut(req[w])
    BY <2>6
  <2> QED
    BY <1>4, <2>4, <2>5, <2>6 DEF Got
<1> QED
  BY <1>1, <1>2, <1>3, <1>4 DEF GetDocument

LEMMA GetType == ASSUME TypeOK, NEW w \in Workers, GetDocument(w) PROVE TypeOK'
<1>0. UNCHANGED <<profiles, engine, req>>
  BY DEF GetDocument
<1>1. CASE IsPut(req[w]) /\ DrawEtag(w)
  BY <1>0, <1>1, DrawType
<1>2. CASE UNCHANGED versions /\ \E a \in Answer : Finish(w, a)
  BY <1>0, <1>2, FinishType
<1> QED
  BY <1>1, <1>2, GetEnds

(* What an update prepares: the profile it read with its own version in it. *)
LEMMA UpdatePrepares ==
    ASSUME TypeOK, NEW w \in Workers, Update(w)
    PROVE  \/ \E a \in Answer : Finish(w, a) /\ a.etag = NoEtag
           \/ /\ Verdict(req[w], Stored(w)) = "ok"
              /\ work' = [work EXCEPT ![w] =
                     Prepared(work[w], WithVersion(Stored(w), req[w].path, NewVersion(w)),
                              Stored(w).docs[req[w].path])]
              /\ Goto(w, "commit")
<1>1. CASE Finish(w, Reply("error"))
  BY <1>1, ReplyType
<1>2. CASE Verdict(req[w], Stored(w)) # "ok" /\ Finish(w, Reply(Verdict(req[w], Stored(w))))
  <2>1. Verdict(req[w], Stored(w)) \in {"304", "404", "412", "error"}
    BY <1>2, VerdictType
  <2> QED
    BY <1>2, <2>1, ReplyType
<1> QED
  BY <1>1, <1>2 DEF Update

LEMMA PreparedType ==
    ASSUME TypeOK, NEW w \in Workers, pc[w] = "update"
    PROVE  LET p   == WithVersion(Stored(w), req[w].path, NewVersion(w))
               new == Prepared(work[w], p, Stored(w).docs[req[w].path])
           IN /\ new \in Work /\ new.db = work[w].db /\ new.etag = work[w].etag
              /\ new.profile = p /\ ~new.overtaken
<1>1. Stored(w) \in Profile /\ req[w].path \in Paths
  BY StoredType DEF TypeOK, Request
<1>2. WithVersion(Stored(w), req[w].path, NewVersion(w)) \in Profile
  BY <1>1, NewVersionType, WithVersionType
<1>3. Stored(w).docs[req[w].path] \in Version
  BY <1>1 DEF Profile
<1> QED
  BY <1>2, <1>3 DEF TypeOK, Work, Prepared

LEMMA UpdateType == ASSUME TypeOK, NEW w \in Workers, Update(w) PROVE TypeOK'
<1>1. UNCHANGED <<profiles, engine, versions, req>> /\ pc[w] = "update"
  BY DEF Update
<1>2. CASE \E a \in Answer : Finish(w, a)
  BY <1>1, <1>2, FinishType
<1>3. CASE /\ work' = [work EXCEPT ![w] =
                  Prepared(work[w], WithVersion(Stored(w), req[w].path, NewVersion(w)),
                           Stored(w).docs[req[w].path])]
           /\ Goto(w, "commit")
  <2>1. work[w].db \in Databases
    BY <1>1, StoredType
  <2>2. versions' \in Seq([user : Users, path : Paths, doc : Docs]) /\ "commit" \in Labels
    BY <1>1 DEF TypeOK, Labels
  <2> QED
    BY <1>1, <1>3, <2>1, <2>2, PreparedType, GotoType
<1> QED
  BY <1>2, <1>3, UpdatePrepares

LEMMA StoreType ==
    ASSUME TypeOK, NEW db \in Databases, NEW u \in Users, NEW p \in Profile, Store(db, u, p)
    PROVE  /\ profiles' \in [Databases -> [Users -> Profile]]
           /\ \A b \in Databases, t \in Users :
                 profiles'[b][t] = IF b = db /\ t = u THEN p ELSE profiles[b][t]
BY DEF TypeOK, Store

(* What a write does to the workers that are about to write.                *)
LEMMA OvertakenType ==
    ASSUME TypeOK, NEW v \in Workers
    PROVE  /\ Overtaken(work[v]) \in Work /\ Written(work[v]) \in Work
           /\ Overtaken(work[v]).db = work[v].db /\ Overtaken(work[v]).etag = work[v].etag
           /\ Overtaken(work[v]).profile = work[v].profile /\ Overtaken(work[v]).overtaken
           /\ Written(work[v]).etag = work[v].etag
BY NewProfileType DEF TypeOK, Work, Overtaken, Written

LEMMA CommitType == ASSUME TypeOK, NEW w \in Workers, Commit(w) PROVE TypeOK'
<1>1. /\ pc[w] = "commit" /\ Store(work[w].db, req[w].user, work[w].profile)
      /\ OthersOvertaken(w, work[w].db, req[w].user) /\ Goto(w, "refresh")
      /\ UNCHANGED <<engine, versions, req>>
  BY DEF Commit
<1>2. work[w].db \in Databases /\ req[w].user \in Users /\ work[w].profile \in Profile
  BY <1>1, StoredType DEF TypeOK, Work
<1>3. profiles' \in [Databases -> [Users -> Profile]]
  BY <1>1, <1>2, StoreType
<1>4. work' \in [Workers -> Work]
  BY <1>1, OvertakenType DEF OthersOvertaken, TypeOK
<1>5. pc' \in [Workers -> Labels]
  BY <1>1 DEF Goto, Labels, TypeOK
<1>6. ASSUME NEW v \in Workers, pc'[v] \in {"get", "update", "commit"}
      PROVE  work'[v].db \in Databases
  <2>1. v # w /\ pc'[v] = pc[v]
    BY <1>1, <1>6 DEF Goto, TypeOK
  <2>2. work[v].db \in Databases
    BY <1>6, <2>1 DEF TypeOK
  <2> QED
    BY <1>1, <2>1, <2>2, OvertakenType DEF OthersOvertaken
<1> QED
  BY <1>1, <1>3, <1>4, <1>5, <1>6 DEF TypeOK, Goto

LEMMA SuccessType ==
    ASSUME TypeOK, NEW w \in Workers
    PROVE  /\ SuccessReply(w) \in Answer
           /\ SuccessReply(w).etag # NoEtag =>
                 /\ IsPut(req[w]) /\ SuccessReply(w).etag = work[w].etag
                 /\ SuccessReply(w).change # NoChange
<1>1. work[w].etag \in Nat /\ work[w].old.etag \in Nat
  BY DEF TypeOK, Work, Version
<1>2. NoDoc \in Docs \cup {NoDoc} /\ NoEtag \in Nat
  BY DEF NoEtag
<1>3. CASE IsPut(req[w])
  BY <1>1, <1>2, <1>3 DEF SuccessReply, Answer, Outcome, Change, NoChange
<1>4. CASE ~IsPut(req[w])
  BY <1>1, <1>2, <1>4 DEF SuccessReply, Answer, Outcome, Change
<1> QED
  BY <1>3, <1>4

LEMMA RefreshType == ASSUME TypeOK, NEW w \in Workers, Refresh(w) PROVE TypeOK'
<1>1. \E a \in Answer : Finish(w, a)
  BY SuccessType, ReplyType DEF Refresh
<1> QED
  BY <1>1, FinishType DEF Refresh

LEMMA RespondType == ASSUME TypeOK, NEW w \in Workers, Respond(w) PROVE TypeOK'
<1>1. req' \in [Workers -> Request] /\ answer' \in [Workers -> Answer] /\ pc' \in [Workers -> Labels]
  BY NoRequestType, ReplyType DEF Respond, TypeOK, Labels
<1>2. \A v \in Workers : pc'[v] \in {"get", "update", "commit"} => pc[v] = pc'[v]
  BY DEF Respond, TypeOK
<1>3. \A v \in Workers : IsPut(req'[v]) => req'[v] = req[v]
  BY NoRequestType DEF Respond, TypeOK, IsPut
<1> QED
  BY <1>1, <1>2, <1>3 DEF Respond, TypeOK

LEMMA ProvisionStores ==
    ASSUME TypeOK, NEW db \in Databases, NEW u \in Users, NEW s \in Settings, Provision(db, u, s)
    PROVE  \E p \in Profile : /\ p.docs = profiles[db][u].docs
                              /\ Store(db, u, p)
<1> DEFINE p == [is |-> "there", docs |-> profiles[db][u].docs, settings |-> s]
<1>1. profiles[db][u] \in Profile
  BY DEF TypeOK
<1>2. p \in Profile /\ p.docs = profiles[db][u].docs
  BY <1>1 DEF Profile
<1> QED
  BY <1>2 DEF Provision

LEMMA ProvisionType ==
    ASSUME TypeOK, NEW db \in Databases, NEW u \in Users, NEW s \in Settings, Provision(db, u, s)
    PROVE  TypeOK'
<1>1. profiles' \in [Databases -> [Users -> Profile]]
  BY ProvisionStores, StoreType
<1>2. work' \in [Workers -> Work] /\ \A v \in Workers : work'[v].db = work[v].db
  BY OvertakenType DEF Provision, TypeOK
<1> QED
  BY <1>1, <1>2 DEF Provision, TypeOK

LEMMA TypeStep == TypeOK /\ [Next]_vars => TypeOK'
<1> SUFFICES ASSUME TypeOK, [Next]_vars PROVE TypeOK'
  OBVIOUS
<1>1. ASSUME NEW w \in Workers, Receive(w) PROVE TypeOK'
  BY <1>1, ReceiveRequest, AcceptType
<1>2. ASSUME NEW w \in Workers,
             \/ OpenSession(w) \/ GetDocument(w) \/ Update(w) \/ Commit(w) \/ Refresh(w) \/ Respond(w)
      PROVE  TypeOK'
  BY <1>2, OpenType, GetType, UpdateType, CommitType, RefreshType, RespondType
<1>3. ASSUME NEW w \in Workers, CommitFails(w) PROVE TypeOK'
  BY <1>3, FinishType, ReplyType DEF CommitFails
<1>4. CASE HandleEvent
  BY <1>4 DEF HandleEvent, TypeOK
<1>5. ASSUME NEW db \in Databases, NEW u \in Users, NEW s \in Settings, Provision(db, u, s)
      PROVE  TypeOK'
  BY <1>5, ProvisionType
<1>6. CASE UNCHANGED vars
  BY <1>6 DEF vars, TypeOK
<1> QED
  BY <1>1, <1>2, <1>3, <1>4, <1>5, <1>6 DEF Next

(* Every variable keeps its type: profiles stay profiles, a worker with a   *)
(* session has its database (get_db_session), and a PUT has a body.         *)
THEOREM TypeCorrect == Spec => []TypeOK
BY TypeInit, TypeStep, PTL DEF Spec

-----------------------------------------------------------------------------
(* A tag names one version: it is drawn for it and never drawn again.       *)

LEMMA TrueStays ==
    ASSUME NEW d, NEW e, NEW u, NEW x, NEW v, Len(d) \in Nat, Len(e) \in Nat, Len(d) =< Len(e),
           \A i \in 1 .. Len(d) : e[i] = d[i], IsTrueVersion(d, u, x, v)
    PROVE  IsTrueVersion(e, u, x, v)
BY DEF IsTrueVersion

LEMMA TagsInit == Init => TagsNameVersions
<1> SUFFICES ASSUME Init PROVE TagsNameVersions
  OBVIOUS
<1>1. StoredTagsAreTrue
  BY DEF Init, StoredTagsAreTrue, NewProfile, IsTrueVersion
<1>2. AnsweredTagsAreTrue /\ PendingTagsAreTrue
  BY DEF Init, AnsweredTagsAreTrue, PendingTagsAreTrue, HasDrawn
<1> QED
  BY <1>1, <1>2 DEF TagsNameVersions

(* The tag of an answer is true if it is the one its document has.          *)
TrueAnswer(w, a) ==
    a.etag # NoEtag =>
        IsTrueVersion(versions, req[w].user, req[w].path,
                      [doc |-> IF a.change = NoChange THEN a.doc ELSE req[w].body,
                       etag |-> a.etag])

LEMMA FinishTags ==
    ASSUME TypeOK, TagsNameVersions, NEW w \in Workers, NEW a \in Answer, Finish(w, a),
           TrueAnswer(w, a), UNCHANGED <<profiles, engine, versions, req>>
    PROVE  TagsNameVersions'
<1>1. StoredTagsAreTrue'
  BY DEF TagsNameVersions, StoredTagsAreTrue
<1>2. ASSUME NEW v \in Workers, v # w
      PROVE  pc'[v] = pc[v] /\ answer'[v] = answer[v] /\ work'[v] = work[v] /\ req'[v] = req[v]
  BY <1>2 DEF Finish, TypeOK
<1>3. pc'[w] = "done" /\ answer'[w] = a /\ req'[w] = req[w]
  BY DEF Finish, TypeOK
<1>4. AnsweredTagsAreTrue'
  BY <1>2, <1>3 DEF TagsNameVersions, AnsweredTagsAreTrue, AnsweredDoc, TrueAnswer
<1>5. PendingTagsAreTrue'
  BY <1>2, <1>3 DEF TagsNameVersions, PendingTagsAreTrue, HasDrawn, IsPut
<1> QED
  BY <1>1, <1>4, <1>5 DEF TagsNameVersions

(* Other workers are as they were, and the tags drawn so far too.           *)
OnlyWorker(w) ==
    /\ \A v \in Workers \ {w} :
          pc'[v] = pc[v] /\ work'[v] = work[v] /\ req'[v] = req[v] /\ answer'[v] = answer[v]
    /\ pc'[w] # "done"
    /\ Len(versions') \in Nat /\ Len(versions) =< Len(versions')
    /\ \A e \in 1 .. Len(versions) : versions'[e] = versions[e]

PendingTrue(w) ==
    /\ HasDrawn(w) => IsTrueVersion(versions, req[w].user, req[w].path,
                                    [doc |-> req[w].body, etag |-> work[w].etag])
    /\ pc[w] = "commit" => \A x \in Paths :
           IsTrueVersion(versions, req[w].user, x, work[w].profile.docs[x])

LEMMA PendingAll == PendingTagsAreTrue <=> \A w \in Workers : PendingTrue(w)
BY DEF PendingTagsAreTrue, PendingTrue

LEMMA WorkerTags ==
    ASSUME TypeOK, TagsNameVersions, NEW w \in Workers, OnlyWorker(w), PendingTrue(w)',
           UNCHANGED profiles
    PROVE  TagsNameVersions'
<1>1. Len(versions) \in Nat
  BY DEF TypeOK
<1>2. ASSUME NEW u, NEW x, NEW v, IsTrueVersion(versions, u, x, v)
      PROVE  IsTrueVersion(versions', u, x, v)
  BY <1>1, <1>2, TrueStays DEF OnlyWorker
<1>3. StoredTagsAreTrue'
  BY <1>2 DEF TagsNameVersions, StoredTagsAreTrue
<1>4. ASSUME NEW v \in Workers, pc'[v] = "done", answer'[v].etag # NoEtag
      PROVE  IsTrueVersion(versions', req'[v].user, req'[v].path,
                           [doc |-> AnsweredDoc(v)', etag |-> answer'[v].etag])
  <2>1. v # w
    BY <1>4 DEF OnlyWorker
  <2>2. pc'[v] = pc[v] /\ req'[v] = req[v] /\ answer'[v] = answer[v]
    BY <2>1 DEF OnlyWorker
  <2>3. AnsweredDoc(v)' = AnsweredDoc(v)
    BY <2>2 DEF AnsweredDoc
  <2>4. IsTrueVersion(versions, req[v].user, req[v].path,
                      [doc |-> AnsweredDoc(v), etag |-> answer[v].etag])
    BY <1>4, <2>2 DEF TagsNameVersions, AnsweredTagsAreTrue
  <2> QED
    BY <1>2, <2>2, <2>3, <2>4
<1>5. AnsweredTagsAreTrue'
  BY <1>4 DEF AnsweredTagsAreTrue
<1>6. ASSUME NEW v \in Workers \ {w} PROVE PendingTrue(v)'
  <2>1. pc'[v] = pc[v] /\ work'[v] = work[v] /\ req'[v] = req[v]
    BY DEF OnlyWorker
  <2>2. PendingTrue(v)
    BY PendingAll DEF TagsNameVersions
  <2> QED
    BY <1>2, <2>1, <2>2 DEF PendingTrue, HasDrawn, IsPut
<1>7. PendingTagsAreTrue'
  BY <1>6 DEF PendingTagsAreTrue, PendingTrue
<1> QED
  BY <1>3, <1>5, <1>7 DEF TagsNameVersions

LEMMA SameVersions ==
    ASSUME TypeOK, UNCHANGED versions
    PROVE  /\ Len(versions') \in Nat /\ Len(versions) =< Len(versions')
           /\ \A e \in 1 .. Len(versions) : versions'[e] = versions[e]
BY DEF TypeOK

LEMMA AcceptTags ==
    ASSUME TypeOK, TagsNameVersions, NEW w \in Workers, NEW r \in Request, Accept(w, r)
    PROVE  TagsNameVersions'
<1>1. OnlyWorker(w)
  <2>1. pc'[w] \in {"open_update", "open_get"}
    BY DEF Accept, Goto, TypeOK
  <2> QED
    BY <2>1, SameVersions DEF OnlyWorker, Accept, Goto, TypeOK
<1>2. pc'[w] # "commit" /\ req'[w] = r
  BY DEF Accept, Goto, TypeOK
<1>3. ~HasDrawn(w)'
  BY <1>2 DEF Accept, Goto, TypeOK, HasDrawn, IsPut
<1> QED
  BY <1>1, <1>2, <1>3, WorkerTags DEF PendingTrue, Accept

LEMMA OpenTags ==
    ASSUME TypeOK, TagsNameVersions, NEW w \in Workers, OpenSession(w)
    PROVE  TagsNameVersions'
<1>0. UNCHANGED <<profiles, engine, versions, req>>
  BY DEF OpenSession
<1>1. CASE Finish(w, Reply("404"))
  BY <1>0, <1>1, FinishTags, ReplyType DEF TrueAnswer
<1>2. CASE /\ work' = [work EXCEPT ![w] = OnDatabase(@, engine)]
           /\ Goto(w, IF pc[w] = "open_get" THEN "get" ELSE "update")
  <2>1. pc'[w] = (IF pc[w] = "open_get" THEN "get" ELSE "update")
    BY <1>2 DEF Goto, TypeOK
  <2>2. OnlyWorker(w)
    BY <1>0, <1>2, <2>1, SameVersions DEF OnlyWorker, Goto, TypeOK
  <2>3. work'[w].etag = work[w].etag
    BY <1>2 DEF OnDatabase, TypeOK
  <2>4. HasDrawn(w)' => HasDrawn(w)
    BY <1>0, <2>1 DEF HasDrawn, IsPut, OpenSession
  <2>5. PendingTrue(w)
    BY PendingAll DEF TagsNameVersions
  <2>6. PendingTrue(w)'
    BY <1>0, <2>1, <2>3, <2>4, <2>5 DEF PendingTrue
  <2> QED
    BY <1>0, <2>2, <2>6, WorkerTags
<1> QED
  BY <1>1, <1>2 DEF OpenSession

LEMMA GetTags ==
    ASSUME TypeOK, TagsNameVersions, NEW w \in Workers, GetDocument(w)
    PROVE  TagsNameVersions'
<1>0. UNCHANGED <<profiles, engine, req>> /\ pc[w] = "get"
  BY DEF GetDocument
<1>1. CASE IsPut(req[w]) /\ DrawEtag(w)
  <2>1. pc'[w] = "open_update" /\ work'[w].etag = Len(versions) + 1
    BY <1>1 DEF DrawEtag, Goto, TypeOK, Drawn
  <2>2. OnlyWorker(w)
    BY <1>0, <1>1, <2>1, DrawGrows DEF OnlyWorker, DrawEtag, Goto, TypeOK
  <2>3. IsTrueVersion(versions', req[w].user, req[w].path,
                      [doc |-> req[w].body, etag |-> Len(versions) + 1])
    BY <1>1, DrawGrows DEF IsTrueVersion
  <2> QED
    BY <1>0, <2>1, <2>2, <2>3, WorkerTags DEF PendingTrue
<1>2. CASE /\ UNCHANGED versions
           /\ \E a \in Answer :
                 /\ Finish(w, a)
                 /\ a.etag # NoEtag =>
                       /\ a.change = NoChange
                       /\ HasDocument(Stored(w), req[w].path)
                       /\ a.etag = Stored(w).docs[req[w].path].etag
                       /\ a.doc = Stored(w).docs[req[w].path].doc
  <2>1. PICK a \in Answer :
           /\ Finish(w, a)
           /\ a.etag # NoEtag =>
                 /\ a.change = NoChange
                 /\ HasDocument(Stored(w), req[w].path)
                 /\ a.etag = Stored(w).docs[req[w].path].etag
                 /\ a.doc = Stored(w).docs[req[w].path].doc
    BY <1>2
  <2> DEFINE v == Stored(w).docs[req[w].path]
  <2>2. IsTrueVersion(versions, req[w].user, req[w].path, v) /\ v \in Version
    <3>1. work[w].db \in Databases /\ req[w].user \in Users /\ req[w].path \in Paths
      BY <1>0, StoredType DEF TypeOK, Request
    <3>2. Stored(w) \in Profile
      BY <1>0, StoredType
    <3> QED
      BY <3>1, <3>2 DEF TagsNameVersions, StoredTagsAreTrue, Stored, Profile
  <2>3. a.etag # NoEtag => v # NoVersion /\ v = [doc |-> a.doc, etag |-> a.etag]
    BY <2>1, <2>2 DEF HasDocument, Version
  <2>4. TrueAnswer(w, a)
    BY <2>1, <2>2, <2>3 DEF TrueAnswer
  <2> QED
    BY <1>0, <1>2, <2>1, <2>4, FinishTags
<1> QED
  BY <1>1, <1>2, GetEnds

LEMMA UpdateTags ==
    ASSUME TypeOK, TagsNameVersions, NEW w \in Workers, Update(w)
    PROVE  TagsNameVersions'
<1>0. UNCHANGED <<profiles, engine, versions, req>> /\ pc[w] = "update"
  BY DEF Update
<1>1. CASE \E a \in Answer : Finish(w, a) /\ a.etag = NoEtag
  BY <1>0, <1>1, FinishTags DEF TrueAnswer
<1> DEFINE new == Prepared(work[w], WithVersion(Stored(w), req[w].path, NewVersion(w)),
                           Stored(w).docs[req[w].path])
<1>2. CASE work' = [work EXCEPT ![w] = new] /\ Goto(w, "commit")
  <2>1. pc'[w] = "commit" /\ work'[w] = new
    BY <1>2 DEF Goto, TypeOK
  <2>2. OnlyWorker(w)
    BY <1>0, <1>2, <2>1, SameVersions DEF OnlyWorker, Goto, TypeOK
  <2>3. new.etag = work[w].etag /\ new.profile = WithVersion(Stored(w), req[w].path, NewVersion(w))
    BY <1>0, PreparedType
  <2>4. /\ work[w].db \in Databases /\ req[w].user \in Users /\ req[w].path \in Paths
        /\ Stored(w) \in Profile
    BY <1>0, StoredType DEF TypeOK, Request
  <2>5. PendingTrue(w)
    BY PendingAll DEF TagsNameVersions
  <2>6. IsTrueVersion(versions, req[w].user, req[w].path, NewVersion(w))
    BY <1>0, <2>5 DEF PendingTrue, HasDrawn, NewVersion, IsTrueVersion
  <2>7. ASSUME NEW x \in Paths
        PROVE  IsTrueVersion(versions, req[w].user, x, new.profile.docs[x])
    <3>1. IsTrueVersion(versions, req[w].user, x, Stored(w).docs[x])
      BY <2>4 DEF TagsNameVersions, StoredTagsAreTrue, Stored
    <3>2. WithVersion(Stored(w), req[w].path, NewVersion(w)).docs[x] =
             IF x = req[w].path THEN NewVersion(w) ELSE Stored(w).docs[x]
      BY <2>4, NewVersionType, WithVersionType
    <3> QED
      BY <2>3, <2>6, <3>1, <3>2
  <2>8. HasDrawn(w)' => HasDrawn(w)
    BY <1>0 DEF HasDrawn, IsPut
  <2> HIDE DEF new
  <2>9. PendingTrue(w)'
    BY <1>0, <2>1, <2>3, <2>5, <2>7, <2>8 DEF PendingTrue
  <2> QED
    BY <1>0, <2>2, <2>9, WorkerTags
<1> QED
  BY <1>1, <1>2, UpdatePrepares

(* A write of true versions by worker w leaves the tags true.               *)
LEMMA StoreTags ==
    ASSUME TypeOK, TagsNameVersions, NEW db \in Databases, NEW u \in Users, NEW p \in Profile,
           Store(db, u, p), \A x \in Paths : IsTrueVersion(versions, u, x, p.docs[x]),
           UNCHANGED versions
    PROVE  StoredTagsAreTrue'
BY StoreType DEF TagsNameVersions, StoredTagsAreTrue

LEMMA CommitTags ==
    ASSUME TypeOK, TagsNameVersions, NEW w \in Workers, Commit(w)
    PROVE  TagsNameVersions'
<1>1. /\ pc[w] = "commit" /\ Store(work[w].db, req[w].user, work[w].profile)
      /\ OthersOvertaken(w, work[w].db, req[w].user) /\ Goto(w, "refresh")
      /\ UNCHANGED <<engine, versions, req>>
  BY DEF Commit
<1>2. work[w].db \in Databases /\ req[w].user \in Users /\ work[w].profile \in Profile
  BY <1>1, StoredType DEF TypeOK, Work
<1>3. \A v \in Workers : PendingTrue(v)
  BY PendingAll DEF TagsNameVersions
<1>4. StoredTagsAreTrue'
  BY <1>1, <1>2, <1>3, StoreTags DEF PendingTrue
<1>5. AnsweredTagsAreTrue'
  BY <1>1 DEF TagsNameVersions, AnsweredTagsAreTrue, AnsweredDoc, Goto, TypeOK
<1>6. ASSUME NEW v \in Workers PROVE PendingTrue(v)'
  <2>1. /\ work'[v].etag = work[v].etag
        /\ v # w => work'[v].profile = work[v].profile
    BY <1>1, OvertakenType DEF OthersOvertaken
  <2>2. /\ HasDrawn(v)' => HasDrawn(v)
        /\ pc'[v] = "commit" => v # w /\ pc[v] = "commit"
    BY <1>1 DEF HasDrawn, IsPut, Goto, TypeOK
  <2> QED
    BY <1>1, <1>3, <2>1, <2>2 DEF PendingTrue
<1> QED
  BY <1>4, <1>5, <1>6 DEF TagsNameVersions, PendingTagsAreTrue, PendingTrue

LEMMA RefreshTags ==
    ASSUME TypeOK, TagsNameVersions, NEW w \in Workers, Refresh(w)
    PROVE  TagsNameVersions'
<1>0. UNCHANGED <<profiles, engine, versions, req>> /\ pc[w] = "refresh"
  BY DEF Refresh
<1>1. CASE Finish(w, SuccessReply(w))
  <2>1. PendingTrue(w)
    BY PendingAll DEF TagsNameVersions
  <2>2. TrueAnswer(w, SuccessReply(w))
    BY <1>0, <2>1, SuccessType DEF TrueAnswer, PendingTrue, HasDrawn
  <2> QED
    BY <1>0, <1>1, <2>2, SuccessType, FinishTags
<1>2. CASE Finish(w, Reply("error"))
  BY <1>0, <1>2, FinishTags, ReplyType DEF TrueAnswer
<1> QED
  BY <1>1, <1>2 DEF Refresh

LEMMA RespondTags ==
    ASSUME TypeOK, TagsNameVersions, NEW w \in Workers, Respond(w)
    PROVE  TagsNameVersions'
<1>1. OnlyWorker(w) /\ pc'[w] = "idle"
  BY SameVersions DEF Respond, OnlyWorker, TypeOK
<1>2. PendingTrue(w)'
  BY <1>1 DEF PendingTrue, HasDrawn
<1> QED
  BY <1>1, <1>2, WorkerTags DEF Respond

LEMMA ProvisionTags ==
    ASSUME TypeOK, TagsNameVersions, NEW db \in Databases, NEW u \in Users, NEW s \in Settings,
           Provision(db, u, s)
    PROVE  TagsNameVersions'
<1>1. UNCHANGED <<engine, versions, pc, req, answer>>
  BY DEF Provision
<1>2. StoredTagsAreTrue'
  BY <1>1, ProvisionStores, StoreTags DEF TagsNameVersions, StoredTagsAreTrue
<1>3. AnsweredTagsAreTrue'
  BY <1>1 DEF TagsNameVersions, AnsweredTagsAreTrue, AnsweredDoc
<1>4. ASSUME NEW v \in Workers
      PROVE  work'[v].etag = work[v].etag /\ work'[v].profile = work[v].profile
  BY OvertakenType DEF Provision
<1>5. PendingTagsAreTrue'
  BY <1>1, <1>4 DEF TagsNameVersions, PendingTagsAreTrue, HasDrawn, IsPut
<1> QED
  BY <1>2, <1>3, <1>5 DEF TagsNameVersions

LEMMA TagsStep == TypeOK /\ TagsNameVersions /\ [Next]_vars => TagsNameVersions'
<1> SUFFICES ASSUME TypeOK, TagsNameVersions, [Next]_vars PROVE TagsNameVersions'
  OBVIOUS
<1>1. ASSUME NEW w \in Workers, Receive(w) PROVE TagsNameVersions'
  BY <1>1, ReceiveRequest, AcceptTags
<1>2. ASSUME NEW w \in Workers,
             \/ OpenSession(w) \/ GetDocument(w) \/ Update(w) \/ Commit(w) \/ Refresh(w) \/ Respond(w)
      PROVE  TagsNameVersions'
  BY <1>2, OpenTags, GetTags, UpdateTags, CommitTags, RefreshTags, RespondTags
<1>3. ASSUME NEW w \in Workers, CommitFails(w) PROVE TagsNameVersions'
  BY <1>3, FinishTags, ReplyType DEF CommitFails, TrueAnswer
<1>4. ASSUME NEW db \in Databases, NEW u \in Users, NEW s \in Settings, Provision(db, u, s)
      PROVE  TagsNameVersions'
  BY <1>4, ProvisionTags
<1>5. CASE UNCHANGED <<profiles, versions, pc, req, work, answer>>
  BY <1>5 DEF TagsNameVersions, StoredTagsAreTrue, AnsweredTagsAreTrue, AnsweredDoc,
              PendingTagsAreTrue, HasDrawn, IsPut
<1> QED
  BY <1>1, <1>2, <1>3, <1>4, <1>5 DEF Next, HandleEvent, vars

(* Whatever overtakes what, and in whatever database, a document is stored, *)
(* answered and announced only under the tag put_document drew for it.      *)
THEOREM TagsTrue == Spec => []TagsNameVersions
<1>1. TypeOK /\ TagsNameVersions /\ [Next]_vars => (TypeOK /\ TagsNameVersions)'
  BY TypeStep, TagsStep
<1> QED
  BY <1>1, TypeInit, TagsInit, PTL DEF Spec

-----------------------------------------------------------------------------
(* A write that nothing overtook is atomic.                                 *)

CurrentFor(w) ==
    pc[w] = "commit" /\ ~work[w].overtaken =>
        /\ ConditionHolds(req[w], Stored(w))
        /\ work[w].profile = WithVersion(Stored(w), req[w].path, NewVersion(w))

(* A worker whose request, session and stored profile stay, stays current.  *)
LEMMA CurrentStays ==
    ASSUME NEW v \in Workers, CurrentFor(v), pc'[v] = pc[v], req'[v] = req[v],
           work'[v] = work[v], Stored(v)' = Stored(v)
    PROVE  CurrentFor(v)'
BY DEF CurrentFor, ConditionHolds, NewVersion, IsPut

LEMMA OthersStayCurrent ==
    ASSUME TypeOK, SnapshotIsCurrent, NEW w \in Workers, UNCHANGED profiles,
           \A v \in Workers \ {w} : pc'[v] = pc[v] /\ work'[v] = work[v] /\ req'[v] = req[v],
           pc'[w] # "commit"
    PROVE  SnapshotIsCurrent'
<1>1. ASSUME NEW v \in Workers \ {w} PROVE CurrentFor(v)'
  <2>1. CurrentFor(v) /\ Stored(v)' = Stored(v)
    BY DEF SnapshotIsCurrent, CurrentFor, Stored
  <2> QED
    BY <2>1, CurrentStays
<1> QED
  BY <1>1 DEF SnapshotIsCurrent, CurrentFor

LEMMA FinishCurrent ==
    ASSUME TypeOK, SnapshotIsCurrent, NEW w \in Workers, NEW a, Finish(w, a),
           UNCHANGED <<profiles, engine, req>>
    PROVE  SnapshotIsCurrent'
<1>1. /\ \A v \in Workers \ {w} : pc'[v] = pc[v] /\ work'[v] = work[v] /\ req'[v] = req[v]
      /\ pc'[w] # "commit"
  BY DEF Finish, TypeOK
<1> QED
  BY <1>1, OthersStayCurrent

LEMMA VerdictHolds ==
    ASSUME NEW r, NEW p, Verdict(r, p) = "ok"
    PROVE  ConditionHolds(r, p)
<1>1. CASE HasDocument(p, r.path)
  BY <1>1 DEF Verdict, ConditionHolds
<1>2. CASE ~HasDocument(p, r.path)
  BY <1>2 DEF Verdict, ConditionHolds, AbsentCheck
<1> QED
  BY <1>1, <1>2

LEMMA UpdateCurrent ==
    ASSUME TypeOK, SnapshotIsCurrent, NEW w \in Workers, Update(w)
    PROVE  SnapshotIsCurrent'
<1>0. UNCHANGED <<profiles, engine, versions, req>> /\ pc[w] = "update"
  BY DEF Update
<1>1. CASE \E a \in Answer : Finish(w, a)
  BY <1>0, <1>1, FinishCurrent
<1> DEFINE new == Prepared(work[w], WithVersion(Stored(w), req[w].path, NewVersion(w)),
                           Stored(w).docs[req[w].path])
<1>2. CASE /\ Verdict(req[w], Stored(w)) = "ok"
           /\ work' = [work EXCEPT ![w] = new] /\ Goto(w, "commit")
  <2>1. work'[w] = new
    BY <1>2 DEF TypeOK
  <2>2. /\ new.db = work[w].db /\ new.etag = work[w].etag
        /\ new.profile = WithVersion(Stored(w), req[w].path, NewVersion(w))
    BY <1>0, PreparedType
  <2> HIDE DEF new
  <2>3. Stored(w)' = Stored(w) /\ NewVersion(w)' = NewVersion(w)
    BY <1>0, <2>1, <2>2 DEF Stored, NewVersion, IsPut
  <2>4. ConditionHolds(req[w], Stored(w))
    BY <1>2, VerdictHolds
  <2>5. CurrentFor(w)'
    BY <1>0, <2>1, <2>2, <2>3, <2>4 DEF CurrentFor, ConditionHolds
  <2>6. ASSUME NEW v \in Workers \ {w} PROVE CurrentFor(v)'
    <3>1. pc'[v] = pc[v] /\ work'[v] = work[v] /\ req'[v] = req[v]
      BY <1>0, <1>2 DEF Goto, TypeOK
    <3>2. CurrentFor(v) /\ Stored(v)' = Stored(v)
      BY <1>0, <3>1 DEF SnapshotIsCurrent, CurrentFor, Stored
    <3> QED
      BY <3>1, <3>2, CurrentStays
  <2> QED
    BY <2>5, <2>6 DEF SnapshotIsCurrent, CurrentFor
<1> QED
  BY <1>1, <1>2, UpdatePrepares

(* Workers that a write does not mark as overtaken read another profile.    *)
LEMMA StoreCurrent ==
    ASSUME TypeOK, SnapshotIsCurrent, NEW db \in Databases, NEW u \in Users, NEW p \in Profile,
           Store(db, u, p), UNCHANGED req, NEW v \in Workers, pc'[v] = pc[v],
           work'[v] = IF IsCommittingTo(v, db, u) THEN Overtaken(work[v]) ELSE work[v]
    PROVE  CurrentFor(v)'
<1>1. CASE IsCommittingTo(v, db, u)
  BY <1>1, OvertakenType DEF CurrentFor
<1>2. CASE pc[v] = "commit" /\ ~IsCommittingTo(v, db, u)
  <2>1. work'[v] = work[v] /\ req'[v] = req[v]
    BY <1>2
  <2>2. CurrentFor(v)
    BY DEF SnapshotIsCurrent, CurrentFor
  <2>3. work[v].db \in Databases /\ req[v].user \in Users /\ ~(work[v].db = db /\ req[v].user = u)
    BY <1>2, StoredType DEF IsCommittingTo
  <2>4. profiles'[work[v].db][req[v].user] = profiles[work[v].db][req[v].user]
    BY <2>3, StoreType
  <2>5. Stored(v)' = Stored(v)
    BY <2>1, <2>4 DEF Stored
  <2> QED
    BY <2>1, <2>2, <2>5, CurrentStays
<1>3. CASE pc[v] # "commit"
  BY <1>3 DEF CurrentFor
<1> QED
  BY <1>1, <1>2, <1>3

LEMMA CommitCurrent ==
    ASSUME TypeOK, SnapshotIsCurrent, NEW w \in Workers, Commit(w)
    PROVE  SnapshotIsCurrent'
<1>1. /\ pc[w] = "commit" /\ Store(work[w].db, req[w].user, work[w].profile)
      /\ OthersOvertaken(w, work[w].db, req[w].user) /\ Goto(w, "refresh") /\ UNCHANGED req
  BY DEF Commit
<1>2. work[w].db \in Databases /\ req[w].user \in Users /\ work[w].profile \in Profile
  BY <1>1, StoredType DEF TypeOK, Work
<1>3. ASSUME NEW v \in Workers \ {w} PROVE CurrentFor(v)'
  <2>1. pc'[v] = pc[v]
    BY <1>1 DEF Goto, TypeOK
  <2>2. work'[v] = IF IsCommittingTo(v, work[w].db, req[w].user) THEN Overtaken(work[v]) ELSE work[v]
    BY <1>1 DEF OthersOvertaken
  <2> QED
    BY <1>1, <1>2, <2>1, <2>2, StoreCurrent
<1>4. CurrentFor(w)'
  BY <1>1 DEF CurrentFor, Goto, TypeOK
<1> QED
  BY <1>3, <1>4 DEF SnapshotIsCurrent, CurrentFor

LEMMA ProvisionCurrent ==
    ASSUME TypeOK, SnapshotIsCurrent, NEW db \in Databases, NEW u \in Users, NEW s \in Settings,
           Provision(db, u, s)
    PROVE  SnapshotIsCurrent'
<1>1. PICK p \in Profile : Store(db, u, p)
  BY ProvisionStores
<1>2. ASSUME NEW v \in Workers PROVE CurrentFor(v)'
  BY <1>1, StoreCurrent DEF Provision
<1> QED
  BY <1>2 DEF SnapshotIsCurrent, CurrentFor

LEMMA CurrentStep == TypeOK /\ SnapshotIsCurrent /\ [Next]_vars => SnapshotIsCurrent'
<1> SUFFICES ASSUME TypeOK, SnapshotIsCurrent, [Next]_vars PROVE SnapshotIsCurrent'
  OBVIOUS
<1>1. ASSUME NEW w \in Workers, Receive(w) PROVE SnapshotIsCurrent'
  <2>1. PICK r \in Request : Accept(w, r)
    BY <1>1, ReceiveRequest
  <2>2. /\ \A v \in Workers \ {w} : pc'[v] = pc[v] /\ work'[v] = work[v] /\ req'[v] = req[v]
        /\ pc'[w] # "commit" /\ UNCHANGED profiles
    BY <2>1 DEF Accept, Goto, TypeOK
  <2> QED
    BY <2>2, OthersStayCurrent
<1>2. ASSUME NEW w \in Workers, OpenSession(w) \/ Respond(w) PROVE SnapshotIsCurrent'
  <2>1. /\ \A v \in Workers \ {w} : pc'[v] = pc[v] /\ work'[v] = work[v] /\ req'[v] = req[v]
        /\ pc'[w] # "commit" /\ UNCHANGED profiles
    BY <1>2 DEF OpenSession, Respond, Goto, Finish, TypeOK
  <2> QED
    BY <2>1, OthersStayCurrent
<1>3. ASSUME NEW w \in Workers, GetDocument(w) PROVE SnapshotIsCurrent'
  <2>0. UNCHANGED <<profiles, engine, req>>
    BY <1>3 DEF GetDocument
  <2>1. CASE DrawEtag(w)
    <3>1. /\ \A v \in Workers \ {w} : pc'[v] = pc[v] /\ work'[v] = work[v] /\ req'[v] = req[v]
          /\ pc'[w] # "commit"
      BY <2>0, <2>1 DEF DrawEtag, Goto, TypeOK
    <3> QED
      BY <2>0, <3>1, OthersStayCurrent
  <2>2. CASE \E a \in Answer : Finish(w, a)
    BY <2>0, <2>2, FinishCurrent
  <2> QED
    BY <1>3, <2>1, <2>2, GetEnds
<1>4. ASSUME NEW w \in Workers, Update(w) \/ Commit(w) PROVE SnapshotIsCurrent'
  BY <1>4, UpdateCurrent, CommitCurrent
<1>5. ASSUME NEW w \in Workers, CommitFails(w) \/ Refresh(w) PROVE SnapshotIsCurrent'
  BY <1>5, FinishCurrent DEF CommitFails, Refresh
<1>6. ASSUME NEW db \in Databases, NEW u \in Users, NEW s \in Settings, Provision(db, u, s)
      PROVE  SnapshotIsCurrent'
  BY <1>6, ProvisionCurrent
<1>7. CASE UNCHANGED <<profiles, versions, pc, req, work, answer>>
  BY <1>7 DEF SnapshotIsCurrent, ConditionHolds, Stored, NewVersion, IsPut
<1> QED
  BY <1>1, <1>2, <1>3, <1>4, <1>5, <1>6, <1>7 DEF Next, HandleEvent, vars

LEMMA OnlyCommitWrites ==
    ASSUME TypeOK, [Next]_vars, NEW w \in Workers, pc[w] = "commit", pc'[w] = "refresh"
    PROVE  Commit(w)
<1>1. ASSUME NEW v \in Workers, Receive(v) PROVE FALSE
  <2>1. PICK r \in Request : Accept(v, r)
    BY <1>1, ReceiveRequest
  <2> QED
    BY <2>1 DEF Accept, Goto, TypeOK
<1>2. ASSUME NEW v \in Workers, OpenSession(v) \/ Respond(v) \/ CommitFails(v) \/ Refresh(v) PROVE FALSE
  BY <1>2 DEF OpenSession, Respond, CommitFails, Refresh, Goto, Finish, TypeOK
<1>3. ASSUME NEW v \in Workers, GetDocument(v) PROVE FALSE
  <2>1. DrawEtag(v) \/ \E a \in Answer : Finish(v, a)
    BY <1>3, GetEnds
  <2> QED
    BY <1>3, <2>1 DEF GetDocument, DrawEtag, Goto, Finish, TypeOK
<1>4. ASSUME NEW v \in Workers, Update(v) PROVE FALSE
  BY <1>4 DEF Update, Goto, Finish, TypeOK
<1>5. ASSUME NEW v \in Workers, Commit(v) PROVE v = w
  BY <1>5 DEF Commit, Goto, TypeOK
<1> QED
  BY <1>1, <1>2, <1>3, <1>4, <1>5 DEF Next, HandleEvent, Provision, vars

(* The write of an update that nothing overtook, between the read of the    *)
(* profile and its commit, is an atomic conditional update of one document: *)
(* only the overlap of requests for one account loses changes.              *)
LEMMA AtomicStep ==
    ASSUME TypeOK, SnapshotIsCurrent, [Next]_vars, NEW w \in Workers,
           pc[w] = "commit", pc'[w] = "refresh", ~work[w].overtaken
    PROVE  /\ ConditionHolds(req[w], Stored(w))
           /\ ChangesOnly(work[w].db, req[w].user, req[w].path, NewVersion(w))
<1>1. Store(work[w].db, req[w].user, work[w].profile)
  BY OnlyCommitWrites DEF Commit
<1>2. /\ work[w].db \in Databases /\ req[w].user \in Users /\ work[w].profile \in Profile
      /\ Stored(w) \in Profile /\ req[w].path \in Paths
  BY StoredType DEF TypeOK, Work, Request
<1>3. /\ ConditionHolds(req[w], Stored(w))
      /\ work[w].profile = WithVersion(Stored(w), req[w].path, NewVersion(w))
  BY DEF SnapshotIsCurrent
<1>4. \A b \in Databases, t \in Users :
         profiles'[b][t] = IF b = work[w].db /\ t = req[w].user THEN work[w].profile ELSE profiles[b][t]
  BY <1>1, <1>2, StoreType
<1>5. LET q == work[w].profile
          p == Stored(w)
      IN /\ q.is = p.is /\ q.settings = p.settings /\ q.docs[req[w].path] = NewVersion(w)
         /\ \A y \in Paths \ {req[w].path} : q.docs[y] = p.docs[y]
  BY <1>2, <1>3, NewVersionType, WithVersionType
<1> QED
  BY <1>3, <1>4, <1>5 DEF ChangesOnly, Stored

(* DatabaseConnection._put_operation and _delete_operation, as long as no   *)
(* other write to the account falls between the read and the commit of      *)
(* retrieve_profile, change one document under the condition of the request *)
(* and nothing else in any profile of any database.                         *)
THEOREM Atomic == Spec => UnovertakenWriteIsAtomic
<1>1. Init => SnapshotIsCurrent
  BY DEF Init, SnapshotIsCurrent
<1>2. TypeOK /\ SnapshotIsCurrent /\ [Next]_vars => (TypeOK /\ SnapshotIsCurrent)'
  BY TypeStep, CurrentStep
<1>3. TypeOK /\ SnapshotIsCurrent /\ [Next]_vars =>
         [\A w \in Workers : pc[w] = "commit" /\ pc'[w] = "refresh" /\ ~work[w].overtaken =>
             /\ ConditionHolds(req[w], Stored(w))
             /\ ChangesOnly(work[w].db, req[w].user, req[w].path, NewVersion(w))]_vars
  BY AtomicStep
<1> QED
  BY <1>1, <1>2, <1>3, TypeInit, PTL DEF Spec, UnovertakenWriteIsAtomic
=============================================================================
