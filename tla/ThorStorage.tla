---------------------------- MODULE ThorStorage ----------------------------
(***************************************************************************)
(* The storage of xcap/backend/sipthor.py: Storage, DatabaseConnection and  *)
(* the part of XCAPProvisioning and of xcap/db/manager.py that decides      *)
(* which database a session is opened on.                                   *)
(*                                                                          *)
(* All documents of an account are entries of one JSON value, the profile,  *)
(* which also holds what the provisioning of the SIP service keeps there.   *)
(* A session reads the profile of an account, an operation changes one      *)
(* document in it, and the whole profile is written back. A PUT takes two   *)
(* sessions: one for the identical document, one for the update.            *)
(*                                                                          *)
(* A worker is one request being served; every await is a boundary between  *)
(* two actions. Documents have passed validation when they get here, and a  *)
(* node update has been recomputed into a whole document (DatabaseStorage). *)
(***************************************************************************)
EXTENDS Naturals, Sequences, FiniteSets, Preconditions

CONSTANTS
    Workers,     \* the requests in flight
    Users,       \* accounts, username and domain
    Paths,       \* documents of an account: application and normalized path
    Docs,        \* what a document may be
    Settings,    \* what the provisioning keeps in a profile
    Databases,   \* the thor_database nodes
    Configured,  \* storage_db_uri of the configuration, if there is one
    Conditions,  \* the conditional headers clients send
    NoDoc, NoDatabase, Truncated,
    MaxEtags     \* bound on the tags drawn in a behaviour

ASSUME ThorAssumption ==
    /\ NoDoc \notin Docs
    /\ NoDatabase \notin Databases
    /\ Configured \in Databases \cup {NoDatabase}
    /\ Truncated \notin Nat
    /\ Unconditional \in Conditions
    /\ \A c \in Conditions : c.ifMatch.tags \cup c.ifNoneMatch.tags \subseteq Nat
    /\ Users # {} /\ Paths # {} /\ Settings # {}
    /\ MaxEtags \in Nat

VARIABLES
    profiles,  \* database -> account -> its profile
    engine,    \* the database new sessions are opened on
    versions,  \* the entity tags drawn so far: tag -> what it was drawn for
    pc,        \* where each worker is
    req,       \* the request it serves
    work,      \* its local variables
    answer     \* what it answered last

vars == <<profiles, engine, versions, pc, req, work, answer>>

(***************************************************************************)
(* Values. An account may be missing from sip_accounts_meta, or be there    *)
(* without a row in sip_accounts_data ("bare": its profile is None).        *)
(***************************************************************************)
Version == [doc : Docs \cup {NoDoc}, etag : Nat]

NoVersion == [doc |-> NoDoc, etag |-> NoEtag]

Profile == [is : {"missing", "bare", "there"}, docs : [Paths -> Version], settings : Settings]

SomeSettings == CHOOSE s \in Settings : TRUE

NewProfile(is) == [is |-> is, docs |-> [x \in Paths |-> NoVersion], settings |-> SomeSettings]

Request == [method : {"get", "put", "put_node", "delete"}, user : Users, path : Paths,
            body : Docs \cup {NoDoc}, cond : Conditions]

NoRequest == [method |-> "get", user |-> CHOOSE u \in Users : TRUE,
              path |-> CHOOSE x \in Paths : TRUE, body |-> NoDoc, cond |-> Unconditional]

(* db: the database the session is on; etag: the tag drawn for the new      *)
(* version; profile: what the operation made of the profile; old: the       *)
(* version it replaces. overtaken is not in the code: whether the stored    *)
(* profile was written by others since this worker read it.                 *)
Work == [db : Databases \cup {NoDatabase}, etag : Nat, profile : Profile, old : Version,
         overtaken : BOOLEAN]

NoWork == [db |-> NoDatabase, etag |-> NoEtag, profile |-> NewProfile("missing"),
           old |-> NoVersion, overtaken |-> FALSE]

(* change: the arguments on_change is called with once the answer has left. *)
Change == [old : Nat \cup {Truncated}, new : Nat]

NoChange == [old |-> NoEtag, new |-> NoEtag]

Answer == [code : {"none", "200", "201", "304", "404", "412", "error"},
           etag : Nat, doc : Docs \cup {NoDoc}, change : Change]

Outcome(code, etag, doc, change) == [code |-> code, etag |-> etag, doc |-> doc, change |-> change]

Reply(code) == Outcome(code, NoEtag, NoDoc, NoChange)

-----------------------------------------------------------------------------

Init ==
    /\ \E is \in [Users -> {"missing", "bare", "there"}] :
          profiles = [b \in Databases |-> [u \in Users |-> NewProfile(is[u])]]
    /\ engine = NoDatabase
    /\ versions = <<>>
    /\ pc = [w \in Workers |-> "idle"]
    /\ req = [w \in Workers |-> NoRequest]
    /\ work = [w \in Workers |-> NoWork]
    /\ answer = [w \in Workers |-> Reply("none")]

Finish(w, a) ==
    /\ pc' = [pc EXCEPT ![w] = "done"]
    /\ answer' = [answer EXCEPT ![w] = a]
    /\ work' = [work EXCEPT ![w] = NoWork]

Goto(w, label) == pc' = [pc EXCEPT ![w] = label] /\ UNCHANGED answer

Stored(w) == profiles[work[w].db][req[w].user]

IsPut(r) == r.method \in {"put", "put_node"}

(* A request reaches the storage. Clients quote only tags they were given.  *)
UndrawnPuts == {v \in Workers : pc[v] \in {"open_get", "get"} /\ IsPut(req[v])}

Accept(w, r) ==
    /\ pc[w] = "idle"
    /\ r.cond.ifMatch.tags \cup r.cond.ifNoneMatch.tags \subseteq 1 .. Len(versions)
    /\ IsPut(r) => Len(versions) + Cardinality(UndrawnPuts) < MaxEtags
    /\ req' = [req EXCEPT ![w] = r]
    /\ Goto(w, IF r.method = "delete" THEN "open_update" ELSE "open_get")
    /\ UNCHANGED <<profiles, engine, versions, work>>

Receive(w) ==
    \E method \in {"get", "put", "put_node", "delete"}, u \in Users, x \in Paths, c \in Conditions :
    \E body \in IF method \in {"put", "put_node"} THEN Docs ELSE {NoDoc} :
        Accept(w, [method |-> method, user |-> u, path |-> x, body |-> body, cond |-> c])

(* Mutant: a session is opened without asking whether there is a database.  *)
OpenSessionAnyway(w) ==
    /\ pc[w] \in {"open_get", "open_update"}
    /\ work' = [work EXCEPT ![w] = [@ EXCEPT !.db = engine]]
    /\ Goto(w, IF pc[w] = "open_get" THEN "get" ELSE "update")
    /\ UNCHANGED <<profiles, engine, versions, req>>

(***************************************************************************)
(* get_db_session: a session stays on the database it was opened on. The    *)
(* NoDatabase that is raised before the first event is a ResourceNotFound.  *)
(***************************************************************************)
OnDatabase(v, db) == [db |-> db, etag |-> v.etag, profile |-> v.profile, old |-> v.old,
                      overtaken |-> v.overtaken]

OpenSession(w) ==
    /\ pc[w] \in {"open_get", "open_update"}
    /\ \/ engine = NoDatabase /\ Finish(w, Reply("404"))
       \/ /\ engine # NoDatabase
          /\ work' = [work EXCEPT ![w] = OnDatabase(@, engine)]
          /\ Goto(w, IF pc[w] = "open_get" THEN "get" ELSE "update")
    /\ UNCHANGED <<profiles, engine, versions, req>>

(***************************************************************************)
(* What check_etag says. Calling it with a second argument, as _put_operation *)
(* does when there is no document, is a TypeError for a node update.        *)
(***************************************************************************)
Check(r, etag) == CheckEtag(IF r.method = "get" THEN "get" ELSE "put", r.cond, etag, TRUE)

AbsentCheck(r) == IF r.method = "put" THEN CheckEtag("put", r.cond, NoEtag, FALSE) ELSE "error"

HasDocument(p, x) == p.is = "there" /\ p.docs[x] # NoVersion

IsNotFound(p, x) == p.is = "missing" \/ (p.is = "there" /\ p.docs[x] = NoVersion)

(* make_random_etag: a tag nobody has.                                      *)
Drawn(v, etag) == [db |-> v.db, etag |-> etag, profile |-> v.profile, old |-> v.old,
                   overtaken |-> v.overtaken]

DrawEtag(w) ==
    /\ versions' = Append(versions, [user |-> req[w].user, path |-> req[w].path,
                                     doc |-> req[w].body])
    /\ work' = [work EXCEPT ![w] = Drawn(@, Len(versions) + 1)]
    /\ Goto(w, "open_update")

(***************************************************************************)
(* get_document, for a GET or as the first half of put_document. The        *)
(* database may fail, and a bare profile is a TypeError: a 500 either way.  *)
(***************************************************************************)
Got(w, v) ==
    LET check == Check(req[w], v.etag)
        same  == IsPut(req[w]) => v.doc = req[w].body
    IN \/ check # "ok" /\ Finish(w, Reply(check)) /\ UNCHANGED versions
       \/ /\ check = "ok" /\ same
          /\ Finish(w, Outcome("200", v.etag, v.doc, NoChange))
          /\ UNCHANGED versions
       \/ check = "ok" /\ ~same /\ DrawEtag(w)

GetDocument(w) ==
    /\ pc[w] = "get"
    /\ \/ Finish(w, Reply("error")) /\ UNCHANGED versions
       \/ /\ IsNotFound(Stored(w), req[w].path) /\ req[w].method = "get"
          /\ Finish(w, Reply("404")) /\ UNCHANGED versions
       \/ IsNotFound(Stored(w), req[w].path) /\ IsPut(req[w]) /\ DrawEtag(w)
       \/ HasDocument(Stored(w), req[w].path) /\ Got(w, Stored(w).docs[req[w].path])
    /\ UNCHANGED <<profiles, engine, req>>

(* Mutant: the other documents of the account are left behind.              *)
WithOnly(p, x, v) == [is |-> p.is, docs |-> [y \in Paths |-> IF y = x THEN v ELSE NoVersion],
                      settings |-> p.settings]

WithVersion(p, x, v) == [is |-> p.is, docs |-> [p.docs EXCEPT ![x] = v], settings |-> p.settings]

(* Mutant: the tag of the version that is replaced stays.                   *)
NewVersionOfOldEtag(w) ==
    IF IsPut(req[w]) THEN [doc |-> req[w].body, etag |-> Stored(w).docs[req[w].path].etag]
    ELSE NoVersion

NewVersion(w) ==
    IF IsPut(req[w]) THEN [doc |-> req[w].body, etag |-> work[w].etag] ELSE NoVersion

(***************************************************************************)
(* retrieve_profile for an update, up to the commit: _put_operation and     *)
(* _delete_operation. A bare profile is an AttributeError.                  *)
(***************************************************************************)
Verdict(r, p) ==
    IF HasDocument(p, r.path) THEN Check(r, p.docs[r.path].etag)
    ELSE IF p.is = "there" /\ IsPut(r) THEN AbsentCheck(r)
    ELSE IF IsNotFound(p, r.path) THEN "404"
    ELSE "error"

Prepared(v, p, old) == [db |-> v.db, etag |-> v.etag, profile |-> p, old |-> old,
                        overtaken |-> FALSE]

Update(w) ==
    LET p == Stored(w)
        x == req[w].path
        v == Verdict(req[w], p)
    IN /\ pc[w] = "update"
       /\ \/ Finish(w, Reply("error"))
          \/ v # "ok" /\ Finish(w, Reply(v))
          \/ /\ v = "ok"
             /\ work' = [work EXCEPT ![w] =
                            Prepared(@, WithVersion(p, x, NewVersion(w)), p.docs[x])]
             /\ Goto(w, "commit")
       /\ UNCHANGED <<profiles, engine, versions, req>>

(* Every other worker about to commit to this profile read an older one.    *)
Overtaken(v) == [db |-> v.db, etag |-> v.etag, profile |-> v.profile, old |-> v.old,
                 overtaken |-> TRUE]

IsCommittingTo(v, db, u) == pc[v] = "commit" /\ work[v].db = db /\ req[v].user = u

(* What is left of the session that has written: the profile has served.    *)
Written(v) == [db |-> v.db, etag |-> v.etag, profile |-> NewProfile("missing"), old |-> v.old,
               overtaken |-> FALSE]

OthersOvertaken(w, db, u) ==
    work' = [v \in Workers |-> IF v = w THEN Written(work[v])
                               ELSE IF IsCommittingTo(v, db, u) THEN Overtaken(work[v])
                               ELSE work[v]]

Store(db, u, p) ==
    profiles' = [b \in Databases |-> IF b = db THEN [profiles[b] EXCEPT ![u] = p]
                                     ELSE profiles[b]]

(* set_profile writes the row it has read, whatever is in it by now.        *)
Commit(w) ==
    /\ pc[w] = "commit"
    /\ Store(work[w].db, req[w].user, work[w].profile)
    /\ OthersOvertaken(w, work[w].db, req[w].user)
    /\ Goto(w, "refresh")
    /\ UNCHANGED <<engine, versions, req>>

CommitFails(w) ==
    /\ pc[w] = "commit"
    /\ Finish(w, Reply("error"))
    /\ UNCHANGED <<profiles, engine, versions, req>>

(***************************************************************************)
(* The answer of _cb_put and _cb_delete, with the change to announce.       *)
(* _delete_operation returns (etag), which is no tuple: result[1] is the    *)
(* second character of the tag. A refresh that fails is a 500.              *)
(***************************************************************************)
SuccessReply(w) ==
    IF IsPut(req[w])
    THEN Outcome(IF work[w].old = NoVersion THEN "201" ELSE "200", work[w].etag, NoDoc,
                 [old |-> work[w].old.etag, new |-> work[w].etag])
    ELSE Outcome("200", NoEtag, NoDoc, [old |-> Truncated, new |-> NoEtag])

Refresh(w) ==
    /\ pc[w] = "refresh"
    /\ Finish(w, SuccessReply(w)) \/ Finish(w, Reply("error"))
    /\ UNCHANGED <<profiles, engine, versions, req>>

(* The answer leaves; the worker is free for the next request.              *)
Respond(w) ==
    /\ pc[w] = "done"
    /\ pc' = [pc EXCEPT ![w] = "idle"]
    /\ req' = [req EXCEPT ![w] = NoRequest]
    /\ answer' = [answer EXCEPT ![w] = Reply("none")]
    /\ UNCHANGED <<profiles, engine, versions, work>>

-----------------------------------------------------------------------------

(***************************************************************************)
(* handle_event and configure_db_connection: new sessions go to the first   *)
(* database the event lists, or to the configured one when it lists none.   *)
(* Without either, create_engine raises and everything stays as it was. Any *)
(* database of the event may come first.                                    *)
(***************************************************************************)
HandleEvent ==
    /\ engine' \in Databases \cup IF Configured = NoDatabase THEN {engine} ELSE {Configured}
    /\ UNCHANGED <<profiles, versions, pc, req, work, answer>>

(* The provisioning of the service changes its part of a profile.           *)
Provision(db, u, s) ==
    /\ profiles[db][u].is = "there"
    /\ Store(db, u, [is |-> "there", docs |-> profiles[db][u].docs, settings |-> s])
    /\ work' = [v \in Workers |-> IF IsCommittingTo(v, db, u) THEN Overtaken(work[v]) ELSE work[v]]
    /\ UNCHANGED <<engine, versions, pc, req, answer>>

Next ==
    \/ \E w \in Workers :
          \/ Receive(w) \/ OpenSession(w) \/ GetDocument(w) \/ Update(w)
          \/ Commit(w) \/ CommitFails(w) \/ Refresh(w) \/ Respond(w)
    \/ HandleEvent
    \/ \E db \in Databases, u \in Users, s \in Settings : Provision(db, u, s)

Spec == Init /\ [][Next]_vars

-----------------------------------------------------------------------------

Labels == {"idle", "open_get", "get", "open_update", "update", "commit", "refresh", "done"}

(* Every variable has its type; a worker with a session has its database,   *)
(* and a PUT has a body.                                                    *)
TypeOK ==
    /\ profiles \in [Databases -> [Users -> Profile]]
    /\ engine \in Databases \cup {NoDatabase}
    /\ versions \in Seq([user : Users, path : Paths, doc : Docs])
    /\ pc \in [Workers -> Labels]
    /\ req \in [Workers -> Request]
    /\ work \in [Workers -> Work]
    /\ answer \in [Workers -> Answer]
    /\ \A w \in Workers : pc[w] \in {"get", "update", "commit"} => work[w].db \in Databases
    /\ \A w \in Workers : IsPut(req[w]) => req[w].body \in Docs

(* A document is stored, in whatever database, under the tag that was drawn *)
(* for it, although profiles are written back whole and late: a profile     *)
(* that overtakes another brings versions back, but never a version under a *)
(* tag of another. What is answered under a tag, announced as new or about  *)
(* to be committed is what that tag was drawn for too.                      *)
IsTrueVersion(drawn, u, x, v) ==
    v # NoVersion => /\ v.etag \in 1 .. Len(drawn)
                     /\ drawn[v.etag] = [user |-> u, path |-> x, doc |-> v.doc]

StoredTagsAreTrue ==
    \A b \in Databases, u \in Users, x \in Paths :
        IsTrueVersion(versions, u, x, profiles[b][u].docs[x])

AnsweredDoc(w) == IF answer[w].change = NoChange THEN answer[w].doc ELSE req[w].body

AnsweredTagsAreTrue ==
    \A w \in Workers : pc[w] = "done" /\ answer[w].etag # NoEtag =>
        IsTrueVersion(versions, req[w].user, req[w].path,
                      [doc |-> AnsweredDoc(w), etag |-> answer[w].etag])

HasDrawn(w) == pc[w] \in {"open_update", "update", "commit", "refresh"} /\ IsPut(req[w])

PendingTagsAreTrue ==
    \A w \in Workers :
        /\ HasDrawn(w) => IsTrueVersion(versions, req[w].user, req[w].path,
                                        [doc |-> req[w].body, etag |-> work[w].etag])
        /\ pc[w] = "commit" => \A x \in Paths :
               IsTrueVersion(versions, req[w].user, x, work[w].profile.docs[x])

TagsNameVersions == StoredTagsAreTrue /\ AnsweredTagsAreTrue /\ PendingTagsAreTrue

(* A commit that no other write to the profile overtook since the read is   *)
(* an atomic conditional update: its condition holds of the document it     *)
(* replaces, and nothing else in any profile changes, neither another       *)
(* document nor what the provisioning wrote. Only requests that overlap can *)
(* lose each other's changes, and only on one account in one database.      *)
ConditionHolds(r, p) ==
    IF HasDocument(p, r.path) THEN Check(r, p.docs[r.path].etag) = "ok"
    ELSE r.method = "put" /\ AbsentCheck(r) = "ok"

ChangesOnly(b, u, x, v) ==
    \A c \in Databases, t \in Users :
        LET p == profiles[c][t]
            q == profiles'[c][t]
        IN IF c = b /\ t = u
           THEN /\ q.is = p.is /\ q.settings = p.settings /\ q.docs[x] = v
                /\ \A y \in Paths \ {x} : q.docs[y] = p.docs[y]
           ELSE q = p

(* Why it holds: until it is overtaken, a worker about to commit holds the  *)
(* stored profile with its own version in it.                               *)
SnapshotIsCurrent ==
    \A w \in Workers : pc[w] = "commit" /\ ~work[w].overtaken =>
        /\ ConditionHolds(req[w], Stored(w))
        /\ work[w].profile = WithVersion(Stored(w), req[w].path, NewVersion(w))

UnovertakenWriteIsAtomic ==
    [][\A w \in Workers : pc[w] = "commit" /\ pc'[w] = "refresh" /\ ~work[w].overtaken =>
          /\ ConditionHolds(req[w], Stored(w))
          /\ ChangesOnly(work[w].db, req[w].user, req[w].path, NewVersion(w))]_vars

-----------------------------------------------------------------------------
(* Expectations the code does not meet *)

(* What on_change is given as the old tag of a deleted document is the tag  *)
(* that document had (xcapdiff.py, its opening comment on old_etag).        *)
DeletionNamesItsVersion ==
    \A w \in Workers : answer[w].change # NoChange => answer[w].change.old # Truncated

(* A write to one document of an account leaves its other documents alone.  *)
OtherDocumentsStay ==
    [][\A w \in Workers : pc[w] = "commit" /\ pc'[w] = "refresh" =>
          \A x \in Paths \ {req[w].path} :
              profiles'[work[w].db][req[w].user].docs[x] = Stored(w).docs[x]]_vars
=============================================================================
