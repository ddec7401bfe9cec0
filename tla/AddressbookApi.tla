--------------------------- MODULE AddressbookApi ---------------------------
(***************************************************************************)
(* The JSON API of xcap/routes/api_routes.py over the document storage: each*)
(* request takes its user's lock, loads the whole document, edits it, and   *)
(* puts the whole document back. XCAP clients write the same documents      *)
(* through xcap/routes/xcap_routes.py, which takes no lock.                 *)
(*                                                                          *)
(* The storage is that of DatabaseStorage, with the tags of the conditional *)
(* headers left out: a load or a fetch that a precondition refuses is one   *)
(* that fails. Ids of rows are not reused.                                  *)
(***************************************************************************)
EXTENDS Naturals, AddressbookRoutes

CONSTANTS
    Workers,     \* API requests in flight
    Clients,     \* XCAP requests in flight
    Users,
    Nobody,
    ClientDocs,  \* the documents XCAP clients write
    MaxWrites    \* bound on the versions of a behaviour

ASSUME ApiAssumption ==
    /\ Workers \cap Clients = {}
    /\ Users # {} /\ Nobody \notin Users
    /\ ClientDocs \subseteq Docs
    /\ MaxWrites \in Nat
    /\ \A x \in Contacts \cup Groups \cup Policies : x # "none"

VARIABLES
    row,        \* user -> the row of its resource-lists document
    drawn,      \* the versions drawn so far
    pc, req, work, answer,
    inside,     \* who is inside which user's lock
    task        \* the version the background task of an answer announces, or 0

vars == <<row, drawn, pc, req, work, answer, inside, task>>

Processes == Workers \cup Clients

Rows == [id : Nat, version : Nat, doc : Docs, by : {"nobody", "api", "xcap"}]

NoRow == [id |-> 0, version |-> 0, doc |-> Fresh, by |-> "nobody"]

(* base: the version the edit started from; fresh: the load failed and the  *)
(* edit started from nothing; id: the row put_document fetched.             *)
Work == [base : Nat, fresh : BOOLEAN, doc : Docs, id : Nat, version : Nat]

Edited(base, fresh, doc) == [base |-> base, fresh |-> fresh, doc |-> doc, id |-> 0, version |-> 0]
Fetched(v, id, version)  == [base |-> v.base, fresh |-> v.fresh, doc |-> v.doc,
                             id |-> id, version |-> version]

NoWork == Edited(0, FALSE, Fresh)

ReadAll == [route |-> "readAddressbook", id |-> "none", members |-> NoMembers]

XcapWrite == [route |-> "xcap", id |-> "none", members |-> NoMembers]

Request == [user : Users, op : Operations \cup {XcapWrite}]

NoRequest == [user |-> CHOOSE u \in Users : TRUE, op |-> ReadAll]

UL == INSTANCE UserLock

Init ==
    /\ row \in [Users -> {NoRow} \cup
                         {[id |-> 1, version |-> 0, doc |-> d, by |-> "api"] : d \in ClientDocs}]
    /\ drawn = 0
    /\ pc = [p \in Processes |-> "idle"]
    /\ req = [p \in Processes |-> NoRequest]
    /\ work = [p \in Processes |-> NoWork]
    /\ answer = [p \in Processes |-> "none"]
    /\ task = [p \in Processes |-> 0]
    /\ UL!Init

Goto(p, label) == pc' = [pc EXCEPT ![p] = label] /\ UNCHANGED answer

Finish(p, code) == /\ pc' = [pc EXCEPT ![p] = "answered"]
                   /\ answer' = [answer EXCEPT ![p] = code]

(* The storage put on_change on its answer as a background task. It is run  *)
(* with the answer, if that is the answer that leaves.                      *)
Keep(p, version) ==
    task' = IF p \in Clients \/ ReturnsStorageAnswer(req[p].op)
            THEN [task EXCEPT ![p] = version]
            ELSE task

StoreUnchanged == UNCHANGED <<row, drawn>>

-----------------------------------------------------------------------------
(* The lock, as a dependency of every route.                                *)
ApiRequest(w, u, op) ==
    /\ pc[w] = "idle"
    /\ req' = [req EXCEPT ![w] = [user |-> u, op |-> op]]
    /\ work' = [work EXCEPT ![w] = NoWork]
    /\ Goto(w, "lock")
    /\ StoreUnchanged /\ UNCHANGED <<inside, task>>

Enter(w) ==
    /\ pc[w] = "lock"
    /\ UL!Enter(w, req[w].user)
    /\ Goto(w, "load")
    /\ StoreUnchanged /\ UNCHANGED <<req, work, task>>

LockTimesOut(w) ==
    /\ pc[w] = "lock"
    /\ Finish(w, "500")
    /\ StoreUnchanged /\ UNCHANGED <<req, work, inside, task>>

(* The answer is made; a request inside its lock leaves it.                 *)
Leave(p) ==
    /\ pc[p] = "answered"
    /\ pc' = [pc EXCEPT ![p] = "idle"]
    /\ answer' = [answer EXCEPT ![p] = "none"]
    /\ req' = [req EXCEPT ![p] = NoRequest]
    /\ work' = [work EXCEPT ![p] = NoWork]
    /\ IF p \in Workers THEN UL!Leave(p) ELSE UNCHANGED inside
    /\ task' = [task EXCEPT ![p] = 0]
    /\ StoreUnchanged

(* Mutant: the outcome of the route is taken for its answer.               *)
EditOfRowUnanswered(w, d, base, fresh) ==
    LET out == Outcome(req[w].op, d)
    IN \/ /\ out.code = "store"
          /\ work' = [work EXCEPT ![w] = Edited(base, fresh, out.doc)]
          /\ Goto(w, "fetch")
       \/ /\ out.code # "store" \/ IdIsTaken(req[w].op, d)
          /\ Finish(w, out.code)
          /\ UNCHANGED work

(***************************************************************************)
(* load_data, and the route up to handle_update.                            *)
(***************************************************************************)
EditOfRow(w, d, base, fresh) ==
    LET out == Outcome(req[w].op, d)
    IN \/ /\ out.code = "store"
          /\ work' = [work EXCEPT ![w] = Edited(base, fresh, out.doc)]
          /\ Goto(w, "fetch")
       \/ /\ out.code # "store" \/ IdIsTaken(req[w].op, d)
          /\ Finish(w, IF out.code = "show" THEN "200"
                       ELSE IF out.code = "store" THEN "500" ELSE out.code)
          /\ UNCHANGED work

(* Mutant: the lock is given back after the load.                          *)
LoadOnlyLocked(w) ==
    /\ pc[w] = "load" /\ row[req[w].user] # NoRow
    /\ EditOfRow(w, row[req[w].user].doc, row[req[w].user].version, FALSE)
    /\ inside' = [inside EXCEPT ![w] = Nobody]
    /\ StoreUnchanged /\ UNCHANGED <<req, task>>

Load(w) ==
    /\ pc[w] = "load" /\ row[req[w].user] # NoRow
    /\ EditOfRow(w, row[req[w].user].doc, row[req[w].user].version, FALSE)
    /\ StoreUnchanged /\ UNCHANGED <<req, inside, task>>

(* No document is not an exception of handle_get but an answer without a    *)
(* body, and parsing the empty body raises, in every route: a 500.          *)
LoadAbsent(w) ==
    /\ pc[w] = "load" /\ row[req[w].user] = NoRow
    /\ Finish(w, "500")
    /\ StoreUnchanged /\ UNCHANGED <<req, work, inside, task>>

(* handle_get raises: the database fails, or a precondition does.           *)
LoadFails(w) ==
    /\ pc[w] = "load"
    /\ IF StartsAfresh(req[w].op)
       THEN EditOfRow(w, Fresh, 0, TRUE)
       ELSE Finish(w, "500") /\ UNCHANGED work
    /\ StoreUnchanged /\ UNCHANGED <<req, inside, task>>

(***************************************************************************)
(* put_document. A document that looks the same may be the same text.       *)
(***************************************************************************)
XcapPut(c, u, d) ==
    /\ pc[c] = "idle"
    /\ req' = [req EXCEPT ![c] = [user |-> u, op |-> XcapWrite]]
    /\ work' = [work EXCEPT ![c] = Edited(row[u].version, FALSE, d)]
    /\ Goto(c, "fetch")
    /\ StoreUnchanged /\ UNCHANGED <<inside, task>>

PutIdentical(p) ==
    LET r == row[req[p].user] IN
    /\ pc[p] = "fetch" /\ r # NoRow /\ r.doc = work[p].doc
    /\ Finish(p, "200")
    /\ Keep(p, r.version)
    /\ UNCHANGED <<row, drawn, req, work, inside>>

Fetch(p) ==
    /\ pc[p] = "fetch" /\ drawn < MaxWrites
    /\ drawn' = drawn + 1
    /\ work' = [work EXCEPT ![p] = Fetched(@, row[req[p].user].id, drawn + 1)]
    /\ Goto(p, "write")
    /\ UNCHANGED <<row, req, inside, task>>

(* The row fetched is updated, or inserted if there was none. The route may *)
(* still fail after the commit: at the refresh, or where add_group_member   *)
(* looks the members of the group up.                                       *)
FailsAfterCommit(p) ==
    /\ req[p].op.route = "addGroupMember"
    /\ ~(work[p].doc.groups[req[p].op.id] \subseteq work[p].doc.contacts)

NewRow(p) == [id |-> IF work[p].id = 0 THEN work[p].version + 1 ELSE work[p].id,
              version |-> work[p].version, doc |-> work[p].doc,
              by |-> IF p \in Workers THEN "api" ELSE "xcap"]

Write(p) ==
    LET u == req[p].user IN
    /\ pc[p] = "write" /\ row[u].id = work[p].id
    /\ row' = [row EXCEPT ![u] = NewRow(p)]
    /\ \/ ~FailsAfterCommit(p) /\ Finish(p, "200") /\ Keep(p, work[p].version)
       \/ Finish(p, "500") /\ UNCHANGED task
    /\ UNCHANGED <<drawn, req, work, inside>>

(* The fetch or the write fails; a precondition refuses the fetch; the row  *)
(* is gone, or came to be.                                                  *)
PutFails(p) ==
    /\ pc[p] \in {"fetch", "write"}
    /\ Finish(p, "500")
    /\ StoreUnchanged /\ UNCHANGED <<req, work, inside, task>>

(* delete_document of an XCAP client, its fetch and its write in one: it    *)
(* deletes the row by id, so another version does not save the document.    *)
XcapDelete(u) ==
    /\ row[u] # NoRow
    /\ row' = [row EXCEPT ![u] = NoRow]
    /\ UNCHANGED <<drawn, pc, req, work, answer, inside, task>>

Next ==
    \/ \E w \in Workers :
          \/ \E u \in Users, op \in Operations : ApiRequest(w, u, op)
          \/ Enter(w) \/ LockTimesOut(w)
          \/ Load(w) \/ LoadAbsent(w) \/ LoadFails(w)
    \/ \E c \in Clients, u \in Users, d \in ClientDocs : XcapPut(c, u, d)
    \/ \E p \in Processes : PutIdentical(p) \/ Fetch(p) \/ Write(p) \/ PutFails(p) \/ Leave(p)
    \/ Clients # {} /\ \E u \in Users : XcapDelete(u)

Spec == Init /\ [][Next]_vars

-----------------------------------------------------------------------------

(* Every variable has its type.                                             *)
TypeOK ==
    /\ row \in [Users -> Rows]
    /\ drawn \in Nat /\ task \in [Processes -> Nat]
    /\ pc \in [Processes -> {"idle", "lock", "load", "fetch", "write", "answered"}]
    /\ req \in [Processes -> Request]
    /\ work \in [Processes -> Work]
    /\ answer \in [Processes -> {"none", "200", "404", "409", "500"}]
    /\ inside \in [Workers -> Users \cup {Nobody}]

(* The groups of a stored addressbook name contacts it has: no route, and   *)
(* no interleaving of routes, XCAP clients and failed loads, leaves a member*)
(* behind that get_group would stumble over (as long as the clients write   *)
(* no such document themselves).                                            *)
ReferencesResolve == \A u \in Users : Closed(row[u].doc)

(* The lock serialises the API: no request of the API overwrites another's  *)
(* change without having read it. What it may overwrite is what XCAP        *)
(* clients wrote meanwhile, and, when its load failed, what was there.      *)
Commits(w) == pc[w] = "write" /\ row' # row /\ pc'[w] = "answered"

NoApiUpdateIsLost ==
    [][\A w \in Workers : Commits(w) /\ ~work[w].fresh =>
          \/ row[req[w].user].by # "api"
          \/ row[req[w].user].version = work[w].base]_vars

(* The inductive invariant behind it: whoever loads, fetches or writes is    *)
(* inside its user's lock, alone; and what it read is what the API last     *)
(* wrote, if it was the API that wrote last.                                *)
Working(w) == pc[w] \in {"load", "fetch", "write"}

LockInv ==
    /\ \A w \in Workers : Working(w) => inside[w] = req[w].user
    /\ \A w \in Workers : pc[w] \in {"idle", "lock"} => inside[w] = Nobody
    /\ \A v, w \in Workers : inside[v] = inside[w] /\ inside[v] # Nobody => v = w

BaseInv ==
    \A w \in Workers : /\ pc[w] \in {"fetch", "write"} /\ ~work[w].fresh
                       /\ row[req[w].user].by = "api"
        => row[req[w].user].version = work[w].base

ApiInv == LockInv /\ BaseInv

(* An addressbook the API wrote last is changed by its requests one after   *)
(* the other, each from the document the one before it left.                *)
AB == INSTANCE Addressbook WITH book <- [u \in Users |-> row[u].doc],
                                ours <- {u \in Users : row[u].by = "api"}

ImplementsAddressbook == AB!Spec

(* "All documents for a user are protected by a single lock": a request     *)
(* inside the lock stores its edit over the version it read.                *)
DocumentsAreProtected ==
    [][\A w \in Workers : Commits(w) /\ ~work[w].fresh =>
          row[req[w].user].version = work[w].base]_vars

(* "Track changes of the documents and notify subscribers": a change that   *)
(* was stored and answered with success is announced.                       *)
ChangesAreAnnounced ==
    \A p \in Processes : pc[p] = "answered" /\ answer[p] = "200" /\ work[p].version # 0
        => task[p] = work[p].version
=============================================================================
