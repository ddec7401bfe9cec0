-------------------------- MODULE DatabaseStorage --------------------------
(***************************************************************************)
(* The document storage of xcap/backend/database.py, driven by the XCAP     *)
(* resources of xcap/services/xcap_service.py and the application usages    *)
(* of xcap/appusage/__init__.py.                                            *)
(*                                                                          *)
(* A worker is one request being served. Every await of the code is a       *)
(* boundary between two actions: the read (fetch_document), the write in a  *)
(* second session, and the refresh after the commit are different           *)
(* transactions, and any other worker may run between them.                 *)
(*                                                                          *)
(* A document is the set of the nodes it has: elements, and attributes of   *)
(* elements. What nodes look like, and where in the document they stand,    *)
(* is left out.                                                             *)
(***************************************************************************)
EXTENDS Naturals, Sequences, FiniteSets, Preconditions

CONSTANTS
    Workers,        \* the requests in flight
    Keys,           \* document URIs: user, application and document path
    Elements,       \* element selectors
    Attributes,     \* attribute selectors
    Owner,          \* attribute -> the element it is an attribute of
    ValidDocs,      \* the documents that pass validate_document
    Conditions,     \* the conditional headers clients send
    AutoIncrement,  \* TRUE: ids are never reused (MySQL); FALSE: SQLite
    MaxEtags        \* bound on the writes of a behaviour

Nodes == Elements \cup Attributes

Docs == {d \in SUBSET Nodes : \A a \in d \cap Attributes : Owner[a] \in d}

WholeDocument == "document"

ASSUME StorageAssumption ==
    /\ Elements \cap Attributes = {}
    /\ WholeDocument \notin Nodes
    /\ Owner \in [Attributes -> Elements]
    /\ ValidDocs \subseteq Docs
    /\ Keys # {}
    /\ Unconditional \in Conditions
    /\ \A c \in Conditions : c.ifMatch.tags \cup c.ifNoneMatch.tags \subseteq Nat
    /\ AutoIncrement \in BOOLEAN
    /\ MaxEtags \in Nat

VARIABLES
    rows,      \* table xcap: id -> row
    lastId,    \* the largest id ever given to a row
    versions,  \* the entity tags drawn so far: tag -> what it was drawn for
    used,      \* the tags that a committed row has carried
    pc,        \* where each worker is
    req,       \* the request it serves
    work,      \* its local variables
    answer     \* what it answered last

vars == <<rows, lastId, versions, used, pc, req, work, answer>>

(***************************************************************************)
(* Values.                                                                  *)
(***************************************************************************)
Row == [key : Keys, doc : Docs, etag : Nat]

Request == [method : {"get", "put", "delete"}, target : Nodes \cup {WholeDocument},
            key : Keys, body : Docs, cond : Conditions]

(* base: the version a node update was computed from (0: none was read);    *)
(* doc: the document to store; id, old: the row the storage fetched;        *)
(* etag: the tag drawn for the new version; created: the 201 of set_201.    *)
Work == [base : Nat, doc : Docs, id : Nat, old : Nat, etag : Nat, created : BOOLEAN]

NoWork == [base |-> 0, doc |-> {}, id |-> 0, old |-> 0, etag |-> 0, created |-> FALSE]

(* Mutant: the tag of the fetched row is kept for the new version.         *)
HoldingOldTag(v, etag, i, old) == [base |-> v.base, doc |-> v.doc, id |-> i, old |-> old,
                                   etag |-> old, created |-> v.created]

Holding(v, etag, i, old) == [base |-> v.base, doc |-> v.doc, id |-> i, old |-> old,
                             etag |-> etag, created |-> v.created]

Answer == [code : {"none", "200", "201", "304", "404", "409", "412", "error"},
           etag : Nat, old : Nat, doc : Docs]

Outcome(code, etag, old, doc) == [code |-> code, etag |-> etag, old |-> old, doc |-> doc]

Reply(code) == Outcome(code, NoEtag, NoEtag, {})


NoRequest == [method |-> "get", target |-> WholeDocument, key |-> CHOOSE k \in Keys : TRUE,
              body |-> {}, cond |-> Unconditional]

IsWholeDocument(r) == r.target = WholeDocument

(***************************************************************************)
(* The table. NextId is the id the database gives to the next row: SQLite   *)
(* takes the largest id in the table plus one, so an id comes back after    *)
(* the row that had it is deleted; AUTO_INCREMENT never goes back.          *)
(***************************************************************************)
RowsOf(k) == {i \in DOMAIN rows : rows[i].key = k}

(* Mutant: an id is given out again after the row with the largest is gone. *)
IsNextIdReused(i) == /\ \A j \in DOMAIN rows : j < i
                     /\ i = 1 \/ i - 1 \in DOMAIN rows

IsNextId(i) ==
    /\ i \notin DOMAIN rows
    /\ IF AutoIncrement
       THEN i = lastId + 1
       ELSE /\ \A j \in DOMAIN rows : j < i
            /\ i = 1 \/ i - 1 \in DOMAIN rows

(* Mutant: the table has no unique constraint.                             *)
Unconstrained(k) == TRUE

(* The unique constraint of the table on account and document.              *)
Unoccupied(k) == RowsOf(k) = {}

(* fetch_document found row i; two rows are a MultipleResultsError. *)
Found(k, i) == RowsOf(k) = {i}

(***************************************************************************)
(* What element.put, element.delete and the attribute handlers make of a    *)
(* document: an element is put or deleted with all its attributes.          *)
(***************************************************************************)
AttributesOf(n) == {a \in Attributes : Owner[a] = n}

PutNode(d, n)    == (d \ AttributesOf(n)) \cup {n}
DeleteNode(d, n) == d \ ({n} \cup AttributesOf(n))

NodeUpdate(r, d) == IF r.method = "put" THEN PutNode(d, r.target) ELSE DeleteNode(d, r.target)

(* The code a node update is refused with, or "ok".                         *)
NodeVerdict(r, d) ==
    IF r.method = "delete" /\ r.target \notin d THEN "404"
    ELSE IF r.method = "put" /\ r.target \in Attributes /\ Owner[r.target] \notin d THEN "409"
    ELSE IF NodeUpdate(r, d) \notin ValidDocs THEN "409"
    ELSE "ok"

-----------------------------------------------------------------------------

Init ==
    /\ rows = <<>>
    /\ lastId = 0
    /\ versions = <<>>
    /\ used = {}
    /\ pc = [w \in Workers |-> "idle"]
    /\ req = [w \in Workers |-> NoRequest]
    /\ work = [w \in Workers |-> NoWork]
    /\ answer = [w \in Workers |-> Reply("none")]

Finish(w, a) ==
    /\ pc' = [pc EXCEPT ![w] = "done"]
    /\ answer' = [answer EXCEPT ![w] = a]

Goto(w, label) == pc' = [pc EXCEPT ![w] = label] /\ UNCHANGED answer

TableUnchanged == UNCHANGED <<rows, lastId, used>>

(***************************************************************************)
(* A request arrives. Clients quote only tags they were given. A document   *)
(* PUT is validated before the storage is asked for anything; a node update *)
(* first loads the document it applies to.                                  *)
(***************************************************************************)
IsWrite(r) == r.method = "put" \/ (r.method = "delete" /\ ~IsWholeDocument(r))

UndrawnWrites == {v \in Workers : pc[v] \in {"load", "fetch"} /\ IsWrite(req[v])}

Bodies(method, target) ==
    IF method = "put" /\ target = WholeDocument THEN Docs ELSE {{}}

FirstStep(r) == IF IsWrite(r) /\ ~IsWholeDocument(r) THEN "load" ELSE "fetch"

Invalid(r) == r.method = "put" /\ IsWholeDocument(r) /\ r.body \notin ValidDocs

Accept(w, r) ==
    /\ pc[w] = "idle"
    /\ r.cond.ifMatch.tags \cup r.cond.ifNoneMatch.tags \subseteq 1 .. Len(versions)
    /\ IsWrite(r) => Len(versions) + Cardinality(UndrawnWrites) < MaxEtags
    /\ req' = [req EXCEPT ![w] = r]
    /\ work' = [work EXCEPT ![w] = [NoWork EXCEPT !.doc = r.body]]
    /\ IF Invalid(r) THEN Finish(w, Reply("409")) ELSE Goto(w, FirstStep(r))
    /\ TableUnchanged /\ UNCHANGED versions

Receive(w) ==
    \E method \in {"get", "put", "delete"}, target \in Nodes \cup {WholeDocument}, k \in Keys :
    \E body \in Bodies(method, target), c \in Conditions :
        Accept(w, [method |-> method, target |-> target, key |-> k, body |-> body, cond |-> c])

(* Mutant: a node update does not check the condition when it reads.       *)
RecomputeUnchecked(w, row) ==
    /\ Goto(w, "fetch")
    /\ work' = [work EXCEPT ![w] =
          [NoWork EXCEPT !.base = row.etag, !.doc = NodeUpdate(req[w], row.doc)]]

(***************************************************************************)
(* put_element, delete_element, put_attribute, delete_attribute: read the   *)
(* document, check the conditions, compute the whole new document and hand  *)
(* it to put_document.                                                      *)
(***************************************************************************)
Recompute(w, row) ==
    LET r       == req[w]
        check   == CheckEtag(r.method, r.cond, row.etag, TRUE)
        verdict == IF check = "ok" THEN NodeVerdict(r, row.doc) ELSE check
    IN IF verdict = "ok"
       THEN /\ Goto(w, "fetch")
            /\ work' = [work EXCEPT ![w] =
                  [NoWork EXCEPT !.base = row.etag, !.doc = NodeUpdate(r, row.doc),
                                 !.created = r.method = "put" /\ r.target \in Elements \ row.doc]]
       ELSE Finish(w, Reply(verdict)) /\ UNCHANGED work

Load(w) ==
    /\ pc[w] = "load"
    /\ \/ /\ Finish(w, Reply("error"))
          /\ UNCHANGED work
       \/ /\ RowsOf(req[w].key) = {}
          /\ Finish(w, Reply(IF req[w].method = "delete" THEN "404" ELSE "409"))
          /\ UNCHANGED work
       \/ \E i \in DOMAIN rows : Found(req[w].key, i) /\ Recompute(w, rows[i])
    /\ TableUnchanged /\ UNCHANGED <<versions, req>>

(***************************************************************************)
(* get_document, and what the element and attribute handlers pick from it.  *)
(***************************************************************************)
GetReply(r, row) ==
    LET check == CheckEtag("get", r.cond, row.etag, TRUE) IN
    IF check # "ok" THEN Reply(check)
    ELSE IF r.target \notin row.doc \cup {WholeDocument} THEN Reply("404")
    ELSE Outcome("200", row.etag, NoEtag, row.doc)

GetDocument(w) ==
    /\ pc[w] = "fetch" /\ req[w].method = "get"
    /\ \/ Finish(w, Reply("error"))
       \/ RowsOf(req[w].key) = {} /\ Finish(w, Reply("404"))
       \/ \E i \in DOMAIN rows : Found(req[w].key, i) /\ Finish(w, GetReply(req[w], rows[i]))
    /\ TableUnchanged /\ UNCHANGED <<versions, req, work>>

(***************************************************************************)
(* make_random_etag: a tag nobody has. versions remembers what it is for.   *)
(***************************************************************************)
DrawEtag(w) == versions' = Append(versions, [key |-> req[w].key, doc |-> work[w].doc])

NewEtag == Len(versions) + 1

SuccessCode(w) == IF work[w].created THEN "201" ELSE "200"

(* Mutant: a node update may find no document and check its condition all the same. *)
AbsentCheckOfAnyTarget(r) == CheckEtag(r.method, r.cond, NoEtag, FALSE)

(***************************************************************************)
(* put_document up to its second session. The identical document returns    *)
(* before check_etag. The check_etag of a node update takes no second       *)
(* argument: calling it for a document that is gone is a TypeError.         *)
(***************************************************************************)
AbsentCheck(r) ==
    IF IsWholeDocument(r) THEN CheckEtag(r.method, r.cond, NoEtag, FALSE) ELSE "error"

PutAbsent(w) ==
    LET check == AbsentCheck(req[w])
    IN IF check = "ok"
       THEN /\ DrawEtag(w)
            /\ work' = [work EXCEPT ![w] = [@ EXCEPT !.etag = NewEtag, !.created = TRUE]]
            /\ Goto(w, "insert")
       ELSE Finish(w, Reply(check)) /\ UNCHANGED <<work, versions>>

PutExisting(w, i) ==
    LET row   == rows[i]
        check == CheckEtag(req[w].method, req[w].cond, row.etag, TRUE)
    IN \/ /\ row.doc = work[w].doc
          /\ Finish(w, Outcome(SuccessCode(w), row.etag, NoEtag, row.doc))
          /\ UNCHANGED <<work, versions>>
       \/ /\ row.doc # work[w].doc /\ check # "ok"
          /\ Finish(w, Reply(check))
          /\ UNCHANGED <<work, versions>>
       \/ /\ row.doc # work[w].doc /\ check = "ok"
          /\ DrawEtag(w)
          /\ work' = [work EXCEPT ![w] = Holding(@, NewEtag, i, row.etag)]
          /\ Goto(w, "update")

FetchForPut(w) ==
    /\ pc[w] = "fetch" /\ IsWrite(req[w])
    /\ \/ Finish(w, Reply("error")) /\ UNCHANGED <<work, versions>>
       \/ RowsOf(req[w].key) = {} /\ PutAbsent(w)
       \/ \E i \in DOMAIN rows : Found(req[w].key, i) /\ PutExisting(w, i)
    /\ TableUnchanged /\ UNCHANGED req

(* Mutant: DELETE does not check its condition.                            *)
DeleteExistingUnchecked(w, i) ==
    /\ work' = [work EXCEPT ![w] = [@ EXCEPT !.id = i, !.old = rows[i].etag]]
    /\ Goto(w, "remove")

(* delete_document up to its second session.                                *)
DeleteExisting(w, i) ==
    LET check == CheckEtag("delete", req[w].cond, rows[i].etag, TRUE) IN
    IF check = "ok"
    THEN /\ work' = [work EXCEPT ![w] = [@ EXCEPT !.id = i, !.old = rows[i].etag]]
         /\ Goto(w, "remove")
    ELSE Finish(w, Reply(check)) /\ UNCHANGED work

FetchForDelete(w) ==
    /\ pc[w] = "fetch" /\ req[w].method = "delete" /\ IsWholeDocument(req[w])
    /\ \/ Finish(w, Reply("error")) /\ UNCHANGED work
       \/ RowsOf(req[w].key) = {} /\ Finish(w, Reply("404")) /\ UNCHANGED work
       \/ \E i \in DOMAIN rows : Found(req[w].key, i) /\ DeleteExisting(w, i)
    /\ TableUnchanged /\ UNCHANGED <<versions, req>>

(* Mutant: the body of a node request is stored as the document.           *)
NewRowOfBody(w, k)      == [key |-> k, doc |-> req[w].body, etag |-> work[w].etag]

(* Mutant: the new version keeps the tag of the old one.                   *)
NewRowOfOldEtag(w, k)   == [key |-> k, doc |-> work[w].doc, etag |-> work[w].old]

(***************************************************************************)
(* The second session. INSERT is refused by the unique constraint on the    *)
(* account and document when another writer was first; UPDATE is by id and  *)
(* fails when the row is gone; DELETE is by id and does not mind.           *)
(***************************************************************************)
NewRow(w, k) == [key |-> k, doc |-> work[w].doc, etag |-> work[w].etag]

Insert(w) ==
    /\ pc[w] = "insert"
    /\ Unoccupied(req[w].key)
    /\ \E i \in 1 .. lastId + 1 :
          /\ IsNextId(i)
          /\ rows' = [j \in DOMAIN rows \cup {i} |->
                        IF j = i THEN NewRow(w, req[w].key) ELSE rows[j]]
          /\ lastId' = IF i > lastId THEN i ELSE lastId
          /\ work' = [work EXCEPT ![w].id = i]
    /\ used' = used \cup {work[w].etag}
    /\ Goto(w, "refresh")
    /\ UNCHANGED <<versions, req>>

Update(w) ==
    /\ pc[w] = "update"
    /\ work[w].id \in DOMAIN rows
    /\ rows' = [rows EXCEPT ![work[w].id] = NewRow(w, @.key)]
    /\ used' = used \cup {work[w].etag}
    /\ Goto(w, "refresh")
    /\ UNCHANGED <<lastId, versions, req, work>>

Remove(w) ==
    /\ pc[w] = "remove"
    /\ rows' = [j \in DOMAIN rows \ {work[w].id} |-> rows[j]]
    /\ Finish(w, Outcome("200", NoEtag, work[w].old, {}))
    /\ UNCHANGED <<lastId, versions, used, req, work>>

(* The database refuses the write or cannot be reached: a 500.              *)
WriteFails(w) ==
    /\ pc[w] \in {"insert", "update", "remove"}
    /\ Finish(w, Reply("error"))
    /\ TableUnchanged /\ UNCHANGED <<versions, req, work>>

(* Reading the row back after the commit; a failure is a 500 all the same.  *)
Refresh(w) ==
    /\ pc[w] = "refresh"
    /\ \/ /\ work[w].id \in DOMAIN rows
          /\ Finish(w, Outcome(SuccessCode(w), work[w].etag, work[w].old, {}))
       \/ Finish(w, Reply("error"))
    /\ TableUnchanged /\ UNCHANGED <<versions, req, work>>

(* The answer leaves; the worker is free for the next request.              *)
Respond(w) ==
    /\ pc[w] = "done"
    /\ pc' = [pc EXCEPT ![w] = "idle"]
    /\ req' = [req EXCEPT ![w] = NoRequest]
    /\ work' = [work EXCEPT ![w] = NoWork]
    /\ answer' = [answer EXCEPT ![w] = Reply("none")]
    /\ TableUnchanged /\ UNCHANGED versions

Next == \E w \in Workers :
    \/ Receive(w) \/ Load(w) \/ GetDocument(w) \/ FetchForPut(w) \/ FetchForDelete(w)
    \/ Insert(w) \/ Update(w) \/ Remove(w) \/ WriteFails(w) \/ Refresh(w) \/ Respond(w)

Spec == Init /\ [][Next]_vars

-----------------------------------------------------------------------------

Labels == {"idle", "load", "fetch", "insert", "update", "remove", "refresh", "done"}

(* Every variable has its type; the domain of rows is the ids in use.       *)
TypeOK ==
    /\ lastId \in Nat
    /\ DOMAIN rows \subseteq 1 .. lastId
    /\ rows \in [DOMAIN rows -> Row]
    /\ versions \in Seq([key : Keys, doc : Docs])
    /\ used \subseteq Nat
    /\ pc \in [Workers -> Labels]
    /\ req \in [Workers -> Request]
    /\ work \in [Workers -> Work]
    /\ answer \in [Workers -> Answer]

(* A document has at most one row, however two PUTs that both found none    *)
(* interleave: fetch_document never meets its "should never happen" error.  *)
OneRowPerDocument == \A i, j \in DOMAIN rows : rows[i].key = rows[j].key => i = j

(* An entity tag names one version of one document: what is stored, and     *)
(* what is answered, under a tag is what the tag was drawn for. Clients     *)
(* that cache by tag, or quote it in If-Match, rely on it.                  *)
StoredTagsAreTrue ==
    \A i \in DOMAIN rows : /\ rows[i].etag \in 1 .. Len(versions)
                           /\ versions[rows[i].etag] = [key |-> rows[i].key, doc |-> rows[i].doc]

AnsweredTagsAreTrue ==
    \A w \in Workers : pc[w] = "done" /\ answer[w].etag # NoEtag =>
        /\ answer[w].etag \in 1 .. Len(versions)
        /\ versions[answer[w].etag] =
              [key |-> req[w].key,
               doc |-> IF req[w].method = "get" THEN answer[w].doc ELSE work[w].doc]

EtagNamesVersion == StoredTagsAreTrue /\ AnsweredTagsAreTrue

(* Only documents that pass validation are stored, whether they came whole  *)
(* from a client or were computed from a node update of an older version.   *)
StoredDocumentsAreValid == \A i \in DOMAIN rows : rows[i].doc \in ValidDocs

(* Whatever the headers, a write that is on its way to the database found   *)
(* what they ask for: under If-Match a document with a listed tag, never a  *)
(* missing one; under If-None-Match a document with none of the tags, and   *)
(* under "*" no document at all, unless If-Modified-Since was sent too.     *)
WriteIsWarranted ==
    \A w \in Workers :
        LET c == req[w].cond IN
        /\ pc[w] = "insert" => ~Given(c.ifMatch) /\ ~c.ifUnmodified
        /\ pc[w] \in {"update", "remove"} =>
              /\ Given(c.ifMatch) => c.ifMatch.star \/ work[w].old \in c.ifMatch.tags
              /\ Given(c.ifNoneMatch) /\ ~c.ifModified =>
                     ~c.ifNoneMatch.star /\ work[w].old \notin c.ifNoneMatch.tags

(* A node update sent with If-Match writes a document computed from a       *)
(* version the header names: the two reads of the request, each followed by *)
(* the check, cannot disagree without a refusal.                            *)
ConditionalUpdateComputedFromMatch ==
    \A w \in Workers :
        /\ pc[w] = "update" /\ ~IsWholeDocument(req[w])
        /\ Given(req[w].cond.ifMatch) /\ ~req[w].cond.ifMatch.star
        => /\ work[w].base \in req[w].cond.ifMatch.tags
           /\ work[w].doc = NodeUpdate(req[w], versions[work[w].base].doc)

(* A write of one request changes no document but the one it addresses, and *)
(* a PUT that reaches its commit leaves its own document there.             *)
VersionOf(k) == {[doc |-> rows[i].doc, etag |-> rows[i].etag] : i \in RowsOf(k)}

WritesOwnDocument ==
    [][\A w \in Workers : pc[w] # pc'[w] =>
          /\ \A k \in Keys \ {req[w].key} : VersionOf(k)' = VersionOf(k)
          /\ (pc'[w] = "refresh") => \E v \in VersionOf(req[w].key)' : v.doc = work[w].doc]_vars

(* Only a PUT of the whole document brings a document into being: a node    *)
(* update that finds it deleted under its feet never writes it back.        *)
OnlyDocumentPutCreates ==
    [][\A k \in Keys : RowsOf(k) = {} /\ RowsOf(k)' # {} =>
          \E w \in Workers : /\ pc[w] # pc'[w]
                             /\ req[w].key = k /\ req[w].method = "put"
                             /\ IsWholeDocument(req[w])]_vars

(* A node update that no other write overtook changes nothing but its node: *)
(* what it can lose is only what was written while it was being served.     *)
NodeUpdateIsLocal ==
    [][\A w \in Workers : \A v \in VersionOf(req[w].key) :
          (/\ pc[w] = "update" /\ pc'[w] = "refresh" /\ ~IsWholeDocument(req[w])
           /\ v.etag = work[w].base)
          => \E u \in VersionOf(req[w].key)' : u.doc = NodeUpdate(req[w], v.doc)]_vars

(* The storage implements the versioned store: the row of a key is its      *)
(* version, and a tag is drawn when put_document draws it.                  *)
CurrentVersion(k) ==
    IF RowsOf(k) = {} THEN [etag |-> 0, doc |-> {}]
    ELSE LET i == CHOOSE i \in RowsOf(k) : TRUE IN [etag |-> rows[i].etag, doc |-> rows[i].doc]

Store == [k \in Keys |-> CurrentVersion(k)]

VS == INSTANCE VersionedStore WITH store <- Store, issued <- Len(versions)

ImplementsVersionedStore == VS!Spec

(***************************************************************************)
(* The inductive invariant behind the theorems. A writer between its draw   *)
(* and its commit holds a tag that was drawn for it, that no row has        *)
(* carried and no other writer holds; and when ids are not reused, the id   *)
(* it kept from its read is still the id of its own document, or of none.   *)
(***************************************************************************)
HoldsTag(w) == pc[w] \in {"insert", "update"}

DrawnTagsAreTheWriters ==
    \A w \in Workers : pc[w] \in {"insert", "update", "refresh"} =>
        /\ req[w].method # "get"
        /\ work[w].etag \in 1 .. Len(versions)
        /\ versions[work[w].etag] = [key |-> req[w].key, doc |-> work[w].doc]

DrawnTagsAreFresh ==
    /\ used \subseteq 1 .. Len(versions)
    /\ \A w \in Workers : HoldsTag(w) =>
          /\ work[w].etag \notin used
          /\ \A v \in Workers : HoldsTag(v) /\ work[v].etag = work[w].etag => v = w

KeptIdsAreTheWriters ==
    AutoIncrement => \A w \in Workers : pc[w] \in {"update", "remove"} =>
        /\ work[w].id \in 1 .. lastId
        /\ work[w].id \in DOMAIN rows => rows[work[w].id].key = req[w].key

StorageInv == DrawnTagsAreTheWriters /\ DrawnTagsAreFresh /\ KeptIdsAreTheWriters

(* A doc-level expectation of conditional writes: when a write carrying     *)
(* If-Match with tags is committed, the document still has one of them.     *)
IfMatchHoldsAtCommit ==
    [][\A w \in Workers :
          (/\ pc[w] = "update" /\ pc'[w] = "refresh"
           /\ Given(req[w].cond.ifMatch) /\ ~req[w].cond.ifMatch.star)
          => \A v \in VersionOf(req[w].key) : v.etag \in req[w].cond.ifMatch.tags]_vars

(* A PUT with If-None-Match: * succeeds only by creating the document.      *)
IfNoneMatchStarOnlyCreates ==
    \A w \in Workers : /\ pc[w] = "done" /\ req[w].method = "put" /\ IsWholeDocument(req[w])
                       /\ req[w].cond = IfNoneMatch(AnyTag)
        => answer[w].code # "200"
=============================================================================
