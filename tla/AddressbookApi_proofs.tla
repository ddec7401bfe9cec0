----------------------- MODULE AddressbookApi_proofs -----------------------
(***************************************************************************)
(* Proofs about AddressbookApi, for any number of requests, clients, users  *)
(* and entries of an addressbook.                                           *)
(***************************************************************************)
EXTENDS AddressbookApi, TLAPS

-----------------------------------------------------------------------------
(* The routes.                                                              *)

LEMMA GroupMapsAre ==
  ASSUME NEW f
  PROVE  f \in GroupMaps <=> \E G \in SUBSET Groups : f \in [G -> SUBSET Contacts]
  BY DEF GroupMaps

LEMMA BookIsDoc ==
  ASSUME NEW c \in SUBSET Contacts, NEW p \in SUBSET Policies, NEW g \in GroupMaps
  PROVE  Book(c, g, p) \in Docs
  BY DEF Book, Docs

LEMMA DocParts ==
  ASSUME NEW d \in Docs
  PROVE  /\ d.contacts \in SUBSET Contacts /\ d.policies \in SUBSET Policies
         /\ d.groups \in GroupMaps
         /\ DOMAIN d.groups \in SUBSET Groups
         /\ \A g \in DOMAIN d.groups : d.groups[g] \in SUBSET Contacts
<1>1. d.contacts \in SUBSET Contacts /\ d.policies \in SUBSET Policies /\ d.groups \in GroupMaps
  BY DEF Docs
<1>2. PICK G \in SUBSET Groups : d.groups \in [G -> SUBSET Contacts]
  BY <1>1, GroupMapsAre
<1> QED
  BY <1>1, <1>2

LEMMA FreshIsDoc == Fresh \in Docs /\ Closed(Fresh)
<1>1. [g \in {} |-> {}] \in GroupMaps
  <2>1. [g \in {} |-> {}] \in [{} -> SUBSET Contacts]
    OBVIOUS
  <2> QED
    BY <2>1, GroupMapsAre
<1> QED
  BY <1>1, BookIsDoc DEF Fresh, Closed, Book

LEMMA WithGroupIsDoc ==
  ASSUME NEW d \in Docs, NEW g \in Groups, NEW m \in SUBSET Contacts
  PROVE  /\ WithGroup(d, g, m) \in Docs
         /\ Closed(d) /\ m \subseteq d.contacts => Closed(WithGroup(d, g, m))
<1> DEFINE gs == [h \in DOMAIN d.groups \cup {g} |-> IF h = g THEN m ELSE d.groups[h]]
<1>1. gs \in [DOMAIN d.groups \cup {g} -> SUBSET Contacts]
  BY DocParts
<1>2. gs \in GroupMaps
  BY <1>1, DocParts, GroupMapsAre
<1>3. WithGroup(d, g, m) = Book(d.contacts, gs, d.policies)
  BY DEF WithGroup
<1>4. WithGroup(d, g, m) \in Docs
  BY <1>2, <1>3, DocParts, BookIsDoc
<1>5. ASSUME Closed(d), m \subseteq d.contacts PROVE Closed(WithGroup(d, g, m))
  BY <1>3, <1>5 DEF Closed, Book
<1> QED
  BY <1>4, <1>5

(* An outcome is of the kind the route may have, and its document one whose *)
(* groups name its contacts, if the loaded document was.                    *)
GoodOutcome(out, d) == /\ out.code \in {"show", "store", "404", "409", "500"}
                       /\ out.doc \in Docs
                       /\ Closed(d) => Closed(out.doc)

LEMMA RefusalIsGood ==
  ASSUME NEW d \in Docs
  PROVE  /\ GoodOutcome(Refuse("404", d), d) /\ GoodOutcome(Refuse("409", d), d)
         /\ GoodOutcome(Refuse("500", d), d) /\ GoodOutcome(Show(d), d)
         /\ GoodOutcome(Store(d), d)
  BY DEF GoodOutcome, Refuse, Show, Store

LEMMA StoreIsGood ==
  ASSUME NEW d \in Docs, NEW e \in Docs, Closed(d) => Closed(e)
  PROVE  GoodOutcome(Store(e), d)
  BY DEF GoodOutcome, Store

LEMMA ContactRoutesAreGood ==
  ASSUME NEW d \in Docs, NEW c \in Contacts
  PROVE  /\ GoodOutcome(GetContact(d, c), d) /\ GoodOutcome(AddContact(d, c), d)
         /\ GoodOutcome(UpdateContact(d, c), d) /\ GoodOutcome(DeleteContact(d, c), d)
<1>1. GoodOutcome(GetContact(d, c), d) /\ GoodOutcome(UpdateContact(d, c), d)
  BY RefusalIsGood DEF GetContact, UpdateContact
<1>2. GoodOutcome(AddContact(d, c), d)
  <2>1. WithContacts(d, d.contacts \cup {c}) \in Docs
    BY DocParts, BookIsDoc DEF WithContacts
  <2>2. Closed(d) => Closed(WithContacts(d, d.contacts \cup {c}))
    BY DEF WithContacts, Closed, Book
  <2> QED
    BY <2>1, <2>2, StoreIsGood, RefusalIsGood DEF AddContact
<1>3. GoodOutcome(DeleteContact(d, c), d)
  <2> DEFINE gs == [g \in DOMAIN d.groups |-> d.groups[g] \ {c}]
             e  == Book(d.contacts \ {c}, gs, d.policies)
  <2>1. gs \in [DOMAIN d.groups -> SUBSET Contacts]
    BY DocParts
  <2>2. e \in Docs
    BY <2>1, DocParts, GroupMapsAre, BookIsDoc
  <2>3. Closed(d) => Closed(e)
    BY DEF Closed, Book
  <2> QED
    BY <2>2, <2>3, StoreIsGood, RefusalIsGood DEF DeleteContact
<1> QED
  BY <1>1, <1>2, <1>3

LEMMA PolicyRoutesAreGood ==
  ASSUME NEW d \in Docs, NEW p \in Policies
  PROVE  /\ GoodOutcome(GetPolicy(d, p), d) /\ GoodOutcome(AddPolicy(d, p), d)
         /\ GoodOutcome(UpdatePolicy(d, p), d) /\ GoodOutcome(DeletePolicy(d, p), d)
<1>1. ASSUME NEW q \in SUBSET Policies PROVE GoodOutcome(Store(WithPolicies(d, q)), d)
  <2>1. WithPolicies(d, q) \in Docs
    BY DocParts, BookIsDoc DEF WithPolicies
  <2>2. Closed(d) => Closed(WithPolicies(d, q))
    BY DEF WithPolicies, Closed, Book
  <2> QED
    BY <2>1, <2>2, StoreIsGood
<1>2. d.policies \cup {p} \in SUBSET Policies /\ d.policies \ {p} \in SUBSET Policies
  BY DocParts
<1> QED
  BY <1>1, <1>2, RefusalIsGood DEF GetPolicy, AddPolicy, UpdatePolicy, DeletePolicy

LEMMA GroupRoutesAreGood ==
  ASSUME NEW d \in Docs, NEW g \in Groups, NEW m \in SUBSET Contacts
  PROVE  /\ GoodOutcome(GetGroup(d, g), d) /\ GoodOutcome(AddGroup(d, g, m), d)
         /\ GoodOutcome(UpdateGroup(d, g, m), d) /\ GoodOutcome(DeleteGroup(d, g), d)
<1>1. GoodOutcome(GetGroup(d, g), d)
  BY RefusalIsGood DEF GetGroup
<1>2. GoodOutcome(Store(WithGroup(d, g, m \cap d.contacts)), d)
  <2>1. m \cap d.contacts \in SUBSET Contacts /\ m \cap d.contacts \subseteq d.contacts
    OBVIOUS
  <2> QED
    BY <2>1, WithGroupIsDoc, StoreIsGood
<1>3. GoodOutcome(AddGroup(d, g, m), d) /\ GoodOutcome(UpdateGroup(d, g, m), d)
  BY <1>2, RefusalIsGood DEF AddGroup, UpdateGroup
<1>4. GoodOutcome(DeleteGroup(d, g), d)
  <2> DEFINE gs == [h \in DOMAIN d.groups \ {g} |-> d.groups[h]]
             e  == Book(d.contacts, gs, d.policies)
  <2>1. gs \in [DOMAIN d.groups \ {g} -> SUBSET Contacts] /\ DOMAIN d.groups \ {g} \in SUBSET Groups
    BY DocParts
  <2>2. e \in Docs
    BY <2>1, DocParts, GroupMapsAre, BookIsDoc
  <2>3. Closed(d) => Closed(e)
    BY DEF Closed, Book
  <2> QED
    BY <2>2, <2>3, StoreIsGood, RefusalIsGood DEF DeleteGroup
<1> QED
  BY <1>1, <1>3, <1>4

LEMMA MemberRoutesAreGood ==
  ASSUME NEW d \in Docs, NEW g \in Groups, NEW c \in Contacts
  PROVE  /\ GoodOutcome(AddGroupMember(d, g, c), d)
         /\ GoodOutcome(DeleteGroupMember(d, g, c), d)
<1>1. GoodOutcome(AddGroupMember(d, g, c), d)
  <2>1. ASSUME g \in DOMAIN d.groups, c \in d.contacts
        PROVE  GoodOutcome(Store(WithGroup(d, g, d.groups[g] \cup {c})), d)
    <3>1. d.groups[g] \cup {c} \in SUBSET Contacts
      BY <2>1, DocParts
    <3>2. Closed(d) => d.groups[g] \cup {c} \subseteq d.contacts
      BY <2>1 DEF Closed
    <3> QED
      BY <3>1, <3>2, WithGroupIsDoc, StoreIsGood
  <2> QED
    BY <2>1, RefusalIsGood DEF AddGroupMember
<1>2. GoodOutcome(DeleteGroupMember(d, g, c), d)
  <2>1. ASSUME g \in DOMAIN d.groups
        PROVE  GoodOutcome(Store(WithGroup(d, g, d.groups[g] \ {c})), d)
    <3>1. d.groups[g] \ {c} \in SUBSET Contacts
      BY <2>1, DocParts
    <3>2. Closed(d) => d.groups[g] \ {c} \subseteq d.contacts
      BY <2>1 DEF Closed
    <3> QED
      BY <3>1, <3>2, WithGroupIsDoc, StoreIsGood
  <2> QED
    BY <2>1, RefusalIsGood DEF DeleteGroupMember
<1> QED
  BY <1>1, <1>2

(* Whatever the request, a document whose groups name its contacts is left  *)
(* so by the route that serves it.                                          *)
THEOREM RoutesKeepReferences ==
  ASSUME NEW op \in Operations, NEW d \in Docs
  PROVE  GoodOutcome(Outcome(op, d), d)
<1>1. CASE ~d.listed
  BY <1>1, RefusalIsGood DEF Outcome
<1>2. CASE d.listed
  <2>0. Outcome(op, d) = Route(op, d)
    BY <1>2 DEF Outcome
  <2>1. CASE op \in [route : {"readAddressbook"}, id : {"none"}, members : {NoMembers}]
    BY <2>0, <2>1, RefusalIsGood DEF Route, ReadAddressbook
  <2>2. CASE op \in [route : {"getContact", "addContact", "updateContact", "deleteContact"},
                     id : Contacts, members : {NoMembers}]
    BY <2>0, <2>2, ContactRoutesAreGood DEF Route
  <2>3. CASE op \in [route : {"getPolicy", "addPolicy", "updatePolicy", "deletePolicy"},
                     id : Policies, members : {NoMembers}]
    BY <2>0, <2>3, PolicyRoutesAreGood DEF Route
  <2>4. CASE op \in [route : {"getGroup", "deleteGroup"}, id : Groups, members : {NoMembers}]
    <3>1. {} \in SUBSET Contacts
      OBVIOUS
    <3> QED
      BY <2>0, <2>4, <3>1, GroupRoutesAreGood DEF Route
  <2>5. CASE op \in [route : {"addGroup", "updateGroup"}, id : Groups, members : SUBSET Contacts]
    BY <2>0, <2>5, GroupRoutesAreGood DEF Route
  <2>6. CASE op \in [route : {"addGroupMember", "deleteGroupMember"}, id : Groups,
                     members : {{c} : c \in Contacts}]
    <3>1. Member(op) \in Contacts
      BY <2>6 DEF Member
    <3> QED
      BY <2>0, <2>6, <3>1, MemberRoutesAreGood DEF Route
  <2> QED
    BY <2>1, <2>2, <2>3, <2>4, <2>5, <2>6 DEF Operations
<1> QED
  BY <1>1, <1>2 DEF Docs

-----------------------------------------------------------------------------
(* The state machine.                                                       *)

LEMMA TypeOfValues ==
  /\ NoRequest \in Request
  /\ \A u \in Users : [user |-> u, op |-> XcapWrite] \in Request
  /\ \A u \in Users, op \in Operations : [user |-> u, op |-> op] \in Request
  /\ NoWork \in Work /\ NoRow \in Rows
<1>1. ReadAll \in Operations
  BY DEF ReadAll, Operations
<1> QED
  BY <1>1, ApiAssumption, FreshIsDoc DEF Request, NoRequest, NoWork, NoRow, Rows, Work, Edited

(* A request edits with the operation of a route; XcapWrite is none.        *)
EditsRoutes == \A w \in Workers : req[w].op \in Operations

LEMMA EditKeepsTypes ==
  ASSUME TypeOK, EditsRoutes, NEW w \in Workers, NEW d \in Docs, NEW b \in Nat,
         NEW f \in BOOLEAN, EditOfRow(w, d, b, f)
  PROVE  /\ work' \in [Processes -> Work]
         /\ pc' \in [Processes -> {"idle", "lock", "load", "fetch", "write", "answered"}]
         /\ answer' \in [Processes -> {"none", "200", "404", "409", "500"}]
<1> DEFINE out == Outcome(req[w].op, d)
<1>1. GoodOutcome(out, d)
  BY RoutesKeepReferences DEF EditsRoutes
<1>2. Edited(b, f, out.doc) \in Work
  BY <1>1 DEF GoodOutcome, Edited, Work
<1>3. CASE out.code = "store" /\ work' = [work EXCEPT ![w] = Edited(b, f, out.doc)] /\ Goto(w, "fetch")
  BY <1>2, <1>3 DEF TypeOK, Goto
<1>4. CASE /\ Finish(w, IF out.code = "show" THEN "200"
                        ELSE IF out.code = "store" THEN "500" ELSE out.code)
           /\ UNCHANGED work
  BY <1>1, <1>4 DEF TypeOK, Finish, GoodOutcome
<1> QED
  BY <1>3, <1>4 DEF EditOfRow

LEMMA TypeStep == TypeOK /\ EditsRoutes /\ [Next]_vars => TypeOK' /\ EditsRoutes'
<1> SUFFICES ASSUME TypeOK, EditsRoutes, [Next]_vars PROVE TypeOK' /\ EditsRoutes'
  OBVIOUS
<1> USE DEF TypeOK, EditsRoutes, Processes
<1>0. ReadAll \in Operations /\ NoRequest.op = ReadAll /\ NoWork \in Work
  BY TypeOfValues DEF ReadAll, Operations, NoRequest
<1>1. CASE UNCHANGED vars
  BY <1>1 DEF vars
<1>2. ASSUME NEW w \in Workers, NEW u \in Users, NEW op \in Operations, ApiRequest(w, u, op)
      PROVE  TypeOK' /\ EditsRoutes'
  BY <1>2, TypeOfValues DEF ApiRequest, Goto, StoreUnchanged
<1>3. ASSUME NEW w \in Workers, Enter(w) PROVE TypeOK' /\ EditsRoutes'
  BY <1>3 DEF Enter, UL!Enter, Goto, StoreUnchanged, Request
<1>4. ASSUME NEW w \in Workers, LockTimesOut(w) \/ LoadAbsent(w) PROVE TypeOK' /\ EditsRoutes'
  BY <1>4 DEF LockTimesOut, LoadAbsent, Finish, StoreUnchanged
<1>5. ASSUME NEW w \in Workers, Load(w) PROVE TypeOK' /\ EditsRoutes'
  <2>1. row[req[w].user].doc \in Docs /\ row[req[w].user].version \in Nat
    BY DEF Request, Rows
  <2>2. EditOfRow(w, row[req[w].user].doc, row[req[w].user].version, FALSE)
    BY <1>5 DEF Load
  <2>3. PICK d \in Docs, b \in Nat : EditOfRow(w, d, b, FALSE)
    BY <2>1, <2>2
  <2> QED
    BY <1>5, <2>3, EditKeepsTypes DEF Load, StoreUnchanged
<1>6. ASSUME NEW w \in Workers, LoadFails(w) PROVE TypeOK' /\ EditsRoutes'
  <2>1. CASE EditOfRow(w, Fresh, 0, TRUE)
    BY <1>6, <2>1, EditKeepsTypes, FreshIsDoc DEF LoadFails, StoreUnchanged
  <2>2. CASE Finish(w, "500") /\ UNCHANGED work
    BY <1>6, <2>2 DEF LoadFails, StoreUnchanged, Finish
  <2> QED
    BY <1>6, <2>1, <2>2 DEF LoadFails
<1>7. ASSUME NEW c \in Clients, NEW u \in Users, NEW d \in ClientDocs, XcapPut(c, u, d)
      PROVE  TypeOK' /\ EditsRoutes'
  <2>1. Edited(row[u].version, FALSE, d) \in Work
    BY ApiAssumption DEF Edited, Work, Rows
  <2> QED
    BY <1>7, <2>1, TypeOfValues, ApiAssumption DEF XcapPut, Goto, StoreUnchanged
<1>8. ASSUME NEW p \in Processes, PutIdentical(p) PROVE TypeOK' /\ EditsRoutes'
  BY <1>8 DEF PutIdentical, Finish, Keep, Rows, Request
<1>9. ASSUME NEW p \in Processes, Fetch(p) PROVE TypeOK' /\ EditsRoutes'
  <2>1. Fetched(work[p], row[req[p].user].id, drawn + 1) \in Work
    BY DEF Fetched, Work, Rows, Request
  <2> QED
    BY <1>9, <2>1 DEF Fetch, Goto
<1>10. ASSUME NEW p \in Processes, Write(p) PROVE TypeOK' /\ EditsRoutes'
  <2>1. NewRow(p) \in Rows /\ work[p].version \in Nat
    BY DEF NewRow, Rows, Work
  <2> QED
    BY <1>10, <2>1 DEF Write, Finish, Keep
<1>11. ASSUME NEW p \in Processes, PutFails(p) PROVE TypeOK' /\ EditsRoutes'
  BY <1>11 DEF PutFails, Finish, StoreUnchanged
<1>12. ASSUME NEW p \in Processes, Leave(p) PROVE TypeOK' /\ EditsRoutes'
  <2>1. inside' \in [Workers -> Users \cup {Nobody}]
    BY <1>12 DEF Leave, UL!Leave
  <2> QED
    BY <1>0, <1>12, <2>1, TypeOfValues DEF Leave, StoreUnchanged
<1>13. ASSUME NEW u \in Users, XcapDelete(u) PROVE TypeOK' /\ EditsRoutes'
  BY <1>13, TypeOfValues DEF XcapDelete
<1> QED
  BY <1>1, <1>2, <1>3, <1>4, <1>5, <1>6, <1>7, <1>8, <1>9, <1>10, <1>11, <1>12, <1>13 DEF Next

LEMMA TypeInit == Init => TypeOK /\ EditsRoutes
<1> SUFFICES ASSUME Init PROVE TypeOK /\ EditsRoutes
  OBVIOUS
<1>1. row \in [Users -> Rows]
  <2>1. \A d \in ClientDocs : [id |-> 1, version |-> 0, doc |-> d, by |-> "api"] \in Rows
    BY ApiAssumption DEF Rows
  <2> QED
    BY <2>1, TypeOfValues DEF Init
<1>2. req \in [Processes -> Request] /\ work \in [Processes -> Work]
  BY TypeOfValues DEF Init
<1>3. EditsRoutes
  BY DEF Init, EditsRoutes, NoRequest, ReadAll, Operations, Processes
<1> QED
  BY <1>1, <1>2, <1>3 DEF Init, TypeOK, UL!Init

(* Every variable keeps its type.                                           *)
THEOREM ApiTypeCorrect == Spec => [](TypeOK /\ EditsRoutes)
<1>1. Init => TypeOK /\ EditsRoutes
  BY TypeInit
<1>2. TypeOK /\ EditsRoutes /\ [Next]_vars => TypeOK' /\ EditsRoutes'
  BY TypeStep
<1> QED
  BY <1>1, <1>2, PTL DEF Spec

-----------------------------------------------------------------------------
(***************************************************************************)
(* References. Documents under way are as good as stored ones.              *)
(***************************************************************************)
ClosedInv == /\ \A u \in Users : Closed(row[u].doc)
             /\ \A p \in Processes : Closed(work[p].doc)

LEMMA EditKeepsClosed ==
  ASSUME TypeOK, EditsRoutes, ClosedInv, NEW w \in Workers, NEW d \in Docs, Closed(d),
         NEW b, NEW f, EditOfRow(w, d, b, f)
  PROVE  \A p \in Processes : Closed(work'[p].doc)
<1> DEFINE out == Outcome(req[w].op, d)
<1>1. Closed(out.doc)
  BY RoutesKeepReferences DEF EditsRoutes, GoodOutcome
<1>2. CASE work' = [work EXCEPT ![w] = Edited(b, f, out.doc)]
  BY <1>1, <1>2 DEF TypeOK, ClosedInv, Edited, Processes
<1>3. CASE UNCHANGED work
  BY <1>3 DEF ClosedInv
<1> QED
  BY <1>2, <1>3 DEF EditOfRow

LEMMA ClosedStep ==
  ASSUME \A d \in ClientDocs : Closed(d)
  PROVE  TypeOK /\ EditsRoutes /\ ClosedInv /\ [Next]_vars => ClosedInv'
<1> SUFFICES ASSUME TypeOK, EditsRoutes, ClosedInv, [Next]_vars PROVE ClosedInv'
  OBVIOUS
<1> USE DEF TypeOK, Processes
<1>0. Closed(NoWork.doc) /\ Closed(NoRow.doc)
  BY FreshIsDoc DEF NoWork, NoRow, Edited
<1>1. CASE UNCHANGED vars
  BY <1>1 DEF vars, ClosedInv
<1>2. ASSUME NEW w \in Workers, NEW u \in Users, NEW op \in Operations, ApiRequest(w, u, op)
      PROVE  ClosedInv'
  BY <1>0, <1>2 DEF ApiRequest, StoreUnchanged, ClosedInv
<1>3. ASSUME NEW w \in Workers, Enter(w) \/ LockTimesOut(w) \/ LoadAbsent(w) PROVE ClosedInv'
  BY <1>3 DEF Enter, LockTimesOut, LoadAbsent, StoreUnchanged, ClosedInv
<1>4. ASSUME NEW w \in Workers, Load(w) PROVE ClosedInv'
  <2>1. row[req[w].user].doc \in Docs /\ Closed(row[req[w].user].doc)
    BY DEF Request, Rows, ClosedInv
  <2>2. EditOfRow(w, row[req[w].user].doc, row[req[w].user].version, FALSE)
    BY <1>4 DEF Load
  <2>3. PICK d, b : d \in Docs /\ Closed(d) /\ EditOfRow(w, d, b, FALSE)
    BY <2>1, <2>2
  <2>4. \A p \in Processes : Closed(work'[p].doc)
    BY <2>3, EditKeepsClosed
  <2> QED
    BY <1>4, <2>4 DEF Load, StoreUnchanged, ClosedInv
<1>5. ASSUME NEW w \in Workers, LoadFails(w) PROVE ClosedInv'
  <2>1. \A p \in Processes : Closed(work'[p].doc)
    <3>1. CASE EditOfRow(w, Fresh, 0, TRUE)
      BY <3>1, EditKeepsClosed, FreshIsDoc
    <3>2. CASE UNCHANGED work
      BY <3>2 DEF ClosedInv
    <3> QED
      BY <1>5, <3>1, <3>2 DEF LoadFails
  <2> QED
    BY <1>5, <2>1 DEF LoadFails, StoreUnchanged, ClosedInv
<1>6. ASSUME NEW c \in Clients, NEW u \in Users, NEW d \in ClientDocs, XcapPut(c, u, d)
      PROVE  ClosedInv'
  BY <1>6 DEF XcapPut, StoreUnchanged, ClosedInv, Edited
<1>7. ASSUME NEW p \in Processes, PutIdentical(p) \/ PutFails(p) PROVE ClosedInv'
  BY <1>7 DEF PutIdentical, PutFails, StoreUnchanged, ClosedInv
<1>8. ASSUME NEW p \in Processes, Fetch(p) PROVE ClosedInv'
  BY <1>8 DEF Fetch, Fetched, ClosedInv
<1>9. ASSUME NEW p \in Processes, Write(p) PROVE ClosedInv'
  BY <1>9 DEF Write, NewRow, ClosedInv
<1>10. ASSUME NEW p \in Processes, Leave(p) PROVE ClosedInv'
  BY <1>0, <1>10 DEF Leave, StoreUnchanged, ClosedInv
<1>11. ASSUME NEW u \in Users, XcapDelete(u) PROVE ClosedInv'
  BY <1>0, <1>11 DEF XcapDelete, ClosedInv
<1> QED
  BY <1>1, <1>2, <1>3, <1>4, <1>5, <1>6, <1>7, <1>8, <1>9, <1>10, <1>11 DEF Next

(***************************************************************************)
(* Members of groups stay contacts, if XCAP clients write no document in    *)
(* which they are not.                                                      *)
(***************************************************************************)
THEOREM ReferencesAlwaysResolve ==
  ASSUME \A d \in ClientDocs : Closed(d)
  PROVE  Spec => []ReferencesResolve
<1>1. Init => ClosedInv
  <2>1. Closed(NoWork.doc) /\ Closed(NoRow.doc)
    BY FreshIsDoc DEF NoWork, NoRow, Edited
  <2> SUFFICES ASSUME Init PROVE ClosedInv
    OBVIOUS
  <2>2. \A u \in Users : Closed(row[u].doc)
    <3> TAKE u \in Users
    <3>1. row[u] = NoRow \/ \E d \in ClientDocs : row[u].doc = d
      BY DEF Init
    <3> QED
      BY <2>1, <3>1
  <2> QED
    BY <2>1, <2>2 DEF Init, ClosedInv
<1>2. TypeOK /\ EditsRoutes /\ ClosedInv /\ [Next]_vars => ClosedInv'
  BY ClosedStep
<1>3. ClosedInv => ReferencesResolve
  BY DEF ClosedInv, ReferencesResolve
<1> QED
  BY <1>1, <1>2, <1>3, ApiTypeCorrect, PTL DEF Spec

(***************************************************************************)
(* The lock.                                                                *)
(***************************************************************************)
LEMMA LockStep == TypeOK /\ LockInv /\ [Next]_vars => LockInv'
<1> SUFFICES ASSUME TypeOK, LockInv, [Next]_vars PROVE LockInv'
  OBVIOUS
<1> USE ApiAssumption DEF TypeOK, LockInv, Working, Processes
<1>1. CASE UNCHANGED vars
  BY <1>1 DEF vars
<1>2. ASSUME NEW w \in Workers, NEW u \in Users, NEW op \in Operations, ApiRequest(w, u, op)
      PROVE  LockInv'
  BY <1>2 DEF ApiRequest, Goto
<1>3. ASSUME NEW w \in Workers, Enter(w) PROVE LockInv'
  BY <1>3 DEF Enter, UL!Enter, UL!Free, Goto
<1>4. ASSUME NEW w \in Workers, LockTimesOut(w) \/ LoadAbsent(w) PROVE LockInv'
  BY <1>4 DEF LockTimesOut, LoadAbsent, Finish
<1>5. ASSUME NEW w \in Workers, Load(w) \/ LoadFails(w) PROVE LockInv'
  <2>1. /\ inside' = inside /\ req' = req /\ pc[w] = "load"
        /\ \E l \in {"fetch", "answered"} : pc' = [pc EXCEPT ![w] = l]
    BY <1>5 DEF Load, LoadFails, EditOfRow, Goto, Finish
  <2> QED
    BY <2>1
<1>6. ASSUME NEW c \in Clients, NEW u \in Users, NEW d \in ClientDocs, XcapPut(c, u, d)
      PROVE  LockInv'
  BY <1>6 DEF XcapPut, Goto
<1>7. ASSUME NEW p \in Processes, PutIdentical(p) \/ PutFails(p) PROVE LockInv'
  BY <1>7 DEF PutIdentical, PutFails, Finish
<1>8. ASSUME NEW p \in Processes, Fetch(p) PROVE LockInv'
  BY <1>8 DEF Fetch, Goto
<1>9. ASSUME NEW p \in Processes, Write(p) PROVE LockInv'
  BY <1>9 DEF Write, Finish
<1>10. ASSUME NEW p \in Processes, Leave(p) PROVE LockInv'
  <2>1. CASE p \in Workers
    BY <1>10, <2>1 DEF Leave, UL!Leave
  <2>2. CASE p \notin Workers
    BY <1>10, <2>2 DEF Leave
  <2> QED
    BY <2>1, <2>2
<1>11. ASSUME NEW u \in Users, XcapDelete(u) PROVE LockInv'
  BY <1>11 DEF XcapDelete
<1> QED
  BY <1>1, <1>2, <1>3, <1>4, <1>5, <1>6, <1>7, <1>8, <1>9, <1>10, <1>11 DEF Next

(* A write of an API request is over the version it read, if the API wrote  *)
(* that; and no other request of the API is under way for that user.        *)
LEMMA BaseStep == TypeOK /\ LockInv /\ BaseInv /\ [Next]_vars => BaseInv'
<1> SUFFICES ASSUME TypeOK, LockInv, BaseInv, [Next]_vars PROVE BaseInv'
  OBVIOUS
<1> USE ApiAssumption DEF TypeOK, BaseInv, Processes
<1>1. CASE UNCHANGED vars
  BY <1>1 DEF vars
<1>2. ASSUME NEW w \in Workers, NEW u \in Users, NEW op \in Operations, ApiRequest(w, u, op)
      PROVE  BaseInv'
  BY <1>2 DEF ApiRequest, Goto, StoreUnchanged
<1>3. ASSUME NEW w \in Workers, Enter(w) PROVE BaseInv'
  BY <1>3 DEF Enter, Goto, StoreUnchanged
<1>4. ASSUME NEW w \in Workers, LockTimesOut(w) \/ LoadAbsent(w) PROVE BaseInv'
  BY <1>4 DEF LockTimesOut, LoadAbsent, Finish, StoreUnchanged
<1>5. ASSUME NEW w \in Workers, Load(w) PROVE BaseInv'
  BY <1>5 DEF Load, EditOfRow, Goto, Finish, StoreUnchanged, Edited
<1>6. ASSUME NEW w \in Workers, LoadFails(w) PROVE BaseInv'
  BY <1>6 DEF LoadFails, EditOfRow, Goto, Finish, StoreUnchanged, Edited
<1>7. ASSUME NEW c \in Clients, NEW u \in Users, NEW d \in ClientDocs, XcapPut(c, u, d)
      PROVE  BaseInv'
  BY <1>7 DEF XcapPut, Goto, StoreUnchanged
<1>8. ASSUME NEW p \in Processes, PutIdentical(p) \/ PutFails(p) PROVE BaseInv'
  BY <1>8 DEF PutIdentical, PutFails, Finish, StoreUnchanged
<1>9. ASSUME NEW p \in Processes, Fetch(p) PROVE BaseInv'
  BY <1>9 DEF Fetch, Goto, Fetched
<1>10. ASSUME NEW p \in Processes, Write(p) PROVE BaseInv'
  <2> SUFFICES ASSUME NEW w \in Workers, pc'[w] \in {"fetch", "write"}, ~work'[w].fresh,
                      row'[req'[w].user].by = "api"
               PROVE  row'[req'[w].user].version = work'[w].base
    OBVIOUS
  <2>1. /\ work' = work /\ req' = req
        /\ w # p /\ pc[w] \in {"fetch", "write"} /\ pc[p] = "write"
    BY <1>10 DEF Write, Finish
  <2>2. CASE req[w].user # req[p].user
    BY <1>10, <2>1, <2>2 DEF Write
  <2>3. CASE req[w].user = req[p].user /\ p \in Workers
    BY <2>1, <2>3 DEF LockInv, Working, Request
  <2>4. CASE req[w].user = req[p].user /\ p \notin Workers
    <3>1. row'[req[w].user].by = "xcap"
      BY <1>10, <2>4 DEF Write, NewRow, Request
    <3> QED
      BY <2>1, <3>1
  <2> QED
    BY <2>2, <2>3, <2>4
<1>11. ASSUME NEW p \in Processes, Leave(p) PROVE BaseInv'
  BY <1>11 DEF Leave, StoreUnchanged
<1>12. ASSUME NEW u \in Users, XcapDelete(u) PROVE BaseInv'
  BY <1>12 DEF XcapDelete, NoRow
<1> QED
  BY <1>1, <1>2, <1>3, <1>4, <1>5, <1>6, <1>7, <1>8, <1>9, <1>10, <1>11, <1>12 DEF Next

LEMMA ApiInvariant == Spec => []ApiInv
<1>1. Init => ApiInv
  BY ApiAssumption DEF Init, UL!Init, ApiInv, LockInv, BaseInv, Working, Processes
<1>2. TypeOK /\ ApiInv /\ [Next]_vars => ApiInv'
  BY LockStep, BaseStep DEF ApiInv
<1> QED
  BY <1>1, <1>2, ApiTypeCorrect, PTL DEF Spec

(***************************************************************************)
(* The lock serialises the API: a request whose load did not fail writes    *)
(* over no change of the API it has not read.                               *)
(***************************************************************************)
THEOREM ApiUpdatesAreKept == Spec => NoApiUpdateIsLost
<1>1. ApiInv => [\A w \in Workers : Commits(w) /\ ~work[w].fresh =>
                    \/ row[req[w].user].by # "api"
                    \/ row[req[w].user].version = work[w].base]_vars
  BY DEF ApiInv, BaseInv, Commits
<1> QED
  BY <1>1, ApiInvariant, PTL DEF NoApiUpdateIsLost

-----------------------------------------------------------------------------
(* The API changes addressbooks as Addressbook says.                        *)

EditsFrom(w, d) == /\ Outcome(req[w].op, d).code = "store"
                   /\ Outcome(req[w].op, d).doc = work[w].doc

(* What a request is to store is its edit of a document there is or was; of *)
(* the one there is, if the API wrote that.                                 *)
EditInv ==
    \A w \in Workers : pc[w] \in {"fetch", "write"} =>
        IF work[w].fresh
        THEN StartsAfresh(req[w].op) /\ EditsFrom(w, Fresh)
        ELSE /\ \E d \in Docs : EditsFrom(w, d)
             /\ row[req[w].user].by = "api" => EditsFrom(w, row[req[w].user].doc)

LEMMA EditOfRowEdits ==
  ASSUME TypeOK, NEW w \in Workers, NEW d, NEW b, NEW f, EditOfRow(w, d, b, f), req' = req
  PROVE  /\ \A v \in Workers \ {w} : work'[v] = work[v] /\ pc'[v] = pc[v]
         /\ pc'[w] \in {"fetch", "write"} => work'[w].fresh = f /\ EditsFrom(w, d)'
<1> DEFINE out == Outcome(req[w].op, d)
<1>1. CASE /\ out.code = "store" /\ work' = [work EXCEPT ![w] = Edited(b, f, out.doc)]
           /\ Goto(w, "fetch")
  BY <1>1 DEF TypeOK, Processes, Goto, Edited, EditsFrom
<1>2. CASE \E code : Finish(w, code) /\ UNCHANGED work
  BY <1>2 DEF TypeOK, Processes, Finish
<1> QED
  BY <1>1, <1>2 DEF EditOfRow

(* A request whose work, user and document stay as they are.                *)
Undisturbed(w) == /\ work'[w] = work[w] /\ req'[w] = req[w]
                  /\ pc'[w] \in {"fetch", "write"} => pc[w] \in {"fetch", "write"}
                  /\ row' = row

LEMMA EditOfOthers ==
  ASSUME EditInv, NEW w \in Workers, Undisturbed(w), pc'[w] \in {"fetch", "write"}
  PROVE  IF work'[w].fresh
         THEN StartsAfresh(req'[w].op) /\ EditsFrom(w, Fresh)'
         ELSE /\ \E d \in Docs : EditsFrom(w, d)'
              /\ row'[req'[w].user].by = "api" => EditsFrom(w, row[req[w].user].doc)'
BY DEF EditInv, EditsFrom, Undisturbed

LEMMA EditStep == TypeOK /\ LockInv /\ EditInv /\ [Next]_vars => EditInv'
<1> SUFFICES ASSUME TypeOK, LockInv, EditInv, [Next]_vars PROVE EditInv'
  OBVIOUS
<1> USE DEF Processes
<1>0. ASSUME \A w \in Workers : Undisturbed(w) \/ pc'[w] \notin {"fetch", "write"} PROVE EditInv'
  BY <1>0, EditOfOthers DEF EditInv, EditsFrom, Undisturbed
<1>1. CASE UNCHANGED vars
  BY <1>0, <1>1 DEF vars, Undisturbed
<1>2. ASSUME NEW w \in Workers, NEW u \in Users, NEW op \in Operations, ApiRequest(w, u, op)
      PROVE  EditInv'
  BY <1>0, <1>2 DEF ApiRequest, Goto, StoreUnchanged, Undisturbed, TypeOK
<1>3. ASSUME NEW w \in Workers, Enter(w) PROVE EditInv'
  BY <1>0, <1>3 DEF Enter, Goto, StoreUnchanged, Undisturbed, TypeOK
<1>4. ASSUME NEW w \in Workers, LockTimesOut(w) \/ LoadAbsent(w) PROVE EditInv'
  BY <1>0, <1>4 DEF LockTimesOut, LoadAbsent, Finish, StoreUnchanged, Undisturbed, TypeOK
<1>5. ASSUME NEW w \in Workers, Load(w) \/ LoadFails(w) PROVE EditInv'
  <2> SUFFICES ASSUME NEW v \in Workers, pc'[v] \in {"fetch", "write"}
               PROVE  IF work'[v].fresh
                      THEN StartsAfresh(req'[v].op) /\ EditsFrom(v, Fresh)'
                      ELSE /\ \E d \in Docs : EditsFrom(v, d)'
                           /\ row'[req'[v].user].by = "api" => EditsFrom(v, row[req[v].user].doc)'
    BY <1>5 DEF Load, LoadFails, StoreUnchanged, EditInv, EditsFrom
  <2>1. CASE v # w
    <3>1. Undisturbed(v)
      <4>1. CASE Load(w)
        BY <2>1, <4>1, EditOfRowEdits DEF Load, StoreUnchanged, Undisturbed
      <4>2. CASE LoadFails(w) /\ StartsAfresh(req[w].op)
        BY <2>1, <4>2, EditOfRowEdits DEF LoadFails, StoreUnchanged, Undisturbed
      <4>3. CASE LoadFails(w) /\ ~StartsAfresh(req[w].op)
        BY <2>1, <4>3 DEF LoadFails, Finish, StoreUnchanged, Undisturbed, TypeOK
      <4> QED
        BY <1>5, <4>1, <4>2, <4>3
    <3> QED
      BY <3>1, EditOfOthers
  <2>2. CASE v = w /\ Load(w)
    <3> PICK d : d = row[req[w].user].doc
      OBVIOUS
    <3>1. d \in Docs
      BY DEF TypeOK, Rows, Request
    <3>2. EditOfRow(w, d, row[req[w].user].version, FALSE) /\ req' = req /\ row' = row
      BY <2>2 DEF Load, StoreUnchanged
    <3>3. work'[w].fresh = FALSE /\ EditsFrom(w, d)'
      BY <2>2, <3>2, EditOfRowEdits
    <3> QED
      BY <2>2, <3>1, <3>2, <3>3
  <2>3. CASE v = w /\ LoadFails(w)
    <3>1. StartsAfresh(req[w].op) /\ EditOfRow(w, Fresh, 0, TRUE) /\ req' = req
      BY <2>3 DEF LoadFails, Finish, TypeOK
    <3>2. work'[w].fresh = TRUE /\ EditsFrom(w, Fresh)'
      BY <2>3, <3>1, EditOfRowEdits
    <3> QED
      BY <2>3, <3>1, <3>2
  <2> QED
    BY <1>5, <2>1, <2>2, <2>3
<1>6. ASSUME NEW c \in Clients, NEW u \in Users, NEW d \in ClientDocs, XcapPut(c, u, d)
      PROVE  EditInv'
  BY <1>0, <1>6, ApiAssumption DEF XcapPut, Goto, StoreUnchanged, Undisturbed, TypeOK
<1>7. ASSUME NEW p \in Processes, PutIdentical(p) \/ PutFails(p) PROVE EditInv'
  BY <1>0, <1>7 DEF PutIdentical, PutFails, Finish, StoreUnchanged, Undisturbed, TypeOK
<1>8. ASSUME NEW p \in Processes, Fetch(p) PROVE EditInv'
  <2>1. /\ row' = row /\ req' = req /\ pc[p] = "fetch"
        /\ work'[p].doc = work[p].doc /\ work'[p].fresh = work[p].fresh
        /\ \A w \in Processes \ {p} : work'[w] = work[w] /\ pc'[w] = pc[w]
    BY <1>8 DEF Fetch, Fetched, Goto, TypeOK
  <2>2. \A w \in Workers : work'[w].doc = work[w].doc /\ work'[w].fresh = work[w].fresh
    BY <2>1
  <2>3. ASSUME NEW w \in Workers, pc'[w] \in {"fetch", "write"} PROVE pc[w] \in {"fetch", "write"}
    BY <2>1, <2>3
  <2>4. ASSUME NEW w \in Workers
        PROVE  /\ EditsFrom(w, Fresh)' <=> EditsFrom(w, Fresh)
               /\ (\E d \in Docs : EditsFrom(w, d)') <=> (\E d \in Docs : EditsFrom(w, d))
               /\ EditsFrom(w, row[req[w].user].doc)' <=> EditsFrom(w, row[req[w].user].doc)
    BY <2>1, <2>2 DEF EditsFrom
  <2> QED
    BY <2>1, <2>2, <2>3, <2>4 DEF EditInv
<1>9. ASSUME NEW p \in Processes, Write(p) PROVE EditInv'
  <2> SUFFICES ASSUME NEW w \in Workers, pc'[w] \in {"fetch", "write"}
               PROVE  IF work'[w].fresh
                      THEN StartsAfresh(req'[w].op) /\ EditsFrom(w, Fresh)'
                      ELSE /\ \E d \in Docs : EditsFrom(w, d)'
                           /\ row'[req'[w].user].by = "api" => EditsFrom(w, row[req[w].user].doc)'
    BY DEF EditInv, EditsFrom
  <2>1. /\ work' = work /\ req' = req
        /\ w # p /\ pc[w] \in {"fetch", "write"} /\ pc[p] = "write"
    BY <1>9 DEF Write, Finish, TypeOK
  <2>2. /\ EditsFrom(w, Fresh)' <=> EditsFrom(w, Fresh)
        /\ (\E d \in Docs : EditsFrom(w, d)') <=> (\E d \in Docs : EditsFrom(w, d))
        /\ row'[req[w].user] = row[req[w].user]
              => (EditsFrom(w, row[req[w].user].doc)' <=> EditsFrom(w, row[req[w].user].doc))
    BY <2>1 DEF EditsFrom
  <2>3. \/ row'[req[w].user] = row[req[w].user]
        \/ row'[req[w].user].by = "xcap"
    <3>1. CASE req[w].user # req[p].user
      BY <1>9, <3>1 DEF Write, TypeOK
    <3>2. CASE req[w].user = req[p].user /\ p \in Workers
      BY <2>1, <3>2, ApiAssumption DEF LockInv, Working, Request, TypeOK
    <3>3. CASE req[w].user = req[p].user /\ p \notin Workers
      BY <1>9, <3>3 DEF Write, NewRow, Request, TypeOK
    <3> QED
      BY <3>1, <3>2, <3>3
  <2> QED
    BY <2>1, <2>2, <2>3 DEF EditInv
<1>10. ASSUME NEW p \in Processes, Leave(p) PROVE EditInv'
  BY <1>0, <1>10 DEF Leave, StoreUnchanged, Undisturbed, TypeOK
<1>11. ASSUME NEW u \in Users, XcapDelete(u) PROVE EditInv'
  <2>1. /\ UNCHANGED <<work, req, pc>>
        /\ \A v \in Users : row'[v] = row[v] \/ row'[v].by = "nobody"
    BY <1>11 DEF XcapDelete, NoRow, TypeOK
  <2>2. \A w \in Workers : req[w].user \in Users
    BY DEF TypeOK, Request
  <2>3. \A w \in Workers : \A d : EditsFrom(w, d)' <=> EditsFrom(w, d)
    BY <2>1 DEF EditsFrom
  <2> QED
    BY <2>1, <2>2, <2>3 DEF EditInv
<1> QED
  BY <1>1, <1>2, <1>3, <1>4, <1>5, <1>6, <1>7, <1>8, <1>9, <1>10, <1>11 DEF Next

LEMMA EditInvariant == Spec => []EditInv
<1>1. Init => EditInv
  BY DEF Init, EditInv, Processes
<1>2. TypeOK /\ ApiInv /\ EditInv /\ [Next]_vars => EditInv'
  BY EditStep DEF ApiInv
<1> QED
  BY <1>1, <1>2, ApiTypeCorrect, ApiInvariant, PTL DEF Spec

(* Addressbook speaks of the same documents and routes.                     *)
LEMMA SameDocs ==
  /\ AB!Docs = Docs /\ AB!Fresh = Fresh /\ AB!Operations = Operations
  /\ \A op : AB!StartsAfresh(op) <=> StartsAfresh(op)
BY DEF AB!Docs, Docs, AB!GroupMaps, GroupMaps, AB!Fresh, Fresh, AB!Book, Book,
       AB!Operations, Operations, AB!NoMembers, NoMembers, AB!StartsAfresh, StartsAfresh

LEMMA SameOutcome == ASSUME NEW op, NEW d PROVE AB!Outcome(op, d) = Outcome(op, d)
BY Zenon DEF AB!Outcome, Outcome, AB!Route, Route,
       AB!Refuse, Refuse, AB!Show, Show, AB!Store, Store, AB!Book, Book, AB!WithContacts, WithContacts, AB!WithPolicies, WithPolicies, AB!WithGroup, WithGroup, AB!ReadAddressbook, ReadAddressbook, AB!Member, Member, AB!GetContact, GetContact, AB!AddContact, AddContact, AB!UpdateContact, UpdateContact, AB!DeleteContact, DeleteContact, AB!GetPolicy, GetPolicy, AB!AddPolicy, AddPolicy, AB!UpdatePolicy, UpdatePolicy, AB!DeletePolicy, DeletePolicy, AB!GetGroup, GetGroup, AB!AddGroup, AddGroup, AB!UpdateGroup, UpdateGroup, AB!DeleteGroup, DeleteGroup, AB!AddGroupMember, AddGroupMember, AB!DeleteGroupMember, DeleteGroupMember

Books == [u \in Users |-> row[u].doc]
Ours  == {u \in Users : row[u].by = "api"}

(* A step that changes the row of one user changes its addressbook, and who *)
(* wrote it last.                                                           *)
LEMMA OneRowChanges ==
  ASSUME TypeOK, NEW u \in Users, NEW r \in Rows, row' = [row EXCEPT ![u] = r]
  PROVE  /\ Books' = [Books EXCEPT ![u] = r.doc]
         /\ Ours' = IF r.by = "api" THEN Ours \cup {u} ELSE Ours \ {u}
<1>1. row'[u] = r /\ \A v \in Users \ {u} : row'[v] = row[v]
  BY DEF TypeOK
<1>2. Books' = [Books EXCEPT ![u] = r.doc]
  <2>1. Books' = [v \in Users |-> IF v = u THEN r.doc ELSE row[v].doc]
    BY <1>1 DEF Books
  <2> QED
    BY <2>1 DEF Books
<1>3. \A v \in Users : v \in Ours' <=> (IF v = u THEN r.by = "api" ELSE v \in Ours)
  BY <1>1 DEF Ours
<1>4. Ours \subseteq Users /\ Ours' \subseteq Users
  BY DEF Ours
<1> QED
  BY <1>2, <1>3, <1>4

LEMMA OthersRefine ==
  ASSUME NEW u \in Users, NEW d \in Docs, Books' = [Books EXCEPT ![u] = d], Ours' = Ours \ {u}
  PROVE  AB!Next
<1>1. AB!OthersWrite(u)
  BY SameDocs DEF AB!OthersWrite, Books, Ours
<1> QED
  BY <1>1 DEF AB!Next

LEMMA NewRowIs ==
  ASSUME TypeOK, NEW p \in Processes, pc[p] = "write"
  PROVE  /\ NewRow(p) \in Rows /\ NewRow(p).doc = work[p].doc
         /\ NewRow(p).by = IF p \in Workers THEN "api" ELSE "xcap"
<1>1. work[p] \in Work
  BY DEF TypeOK
<1>2. work[p].id \in Nat /\ work[p].version \in Nat /\ work[p].doc \in Docs
  BY <1>1 DEF Work
<1> QED
  BY <1>2 DEF NewRow, Rows

LEMMA WriteRefines ==
  ASSUME TypeOK, EditsRoutes, EditInv, NEW p \in Processes, Write(p) PROVE AB!Next
<1> PICK u : u = req[p].user
  OBVIOUS
<1>1. pc[p] = "write" /\ row' = [row EXCEPT ![u] = NewRow(p)] /\ u \in Users
  BY DEF Write, TypeOK, Request
<1>2. /\ NewRow(p) \in Rows /\ NewRow(p).doc = work[p].doc
      /\ NewRow(p).by = IF p \in Workers THEN "api" ELSE "xcap"
  BY <1>1, NewRowIs
<1>3. /\ Books' = [Books EXCEPT ![u] = work[p].doc]
      /\ Ours' = IF p \in Workers THEN Ours \cup {u} ELSE Ours \ {u}
  BY <1>1, <1>2, OneRowChanges
<1>4. CASE p \notin Workers
  <2>1. work[p].doc \in Docs
    BY DEF TypeOK, Work
  <2> QED
    BY <1>1, <1>3, <1>4, <2>1, OthersRefine
<1>5. CASE p \in Workers
  <2> PICK op : op = req[p].op
    OBVIOUS
  <2>1. op \in Operations
    BY <1>5 DEF EditsRoutes
  <2>2. ASSUME NEW d, EditsFrom(p, d) PROVE AB!ChangeTo(u, AB!Outcome(op, d))
    <3>1. AB!Outcome(op, d).code = "store" /\ AB!Outcome(op, d).doc = work[p].doc
      BY <2>2, SameOutcome DEF EditsFrom
    <3> QED
      BY <1>3, <1>5, <3>1 DEF AB!ChangeTo, Books, Ours
  <2>3. CASE work[p].fresh
    <3>1. StartsAfresh(op) /\ EditsFrom(p, Fresh)
      BY <1>1, <1>5, <2>3 DEF EditInv
    <3>2. AB!StartOver(u, op)
      BY <2>2, <3>1, SameDocs DEF AB!StartOver
    <3> QED
      BY <1>1, <2>1, <3>2, SameDocs DEF AB!Next
  <2>4. CASE ~work[p].fresh /\ row[u].by = "api"
    <3>1. EditsFrom(p, row[u].doc)
      BY <1>1, <1>5, <2>4 DEF EditInv
    <3>2. AB!Apply(u, op)
      <4> PICK d : d = [v \in Users |-> row[v].doc][u]
        OBVIOUS
      <4>1. d = row[u].doc
        BY <1>1
      <4>2. AB!Outcome(op, d).code = "store" /\ AB!Outcome(op, d).doc = work[p].doc
        BY <3>1, <4>1, SameOutcome DEF EditsFrom
      <4> QED
        BY <1>3, <1>5, <4>2 DEF AB!Apply, AB!ChangeTo, Books, Ours
    <3> QED
      BY <1>1, <2>1, <3>2, SameDocs DEF AB!Next
  <2>5. CASE ~work[p].fresh /\ row[u].by # "api"
    <3>1. \E d \in Docs : EditsFrom(p, d)
      BY <1>1, <1>5, <2>5 DEF EditInv
    <3>2. AB!ApplyToRead(u, op)
      BY <2>2, <2>5, <3>1, SameDocs DEF AB!ApplyToRead
    <3> QED
      BY <1>1, <2>1, <3>2, SameDocs DEF AB!Next
  <2> QED
    BY <2>3, <2>4, <2>5
<1> QED
  BY <1>4, <1>5

LEMMA ApiStepRefines ==
  TypeOK /\ EditsRoutes /\ EditInv /\ [Next]_vars => [AB!Next]_<<Books, Ours>>
<1> SUFFICES ASSUME TypeOK, EditsRoutes, EditInv, [Next]_vars
             PROVE  AB!Next \/ UNCHANGED <<Books, Ours>>
  OBVIOUS
<1>1. CASE row' = row
  BY <1>1 DEF Books, Ours
<1>2. ASSUME NEW p \in Processes, Write(p) PROVE AB!Next
  BY <1>2, WriteRefines
<1>3. ASSUME NEW u \in Users, XcapDelete(u) PROVE AB!Next
  <2>1. row' = [row EXCEPT ![u] = NoRow] /\ NoRow \in Rows /\ NoRow.by # "api" /\ NoRow.doc = Fresh
    BY <1>3, TypeOfValues DEF XcapDelete, NoRow
  <2>2. Books' = [Books EXCEPT ![u] = Fresh] /\ Ours' = Ours \ {u} /\ Fresh \in Docs
    BY <2>1, OneRowChanges, FreshIsDoc
  <2> QED
    BY <2>2, OthersRefine
<1>4. \/ row' = row
      \/ \E p \in Processes : Write(p)
      \/ \E u \in Users : XcapDelete(u)
  BY DEF Next, ApiRequest, Enter, LockTimesOut, Load, LoadAbsent, LoadFails, XcapPut,
         PutIdentical, Fetch, PutFails, Leave, StoreUnchanged, vars
<1> QED
  BY <1>1, <1>2, <1>3, <1>4

(***************************************************************************)
(* Each request of the API that stores something changes the addressbook in *)
(* one step, from what it is if the API wrote it last: the lock around load, *)
(* edit and store (api_routes.py:116) makes them one.                       *)
(***************************************************************************)
THEOREM ApiRefinement == Spec => ImplementsAddressbook
<1>1. Init => AB!Init
  <2> SUFFICES ASSUME Init PROVE AB!Init
    OBVIOUS
  <2>1. \A u \in Users : row[u].doc \in Docs
    BY FreshIsDoc, ApiAssumption DEF Init, NoRow
  <2> QED
    BY <2>1, SameDocs DEF AB!Init
<1>2. TypeOK /\ EditsRoutes /\ EditInv /\ [Next]_vars => [AB!Next]_<<Books, Ours>>
  BY ApiStepRefines
<1>3. [AB!Next]_<<Books, Ours>>
      <=> [AB!Next]_<<[u \in Users |-> row[u].doc], {u \in Users : row[u].by = "api"}>>
  BY DEF Books, Ours
<1> QED
  BY <1>1, <1>2, <1>3, ApiTypeCorrect, EditInvariant, PTL DEF Spec, ImplementsAddressbook, AB!Spec
=============================================================================
