------------------------- MODULE AddressbookRoutes -------------------------
(***************************************************************************)
(* What each route of xcap/routes/api_routes.py makes of the resource-lists *)
(* document it has loaded: an outcome, which refuses the request, shows the *)
(* document, or has a new document to store.                                *)
(*                                                                          *)
(* Of the document only the sipsimple_addressbook list counts: the ids of   *)
(* its contacts and policies, and its groups with their member ids. Names,  *)
(* URIs and attributes are left out, so that an update of a contact or of a *)
(* policy leaves a document that looks as it did.                           *)
(***************************************************************************)
EXTENDS FiniteSets

CONSTANTS Contacts, Groups, Policies

GroupMaps == UNION {[G -> SUBSET Contacts] : G \in SUBSET Groups}

(* listed: whether the document has the list sipsimple_addressbook at all.  *)
Docs == [listed : BOOLEAN, contacts : SUBSET Contacts, groups : GroupMaps,
         policies : SUBSET Policies]

Book(c, g, p) == [listed |-> TRUE, contacts |-> c, groups |-> g, policies |-> p]

(* normalize of a document without content.                                 *)
Fresh == Book({}, [g \in {} |-> {}], {})

Refuse(code, d) == [code |-> code, doc |-> d]
Show(d)         == [code |-> "show", doc |-> d]
Store(d)        == [code |-> "store", doc |-> d]

WithContacts(d, c) == Book(c, d.groups, d.policies)
WithPolicies(d, p) == Book(d.contacts, d.groups, p)
WithGroup(d, g, m) ==
    Book(d.contacts, [h \in DOMAIN d.groups \cup {g} |-> IF h = g THEN m ELSE d.groups[h]], d.policies)

-----------------------------------------------------------------------------

ReadAddressbook(d) == Show(d)

GetContact(d, c) == IF c \in d.contacts THEN Show(d) ELSE Refuse("404", d)

AddContact(d, c) ==
    IF c \in d.contacts THEN Refuse("409", d) ELSE Store(WithContacts(d, d.contacts \cup {c}))

UpdateContact(d, c) == IF c \in d.contacts THEN Store(d) ELSE Refuse("404", d)

DeleteContactOnly(d, c) ==
    IF c \in d.contacts THEN Store(WithContacts(d, d.contacts \ {c})) ELSE Refuse("404", d)

(* The contact leaves every group that has it, and then the addressbook.    *)
DeleteContact(d, c) ==
    IF c \in d.contacts
    THEN Store(Book(d.contacts \ {c}, [g \in DOMAIN d.groups |-> d.groups[g] \ {c}], d.policies))
    ELSE Refuse("404", d)

GetPolicy(d, p)    == IF p \in d.policies THEN Show(d) ELSE Refuse("404", d)
AddPolicy(d, p)    == Store(WithPolicies(d, d.policies \cup {p}))
UpdatePolicy(d, p) == IF p \in d.policies THEN Store(d) ELSE Refuse("404", d)
DeletePolicy(d, p) ==
    IF p \in d.policies THEN Store(WithPolicies(d, d.policies \ {p})) ELSE Refuse("404", d)

(* The answer looks every member up among the contacts: a member that is    *)
(* not there is a KeyError, a 500.                                          *)
GetGroup(d, g) ==
    IF g \notin DOMAIN d.groups THEN Refuse("404", d)
    ELSE IF d.groups[g] \subseteq d.contacts THEN Show(d) ELSE Refuse("500", d)

(* Members that are not contacts are dropped without a word.                *)
AddGroup(d, g, members) == Store(WithGroup(d, g, members \cap d.contacts))

(* Mutant: members of a group are not checked against the contacts.        *)
UpdateGroupUnfiltered(d, g, members) ==
    IF g \in DOMAIN d.groups THEN Store(WithGroup(d, g, members)) ELSE Refuse("404", d)

UpdateGroup(d, g, members) ==
    IF g \in DOMAIN d.groups
    THEN Store(WithGroup(d, g, members \cap d.contacts))
    ELSE Refuse("404", d)

DeleteGroup(d, g) ==
    IF g \in DOMAIN d.groups
    THEN Store(Book(d.contacts, [h \in DOMAIN d.groups \ {g} |-> d.groups[h]], d.policies))
    ELSE Refuse("404", d)

AddGroupMember(d, g, c) ==
    IF g \notin DOMAIN d.groups THEN Refuse("404", d)
    ELSE IF c \in d.groups[g] THEN Refuse("409", d)
    ELSE IF c \notin d.contacts THEN Refuse("404", d)
    ELSE Store(WithGroup(d, g, d.groups[g] \cup {c}))

DeleteGroupMember(d, g, c) ==
    IF g \in DOMAIN d.groups /\ c \in d.groups[g]
    THEN Store(WithGroup(d, g, d.groups[g] \ {c}))
    ELSE Refuse("404", d)

-----------------------------------------------------------------------------

NoMembers == {}

(* The requests: a route, the id in its path or body, and member ids.       *)
Operations ==
    [route : {"readAddressbook"}, id : {"none"}, members : {NoMembers}]
    \cup [route : {"getContact", "addContact", "updateContact", "deleteContact"},
          id : Contacts, members : {NoMembers}]
    \cup [route : {"getPolicy", "addPolicy", "updatePolicy", "deletePolicy"},
          id : Policies, members : {NoMembers}]
    \cup [route : {"getGroup", "deleteGroup"}, id : Groups, members : {NoMembers}]
    \cup [route : {"addGroup", "updateGroup"}, id : Groups, members : SUBSET Contacts]
    \cup [route : {"addGroupMember", "deleteGroupMember"}, id : Groups,
          members : {{c} : c \in Contacts}]

Member(op) == CHOOSE c \in Contacts : op.members = {c}

Route(op, d) ==
    CASE op.route = "readAddressbook" -> ReadAddressbook(d)
      [] op.route = "getContact"      -> GetContact(d, op.id)
      [] op.route = "addContact"      -> AddContact(d, op.id)
      [] op.route = "updateContact"   -> UpdateContact(d, op.id)
      [] op.route = "deleteContact"   -> DeleteContact(d, op.id)
      [] op.route = "getPolicy"       -> GetPolicy(d, op.id)
      [] op.route = "addPolicy"       -> AddPolicy(d, op.id)
      [] op.route = "updatePolicy"    -> UpdatePolicy(d, op.id)
      [] op.route = "deletePolicy"    -> DeletePolicy(d, op.id)
      [] op.route = "getGroup"        -> GetGroup(d, op.id)
      [] op.route = "addGroup"        -> AddGroup(d, op.id, op.members)
      [] op.route = "updateGroup"     -> UpdateGroup(d, op.id, op.members)
      [] op.route = "deleteGroup"     -> DeleteGroup(d, op.id)
      [] op.route = "addGroupMember"  -> AddGroupMember(d, op.id, Member(op))
      [] op.route = "deleteGroupMember" -> DeleteGroupMember(d, op.id, Member(op))

(* A document without the list is a KeyError in every route.                *)
Outcome(op, d) == IF d.listed THEN Route(op, d) ELSE Refuse("500", d)

(* The routes that load with propagate=False and start afresh if that fails.*)
StartsAfresh(op) == op.route \in {"addContact", "addPolicy", "addGroup"}

(* The routes that return the answer of the storage, with the background    *)
(* task on it; the others build their own answer.                           *)
ReturnsStorageAnswer(op) ==
    op.route \in {"deleteContact", "deletePolicy", "deleteGroup", "deleteGroupMember"}

(* Adding a group or a policy whose id is taken is not checked for: what    *)
(* add of the payload list does then, replace or raise, is the library's.   *)
IdIsTaken(op, d) == \/ op.route = "addGroup" /\ op.id \in DOMAIN d.groups
                    \/ op.route = "addPolicy" /\ op.id \in d.policies

(* Every member of a group is a contact.                                    *)
Closed(d) == \A g \in DOMAIN d.groups : d.groups[g] \subseteq d.contacts
=============================================================================
