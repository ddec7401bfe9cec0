--------------------------- MODULE ResourceLists ---------------------------
(***************************************************************************)
(* The constraint resource-lists documents have beyond their schema:        *)
(* check_list and get_xpath of xcap/appusage/resourcelists.py. Siblings     *)
(* differ: lists by their name, entries by their uri, each the one attribute *)
(* that NodeLocator keeps of an element. (entry-ref and external, whose     *)
(* references are URIs, are left out.)                                      *)
(***************************************************************************)
EXTENDS NodeLocator

ListTag  == "list"
EntryTag == "entry"

Elder(doc, i) == {j \in Elements(doc) : j < i /\ Parent(doc, j) = Parent(doc, i)}

\* The elements whose children are checked: the root, whatever it is, and the
\* lists below it that are reached through lists. visited are those before tag i.
Reached(doc, visited, i) ==
    \/ i = 1
    \/ doc[i].kind # "close" /\ doc[i].name = ListTag /\ Parent(doc, i) \in visited

VisitedUpTo(doc) ==
    LET upTo[i \in 0..Len(doc)] ==
          IF i = 0 THEN {} ELSE upTo[i - 1] \cup {j \in {i} : Reached(doc, upTo[i - 1], j)}
    IN  upTo

Visited(doc) == VisitedUpTo(doc)[Len(doc)]

\* Of the schema (resource-lists.xsd), as long as documents are validated: no list
\* and no entry is in an entry.
WellPlaced(doc) ==
    \A i \in Elements(doc) :
        doc[i].name \in {ListTag, EntryTag} /\ Parent(doc, i) > 1
        => doc[Parent(doc, i)].name # EntryTag

\* Mutant: only the children of the root are checked.
RepeatsAtTop(doc) ==
    {i \in Elements(doc) :
        /\ Parent(doc, i) = 1 /\ doc[i].name \in {ListTag, EntryTag}
        /\ \E j \in Elder(doc, i) : doc[j].name = doc[i].name /\ doc[j].att = doc[i].att}

\* The lists and entries that an elder sibling equals. None, for an attribute that
\* is not there, equals None.
Repeats(doc) ==
    {i \in Elements(doc) :
        /\ Parent(doc, i) \in Visited(doc) /\ doc[i].name \in {ListTag, EntryTag}
        /\ \E j \in Elder(doc, i) : doc[j].name = doc[i].name /\ doc[j].att = doc[i].att}

\* The one that is reported: a child is compared before its own children are.
FirstRepeat(doc) == CHOOSE i \in Repeats(doc) : \A j \in Repeats(doc) : i <= j

\* get_xpath: a star for the root and, for each element below, a star with the
\* index that lxml gives it in its parent, which starts with 0.
XPath(doc, elem) ==
    LET path[i \in 1..Len(doc)] ==
          IF i = 1 THEN <<Step(Star, Anywhere, AnyAtt)>>
          ELSE Append(path[Parent(doc, i)], Step(Star, Cardinality(Elder(doc, i)), AnyAtt))
    IN  path[elem]
=============================================================================
