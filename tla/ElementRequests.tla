-------------------------- MODULE ElementRequests --------------------------
(***************************************************************************)
(* GET, PUT and DELETE of one element of a document, and PUT of the whole   *)
(* of it: get_element, put_element, delete_element and put_document of      *)
(* xcap/appusage/__init__.py and resourcelists.py, one request at a time.   *)
(* (What happens when requests overlap is in DatabaseStorage; here the      *)
(* document they work on is spelled out.)                                   *)
(***************************************************************************)
EXTENDS ResourceLists

CONSTANTS
    Selectors,         \* node selectors of the requests
    Bodies,            \* element bodies of the PUTs, each one element
    InitialDocuments,  \* documents stored by a whole-document PUT
    MaxTags            \* bound on the tags of a document; an initial one may grow once

ASSUME RequestsAssumption ==
    /\ MaxTags \in Nat
    /\ \A d \in InitialDocuments \cup Bodies : d \in Seq(Tag) /\ WellFormed(d)
    /\ \A sel \in Selectors : sel \in Seq(StepOf) /\ Len(sel) > 0

VARIABLES
    application,  \* what the document is of: "resource-lists" or "other"
    document,   \* the stored document
    answer      \* the answer to the latest request, NoAnswer between requests

vars == <<application, document, answer>>

NoAnswer == [op |-> "none"]

Allowed(doc)    == application = "resource-lists" => WellPlaced(doc)
UniqueIn(doc)   == application = "resource-lists" => Repeats(doc) = {}
Acceptable(doc) == Allowed(doc) /\ UniqueIn(doc)

Init ==
    /\ application \in {"resource-lists", "other"}
    /\ document \in InitialDocuments /\ Acceptable(document)
    /\ answer = NoAnswer

\* What a request was, what became of it and what it had found. content is the
\* body of a PUT and of the answer to a GET.
Answered(op, sel, content, outcome) ==
    answer' = [op |-> op, selector |-> sel, content |-> content,
               outcome |-> outcome, before |-> document]

\* Exceptions without a handler, which the client sees as a 500: those of the
\* parser, those of a locator, and, for several matches, the AttributeError that
\* generate_error meets on its way to a SelectorError (parse_node_selector leaves
\* an _original_selector, generate_error asks for the _original_string).
Unhandled == {"many", "raised", "parse_error"}

\* put_document validates the new document against the schema of the application,
\* which may refuse any, and its further constraints; the uniqueness failure says
\* what is there twice. It also parses the document again and looks at its encoding,
\* which is left out: TypeOK holds without that check.
PutDocument(op, sel, content, new, success) ==
    \/ /\ Acceptable(new)
       /\ document' = new /\ Answered(op, sel, content, success)
    \/ UNCHANGED document /\ Answered(op, sel, content, "schema_error")
    \/ /\ Allowed(new) /\ ~UniqueIn(new)
       /\ UNCHANGED document
       /\ answer' = [op |-> op, selector |-> sel, outcome |-> "not_unique", refused |-> new,
                     exists |-> XPath(new, FirstRepeat(new))]

PutWhole(new) ==
    /\ answer = NoAnswer
    /\ PutDocument("put_document", <<>>, new, new, "replaced")
    /\ UNCHANGED application

-----------------------------------------------------------------------------
GetElement(sel) ==
    /\ answer = NoAnswer
    /\ \E f \in {Find(document, sel)} :
         CASE f.is = "one"  -> Answered("get", sel, Found(document, f), "ok")
           [] f.is = "none" -> Answered("get", sel, <<>>, "not_found")
           [] f.is \in Unhandled -> Answered("get", sel, <<>>, f.is)
    /\ UNCHANGED <<application, document>>

\* Mutant: the element is not read back.
ReadBackUnread(p, body, back) ==
    [outcome |-> IF p.created THEN "created" ELSE "replaced", doc |-> p.doc]

\* The element is looked up in the new document before that is stored.
ReadBack(p, body, back) ==
    CASE back.is \in Unhandled -> [outcome |-> back.is]
      [] back.is = "none" \/ (back.is = "one" /\ Found(p.doc, back) # body) ->
           [outcome |-> "cannot_insert"]
      [] OTHER -> [outcome |-> IF p.created THEN "created" ELSE "replaced", doc |-> p.doc]

\* What _cb_put_element makes of put's result p. fix_star renames the step in the
\* selector of the request itself (copy is shallow), so sel is the fixed one here
\* too.
PutOutcome(p, sel, body) ==
    CASE p.is = "none" -> [outcome |-> "no_parent"]
      [] p.is \in Unhandled -> [outcome |-> p.is]
      [] p.is = "one" -> ReadBack(p, body, Find(p.doc, sel))

PutResult(doc, sel, body) ==
    PutOutcome(Put(doc, FixStar(sel, body), body), FixStar(sel, body), body)

PutElement(sel, body) ==
    /\ answer = NoAnswer
    /\ Len(document) + Len(body) <= MaxTags \/ document \in InitialDocuments
    /\ \E r \in {PutResult(document, sel, body)} :
         IF r.outcome \in {"created", "replaced"}
         THEN PutDocument("put", sel, body, r.doc, r.outcome)
         ELSE UNCHANGED document /\ Answered("put", sel, body, r.outcome)
    /\ UNCHANGED application

\* Mutant: the selector may still find an element after a DELETE.
DeleteOutcomeUnread(d, back) ==
    CASE d.is = "none" -> {[outcome |-> "not_found"]}
      [] d.is \in Unhandled -> {[outcome |-> d.is]}
      [] d.is = "one" ->
           IF d.doc = <<>> THEN {[outcome |-> "not_found"], [outcome |-> "parse_error"]}
           ELSE {[outcome |-> "deleted", doc |-> d.doc]}

\* The same for _cb_delete_element; back is what find returns for the new
\* document. Without the root there is nothing left to parse, or nothing left at
\* all if the document had no prolog.
DeleteOutcome(d, back) ==
    CASE d.is = "none" -> {[outcome |-> "not_found"]}
      [] d.is \in Unhandled -> {[outcome |-> d.is]}
      [] d.is = "one" ->
           CASE d.doc = <<>> -> {[outcome |-> "not_found"], [outcome |-> "parse_error"]}
             [] d.doc # <<>> /\ back.is \in Unhandled -> {[outcome |-> back.is]}
             [] back.is = "one" -> {[outcome |-> "cannot_delete"]}
             [] OTHER -> {[outcome |-> "deleted", doc |-> d.doc]}

DeleteResult(doc, sel) ==
    DeleteOutcome(Delete(doc, sel), Find(Delete(doc, sel).doc, sel))

DeleteElement(sel) ==
    /\ answer = NoAnswer
    /\ \E r \in DeleteResult(document, sel) :
         IF r.outcome = "deleted"
         THEN PutDocument("delete", sel, <<>>, r.doc, "deleted")
         ELSE UNCHANGED document /\ Answered("delete", sel, <<>>, r.outcome)
    /\ UNCHANGED application

\* The answer leaves.
Reply == answer # NoAnswer /\ answer' = NoAnswer /\ UNCHANGED <<application, document>>

Next ==
    \/ \E sel \in Selectors : GetElement(sel) \/ DeleteElement(sel)
    \/ \E sel \in Selectors, body \in Bodies : PutElement(sel, body)
    \/ \E new \in InitialDocuments : PutWhole(new)
    \/ Reply

Spec == Init /\ [][Next]_vars

-----------------------------------------------------------------------------
(***************************************************************************)
(* Properties                                                               *)
(***************************************************************************)

Operations == {"none", "get", "put", "delete", "put_document",
               "get_attribute", "put_attribute", "delete_attribute", "get_bindings"}

\* What is stored is one well-formed XML document: cutting and splicing text at
\* the offsets of a parser never leaves half an element behind.
TypeOK ==
    /\ WellFormed(document)
    /\ application \in {"resource-lists", "other"} /\ answer.op \in Operations

Succeeded(op) == answer.op = op /\ answer.outcome \in {"ok", "created", "replaced", "deleted"}

Fixed == FixStar(answer.selector, answer.content)

\* A GET returns the text of the element its selector stands for in the tree, if
\* there is one and only one, but without its end tag where fix_end_pos does not
\* see that. It says that there is none only if there is none, and ends as a
\* locator does for many (AmbiguityIsAnswered) only if there are many.
GetReturnsTheMatch ==
    answer.op = "get" =>
        LET found == Selected(document, answer.selector)
        IN  CASE answer.outcome = "ok" ->
                   \E i \in found :
                      /\ found = {i}
                      /\ answer.content = IF EndIsSeen(document, i) THEN TextOf(document, i)
                                         ELSE Front(TextOf(document, i))
              [] answer.outcome = "not_found" -> found = {}
              [] OTHER -> answer.outcome = "many" /\ Cardinality(found) > 1

\* A PUT that succeeds leaves the body as the one element its (fixed) selector
\* stands for, and the document is otherwise the one it read: the element it
\* replaced is what is gone, and nothing is if it created one.
PutChangesOneElement ==
    Succeeded("put") =>
        LET was == Selected(answer.before, Fixed)
        IN  \E i \in Selected(document, Fixed) :
              /\ Selected(document, Fixed) = {i} /\ TextOf(document, i) = answer.content
              /\ IF answer.outcome = "created"
                 THEN was = {} /\ Spliced(document, i - 1, EndOf(document, i), <<>>) = answer.before
                 ELSE \E j \in was :
                        /\ was = {j}
                        /\ document = Spliced(answer.before, j - 1, EndOf(answer.before, j),
                                              answer.content)

\* An element created by a selector without a position comes after all its
\* siblings of that name (RFC 4825, 8.2.3, tested in test/test_element_put.py).
CreatedComesLast ==
    answer.op = "put" /\ answer.outcome = "created" /\ Last(Fixed).position = Anywhere =>
        \A i \in Selected(document, Fixed) : \A j \in Alike(document, i, Last(Fixed)) : j <= i

\* DELETE of the selector that just created an element restores the document, or
\* is refused: it never takes another element away.
DeleteUndoesCreation ==
    answer.op = "put" /\ answer.outcome = "created" =>
        \A r \in DeleteResult(document, answer.selector) :
            r.outcome = "deleted" => r.doc = answer.before

\* A request that is sent again, because its answer was lost, changes nothing
\* more: a PUT replaces the element by itself, a DELETE does not go on to the
\* element that moved up.
RetryChangesNothing ==
    /\ Succeeded("put") =>
         PutResult(document, answer.selector, answer.content)
             = [outcome |-> "replaced", doc |-> document]
    /\ Succeeded("delete") =>
         \A r \in DeleteResult(document, answer.selector) : r.outcome # "deleted"

\* In a resource-lists document a selector by names and URIs stands for at most one
\* element: whatever was PUT, moved up, renamed or left without a name, by requests
\* for the document, its elements and their attributes.
NamesAreUnambiguous ==
    application = "resource-lists" =>
        \A sel \in Selectors :
            (\A k \in 2..Len(sel) : sel[k].att # AnyAtt /\ sel[k].name \in {ListTag, EntryTag})
            => Cardinality(Selected(document, sel)) <= 1

-----------------------------------------------------------------------------
(* Properties that the code does not have *)

\* "Return XPATH expression to obtain elem in the document" (get_xpath,
\* resourcelists.py:36; test_operations4 of test/test_resourcelists.py expects the
\* name that is there twice): what a uniqueness failure names is the element that
\* repeats another, or the other.
DuplicateIsNamed ==
    answer.op # "none" /\ answer.outcome = "not_unique" =>
        LET new == answer.refused
            elem == new[FirstRepeat(new)]
        IN  \E i \in Elements(new) :
              /\ Selected(new, answer.exists) = {i}
              /\ new[i].name = elem.name /\ new[i].att = elem.att

\* An ambiguous selector is an error of the client: a SelectorError, that is a
\* 404 (element.py:351, 362), and a 409 for a PUT (appusage/__init__.py:129).
AmbiguityIsAnswered == answer # NoAnswer => answer.outcome # "many"

\* What was PUT is what a GET of the same URI then returns: the comment on stars
\* in test_put2 (element.py:848-852) wants the original selector tried first, so
\* that "when if client uses non-fixed request next time, it will match exactly
\* once".
PutIsReadBack ==
    Succeeded("put") =>
        \E i \in Selected(document, answer.selector) :
            /\ Selected(document, answer.selector) = {i}
            /\ TextOf(document, i) = answer.content

\* "If not, it is inserted at appropriate place" (put, element.py:402): a PUT of
\* an element that its selector selects, under one parent that is there and has
\* an end tag, is not refused.
CreationFindsAPlace ==
    LET sel  == answer.selector
        body == answer.content[1]
    IN  answer.op = "put" /\ Len(sel) > 1 =>
          \/ answer.outcome # "cannot_insert"
          \/ Selected(answer.before, sel) # {}
          \/ Last(sel).position # Anywhere
          \/ ~(NameMatches(Last(sel), body) /\ AttMatches(Last(sel), body))
          \/ \A i \in Selected(answer.before, Front(sel)) :
               \/ Selected(answer.before, Front(sel)) # {i}
               \/ answer.before[i].kind = "empty"
=============================================================================
