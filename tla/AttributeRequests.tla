-------------------------- MODULE AttributeRequests --------------------------
(***************************************************************************)
(* GET, PUT and DELETE of an attribute and GET of namespace bindings:       *)
(* get_attribute, put_attribute, delete_attribute and get_ns_bindings of    *)
(* xcap/appusage/__init__.py, among the requests of ElementRequests. They   *)
(* find the element with XPath and write the tree out again, where element  *)
(* requests find it with a SAX handler and splice the text.                 *)
(***************************************************************************)
EXTENDS ElementRequests

CONSTANTS
    AttSelectors,  \* selectors of the elements whose attribute is asked for
    Values,        \* attribute values of the PUTs
    MaxAttTags     \* bound on the tags of a document, not an initial one, to write attributes of

ASSUME AttributesAssumption ==
    /\ MaxAttTags \in Nat /\ Values \subseteq STRING
    /\ \A sel \in AttSelectors : sel \in Seq(StepOf) /\ Len(sel) > 0

\* The attribute value that Python takes for false.
Blank == ""

\* replace_default_prefix writes a star as Step('*'), which is no XPath: lxml
\* raises, and the request ends as if nothing had been found.
StarFree(sel) == \A k \in DOMAIN sel : sel[k].name # Star

\* Mutant: the positions of a selector are not written into the XPath.
XPathWithoutPositions(doc, sel) ==
    IF StarFree(sel)
    THEN Selected(doc, [k \in DOMAIN sel |-> [sel[k] EXCEPT !.position = Anywhere]]) ELSE {}

\* The elements xpath() returns.
XPathMatches(doc, sel) == IF StarFree(sel) THEN Selected(doc, sel) ELSE {}

\* etree.tostring, one tag after another: an element with no content comes out as
\* one tag.
WrittenTag(out, t) ==
    IF t.kind = "close" /\ Last(out).kind = "open"
    THEN Append(Front(out), Empty(Last(out).name, Last(out).att))
    ELSE Append(out, t)

WrittenUpTo(doc) ==
    LET out[i \in 0..Len(doc)] == IF i = 0 THEN <<>> ELSE WrittenTag(out[i - 1], doc[i])
    IN  out

Written(doc) == WrittenUpTo(doc)[Len(doc)]

WithAtt(doc, i, value) == Written([doc EXCEPT ![i].att = value])

-----------------------------------------------------------------------------
\* The XPath ends in the attribute: elements without it do not make it ambiguous.
GetAttribute(sel) ==
    /\ answer = NoAnswer
    /\ LET having == {i \in XPathMatches(document, sel) : document[i].att # NoTag}
       IN  \/ \E i \in having :
                having = {i} /\ Answered("get_attribute", sel, document[i].att, "ok")
           \/ Cardinality(having) # 1 /\ Answered("get_attribute", sel, <<>>, "not_found")
    /\ UNCHANGED <<application, document>>

MayWrite == Len(document) <= MaxAttTags \/ document \in InitialDocuments

PutAttribute(sel, value) ==
    /\ answer = NoAnswer /\ MayWrite
    /\ LET found == XPathMatches(document, sel)
       IN  \/ \E i \in found :
                /\ found = {i}
                /\ PutDocument("put_attribute", sel, value, WithAtt(document, i, value), "replaced")
           \/ /\ Cardinality(found) # 1
              /\ Answered("put_attribute", sel, value, "no_parent") /\ UNCHANGED document
    /\ UNCHANGED application

\* Mutant: one of several elements is taken.
DeleteAttributeOfAny(sel) ==
    /\ answer = NoAnswer /\ MayWrite
    /\ \E i \in XPathMatches(document, sel) :
          /\ document[i].att # NoTag
          /\ PutDocument("delete_attribute", sel, <<>>, WithAtt(document, i, NoTag), "deleted")
    /\ UNCHANGED application

\* An attribute with an empty value is taken for one that is not there.
DeleteAttribute(sel) ==
    /\ answer = NoAnswer /\ MayWrite
    /\ LET found == XPathMatches(document, sel)
           gone(i) == found = {i} /\ document[i].att \notin {NoTag, Blank}
       IN  \/ \E i \in found :
                /\ gone(i)
                /\ PutDocument("delete_attribute", sel, <<>>, WithAtt(document, i, NoTag), "deleted")
           \/ /\ ~\E i \in found : gone(i)
              /\ Answered("delete_attribute", sel, <<>>, "not_found") /\ UNCHANGED document
    /\ UNCHANGED application

\* The bindings of the one element found; what they are is left out.
GetBindings(sel) ==
    /\ answer = NoAnswer
    /\ Answered("get_bindings", sel, <<>>,
                IF Cardinality(XPathMatches(document, sel)) = 1 THEN "ok" ELSE "not_found")
    /\ UNCHANGED <<application, document>>

AttributeNext ==
    \/ Next
    \/ \E sel \in AttSelectors :
          \/ GetAttribute(sel) \/ DeleteAttribute(sel) \/ GetBindings(sel)
          \/ \E value \in Values : PutAttribute(sel, value)

AttributeSpec == Init /\ [][AttributeNext]_vars

-----------------------------------------------------------------------------
(* Properties *)

AttributeWritten == answer.op \in {"put_attribute", "delete_attribute"}
                    /\ answer.outcome \in {"replaced", "deleted"}

\* The value of the attribute after the request.
NewValue == IF answer.op = "put_attribute" THEN answer.content ELSE NoTag

\* Two ways to find an element agree: an attribute is read from, written to or
\* removed from the element that an element request with the selector finds, and
\* from no other; and the selector of such an element is refused only for a star.
AttributeOfTheElement ==
    LET f == Find(answer.before, answer.selector)
    IN  /\ AttributeWritten =>
             /\ f.is = "one"
             /\ document = WithAtt(answer.before, f.start + 1, NewValue)
        /\ answer.op = "get_attribute" /\ answer.outcome = "ok" /\ f.is = "one" =>
             answer.content = document[f.start + 1].att
        /\ answer.op = "put_attribute" /\ answer.outcome = "no_parent" /\ f.is = "one" =>
             ~StarFree(answer.selector)

\* An attribute request sent again, because its answer was lost, changes nothing
\* more: its selector may not match any longer, but it never matches another
\* element, and the text written out once is written out the same.
AttributeRetryChangesNothing ==
    AttributeWritten =>
        \A i \in XPathMatches(document, answer.selector) :
            XPathMatches(document, answer.selector) = {i}
            => document = WithAtt(document, i, NewValue)

-----------------------------------------------------------------------------
(* Properties that the code does not have *)

\* "fails GET(PUT(x))==x test. must be rejected in the server" (a PUT of the
\* attribute its selector tests, test/test_attribute.py:61): the attribute that was
\* PUT is there for the selector.
AttributeIsReadBack ==
    answer.op = "put_attribute" /\ answer.outcome = "replaced" =>
        \E i \in XPathMatches(document, answer.selector) : document[i].att = answer.content
=============================================================================
