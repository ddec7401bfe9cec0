---------------------------- MODULE NodeLocator ----------------------------
(***************************************************************************)
(* Finding an element in an XML document, and the place where a new one    *)
(* goes: ElementLocator, InsertPointLocator, find, delete and put of        *)
(* xcap/element.py, with ElementSelector.fix_star of xcap/xpath.py.         *)
(*                                                                          *)
(* A document is the sequence of its tags: text, comments and whitespace    *)
(* are left out, and a byte offset becomes the number of tags before it.    *)
(* That keeps the two ways of writing an element without content apart:     *)
(* <a/> is one tag, for which the parser reports a start before it and an   *)
(* end after it; <a></a> is two, and the end is reported before </a>.       *)
(***************************************************************************)
EXTENDS Integers, Sequences, SequencesExt, FiniteSets

CONSTANTS
    Prefixed,  \* names of elements whose tags are written with a namespace prefix
    Wide       \* attribute values with characters that take more than one byte

AnyAtt   == "any"      \* no attribute test in a step
Anywhere == -1         \* no position in a step
Star     == "*"
Unset    == -1         \* no offset yet
NoTag    == "none"

Open(name, att)  == [kind |-> "open", name |-> name, att |-> att]
Close(name)      == [kind |-> "close", name |-> name, att |-> NoTag]
Empty(name, att) == [kind |-> "empty", name |-> name, att |-> att]

\* What the parser may report. A document is a sequence of tags.
Tag == {t \in [kind : {"open", "close", "empty"}, name : STRING \ {NoTag}, att : STRING \cup {NoTag}] :
          t.kind = "close" => t.att = NoTag}

\* A step of a node selector: name[position][@att="..."].
Step(name, position, att) == [name |-> name, position |-> position, att |-> att]

\* What read_step returns. A node selector is a sequence of steps.
StepOf == [name : STRING, position : Int, att : STRING]

(***************************************************************************)
(* A SAX handler: path is the chain of matched elements with the number of  *)
(* children counted under each, skip the depth below an element that did   *)
(* not match. (curstep of the code is always the length of path.)           *)
(***************************************************************************)
StartDocument ==
    [state |-> "LOOKING", path |-> <<>>, skip |-> 0,
     start |-> Unset, end |-> Unset, tag |-> NoTag, end2 |-> Unset]

EndAt(s, end, tag, end2) == [s EXCEPT !.end = end, !.tag = tag, !.end2 = end2]

\* The first tag after the element that was found.
NextTagSeen(s, pos) ==
    IF s.state = "DONE" /\ s.end2 = Unset THEN [s EXCEPT !.end2 = pos] ELSE s

Skipped(s) == [s EXCEPT !.skip = @ + 1]

Left(s) == [s EXCEPT !.path = Front(s.path)]

Raised(s) == [s EXCEPT !.state = "RAISED"]

NameMatches(step, t) == step.name \in {Star, t.name}

AttMatches(step, t) == step.att \in {AnyAtt, t.att}

\* Whether the element t, at the depth of the next step, is to be skipped at once.
Irrelevant(s, sel, t) ==
    \/ s.skip > 0
    \/ Len(s.path) >= Len(sel)
    \/ ~NameMatches(sel[Len(s.path) + 1], t)

\* parent.position += 1
CountedChild(s) ==
    IF s.path = <<>> THEN s ELSE [s EXCEPT !.path[Len(s.path)].position = @ + 1]

\* The position of the element just counted; a root is the first.
Rank(s) == IF s.path = <<>> THEN 1 ELSE Last(s.path).position

Mismatch(s, step, t) ==
    step.position \notin {Anywhere, Rank(s)} \/ ~AttMatches(step, t)

Entered(s, t) == [s EXCEPT !.path = Append(@, [name |-> t.name, position |-> 0])]

-----------------------------------------------------------------------------
(* ElementLocator *)

\* Mutant: a second match goes unnoticed.
MatchedFirst(s, pos) ==
    IF s.state = "LOOKING" THEN [s EXCEPT !.state = "FOUND", !.start = pos] ELSE s

\* Arriving at an element that matches every step.
Matched(s, pos) ==
    CASE s.state = "LOOKING" -> [s EXCEPT !.state = "FOUND", !.start = pos]
      [] s.state = "DONE"    -> [s EXCEPT !.state = "MANY"]
      [] OTHER               -> s

\* Counted under its parent, a child may still have the wrong rank or attribute.
Counted(s, step, sel, t, pos) ==
    IF Mismatch(s, step, t) THEN Skipped(s)
    ELSE IF Len(s.path) + 1 = Len(sel) THEN Matched(Entered(s, t), pos)
    ELSE Entered(s, t)

StartElement(s, sel, t, pos) ==
    IF Irrelevant(s, sel, t) THEN Skipped(s)
    ELSE Counted(CountedChild(s), sel[Len(s.path) + 1], sel, t, pos)

EndElement(s, sel, pos) ==
    IF s.skip > 0 THEN [s EXCEPT !.skip = @ - 1]
    ELSE IF Len(s.path) = Len(sel) /\ s.state = "FOUND"
         THEN Left(EndAt([s EXCEPT !.state = "DONE"], pos, Last(s.path).name, Unset))
    ELSE Left(s)

\* What the parser reports of tag i, t.
ElementEvents(s, sel, t, i) ==
    LET begin == StartElement(NextTagSeen(s, i - 1), sel, t, i - 1)
    IN  CASE t.kind = "open"  -> begin
          [] t.kind = "close" -> EndElement(NextTagSeen(s, i - 1), sel, i - 1)
          [] t.kind = "empty" -> EndElement(NextTagSeen(begin, i), sel, i)

\* The handler before the first and after each tag.
ElementStates(doc, sel) ==
    LET after[i \in 0..Len(doc)] ==
          IF i = 0 THEN StartDocument ELSE ElementEvents(after[i - 1], sel, doc[i], i)
    IN  after

ElementLocator(doc, sel) == ElementStates(doc, sel)[Len(doc)]

-----------------------------------------------------------------------------
(* InsertPointLocator *)

\* Before the first child with the name, for a last step with position 1.
InsertBefore(s, step, pos) ==
    IF step.position = 1 /\ Rank(s) = 1
    THEN EndAt([s EXCEPT !.state = "DONE"], pos, NoTag, pos)
    ELSE s

\* Steps above the last one have to match; the attribute of the last one does
\* not. The first step's position is compared with that of a parent the root
\* does not have.
StartSibling(s, sel, t, pos) ==
    LET step == sel[Len(s.path) + 1]
        last == Len(s.path) + 1 = Len(sel)
    IN  IF s.state = "RAISED" THEN s
        ELSE IF Irrelevant(s, sel, t) THEN Skipped(s)
        ELSE IF s.path = <<>> /\ IF last THEN step.position = 1 ELSE step.position # Anywhere
             THEN Raised(s)
        ELSE IF last THEN Entered(InsertBefore(CountedChild(s), step, pos), t)
        ELSE IF Mismatch(CountedChild(s), step, t) THEN Skipped(CountedChild(s))
        ELSE Entered(CountedChild(s), t)

\* Mutant: without a position, the first sibling with the name fixes the place.
InsertAfterFirst(s, step, pos) ==
    LET done(state) == EndAt([s EXCEPT !.state = IF @ = "DONE" THEN "MANY" ELSE state],
                             pos, Last(s.path).name, Unset)
    IN  IF step.position = Anywhere
        THEN IF s.state = "CLOSED" THEN s ELSE done("CLOSED")
        ELSE IF step.position - 1 = s.path[Len(s.path) - 1].position THEN done("DONE")
        ELSE s

\* After a sibling with the name: after the last one without a position, after
\* the one before it with a position.
InsertAfter(s, step, pos) ==
    LET done(state) == EndAt([s EXCEPT !.state = IF @ = "DONE" THEN "MANY" ELSE state],
                             pos, Last(s.path).name, Unset)
    IN  IF step.position = Anywhere THEN done("CLOSED")
        ELSE IF step.position - 1 = s.path[Len(s.path) - 1].position THEN done("DONE")
        ELSE s

\* At the end of the parent: before its end tag if no sibling gave a place.
InsertLast(s, step, pos) ==
    LET here == EndAt([s EXCEPT !.state = "DONE"], pos, NoTag, pos)
    IN  CASE s.state = "CLOSED" ->
               IF step.name = Star /\ step.position = Anywhere
               THEN here ELSE [s EXCEPT !.state = "DONE"]
          [] s.state = "LOOKING" -> here
          [] OTHER -> s

EndSibling(s, sel, pos) ==
    IF s.state = "RAISED" THEN s
    ELSE IF s.skip > 0 THEN [s EXCEPT !.skip = @ - 1]
    ELSE IF Len(s.path) = Len(sel)
         THEN IF Len(s.path) = 1 THEN Raised(s) ELSE Left(InsertAfter(s, Last(sel), pos))
    ELSE IF Len(s.path) + 1 = Len(sel) THEN Left(InsertLast(s, Last(sel), pos))
    ELSE Left(s)

SiblingEvents(s, sel, t, i) ==
    LET begin == StartSibling(NextTagSeen(s, i - 1), sel, t, i - 1)
    IN  CASE t.kind = "open"  -> begin
          [] t.kind = "close" -> EndSibling(NextTagSeen(s, i - 1), sel, i - 1)
          [] t.kind = "empty" -> EndSibling(NextTagSeen(begin, i), sel, i)

SiblingStates(doc, sel) ==
    LET after[i \in 0..Len(doc)] ==
          IF i = 0 THEN StartDocument ELSE SiblingEvents(after[i - 1], sel, doc[i], i)
    IN  after

InsertPointLocator(doc, sel) == SiblingStates(doc, sel)[Len(doc)]

-----------------------------------------------------------------------------
(* find, put and delete *)

(***************************************************************************)
(* The parser reports the end of <a></a> before </a>: fix_end_pos goes past *)
(* the next tag if it sees </a> before the tag after that. It looks for the *)
(* local name, and it counts characters where the parser counted bytes, so  *)
(* that after anything wide it looks too far on. (There it may yet see the  *)
(* end tag of another <a>; the byte it then takes is the same one, or, after *)
(* <a/>, not between two tags.)                                              *)
(***************************************************************************)
EndTagShows(doc, name, end) ==
    name \notin Prefixed /\ \A i \in 1..end : doc[i].att \notin Wide

FixedEnd(doc, s) ==
    LET upTo == IF s.end2 = Unset THEN Len(doc) ELSE s.end2
    IN  IF /\ s.tag # NoTag /\ EndTagShows(doc, s.tag, s.end)
           /\ \E i \in s.end + 1 .. upTo : doc[i] = Close(s.tag)
        THEN s.end + 1 ELSE s.end

Spliced(doc, start, end, body) ==
    SubSeq(doc, 1, start) \o body \o SubSeq(doc, end + 1, Len(doc))

\* The names of the elements that are open after tag t, if those of open were
\* before it. An end tag that ends nothing leaves a name behind that none ends.
Opened(open, t) ==
    CASE t.kind = "open"  -> Append(open, t.name)
      [] t.kind = "empty" -> open
      [] t.kind = "close" ->
           IF open # <<>> /\ Last(open) = t.name THEN Front(open) ELSE Append(open, NoTag)

\* After each tag.
OpenNames(doc) ==
    LET stack[i \in 0..Len(doc)] ==
          IF i = 0 THEN <<>> ELSE Opened(stack[i - 1], doc[i])
    IN  stack

\* A document the parser accepts: one root, its tags nested.
WellFormed(doc) ==
    LET stack == OpenNames(doc)
    IN  /\ Len(doc) > 0 /\ stack[Len(doc)] = <<>>
        /\ \A i \in 1..Len(doc) - 1 : stack[i] # <<>>

\* find: the only match as <<start, end>>, or why there is none. s is where the
\* locator ended.
Verdict(doc, s) ==
    IF ~WellFormed(doc) THEN [is |-> "parse_error"]
    ELSE CASE s.state = "DONE"    -> [is |-> "one", start |-> s.start, end |-> FixedEnd(doc, s)]
           [] s.state = "LOOKING" -> [is |-> "none"]
           [] OTHER               -> [is |-> "many"]

Find(doc, sel) == Verdict(doc, ElementLocator(doc, sel))

\* The content of what Find returned.
Found(doc, f) == SubSeq(doc, f.start + 1, f.end)

\* put: the new document and whether it has one element more, or why not. f is
\* what find returned, s where the other locator ended; p is the place.
\* The parser raises while it is still parsing: a RAISED locator wins.
Inserted(doc, p, body) ==
    [is |-> "one", created |-> TRUE, doc |-> Spliced(doc, p, p, body)]

Placed(doc, body, f, s) ==
    CASE f.is = "one" ->
           [is |-> "one", created |-> FALSE, doc |-> Spliced(doc, f.start, f.end, body)]
      [] f.is = "none" /\ s.state = "DONE" -> Inserted(doc, FixedEnd(doc, s), body)
      [] f.is = "none" /\ s.state # "DONE" ->
           [is |-> CASE s.state = "LOOKING" -> "none"
                     [] s.state = "MANY"    -> "many"
                     [] OTHER               -> "raised"]
      [] OTHER -> [is |-> f.is]

Put(doc, sel, body) == Placed(doc, body, Find(doc, sel), InsertPointLocator(doc, sel))

\* Mutant: the last character of the end tag is counted once more.
CutOneMore(doc, f) ==
    IF f.is = "one" THEN [is |-> "one", doc |-> Spliced(doc, f.start, f.end + 1, <<>>)]
    ELSE [is |-> f.is]

Cut(doc, f) ==
    IF f.is = "one" THEN [is |-> "one", doc |-> Spliced(doc, f.start, f.end, <<>>)]
    ELSE [is |-> f.is]

Delete(doc, sel) == Cut(doc, Find(doc, sel))

\* A star at the end takes the name of the element in the request.
FixStar(sel, body) ==
    IF Last(sel).name = Star /\ Last(sel).position = Anywhere
    THEN [sel EXCEPT ![Len(sel)].name = body[1].name]
    ELSE sel

-----------------------------------------------------------------------------
(***************************************************************************)
(* What the locators are measured against: the elements a selector stands   *)
(* for, read off the tree instead of the stream of tags.                    *)
(***************************************************************************)
Elements(doc) == {i \in 1..Len(doc) : doc[i].kind # "close"}

\* How many elements are open when tag i begins.
Depth(doc, i) ==
    Cardinality({j \in 1..i - 1 : doc[j].kind = "open"})
        - Cardinality({j \in 1..i - 1 : doc[j].kind = "close"})

\* The element i is a child of; 0 for the root.
Parent(doc, i) ==
    LET above == {j \in 1..i - 1 : doc[j].kind = "open" /\ Depth(doc, j) = Depth(doc, i) - 1}
    IN  IF above = {} THEN 0 ELSE CHOOSE j \in above : \A k \in above : k <= j

\* The tag that ends element i.
EndOf(doc, i) ==
    IF doc[i].kind = "empty" THEN i
    ELSE CHOOSE j \in i + 1 .. Len(doc) :
           /\ doc[j].kind = "close" /\ Depth(doc, j) = Depth(doc, i) + 1
           /\ \A k \in i + 1 .. j - 1 : doc[k].kind = "close" => Depth(doc, k) # Depth(doc, i) + 1

\* The siblings of element i, itself among them, that a step's name test selects.
Alike(doc, i, step) ==
    {j \in Elements(doc) : Parent(doc, j) = Parent(doc, i) /\ NameMatches(step, doc[j])}

\* Its place among them.
RankOf(doc, i, step) == Cardinality({j \in Alike(doc, i, step) : j <= i})

\* The children of given elements that a step selects.
Chosen(doc, parents, step) ==
    {i \in Elements(doc) :
        /\ Parent(doc, i) \in parents
        /\ NameMatches(step, doc[i]) /\ AttMatches(step, doc[i])
        /\ step.position \in {Anywhere, RankOf(doc, i, step)}}

\* The elements selected by the first k steps, for each k.
SelectedUpTo(doc, sel) ==
    LET upTo[k \in 0..Len(sel)] ==
          IF k = 0 THEN {0} ELSE Chosen(doc, upTo[k - 1], sel[k])
    IN  upTo

Selected(doc, sel) == SelectedUpTo(doc, sel)[Len(sel)]

TextOf(doc, i) == SubSeq(doc, i, EndOf(doc, i))

\* Whether what element i ends with can be told: it is one tag, or no character
\* of the text up to its end takes more than one byte and its tags have no prefix.
EndIsSeen(doc, i) ==
    \/ doc[i].kind = "empty"
    \/ doc[i].name \notin Prefixed /\ \A j \in 1..EndOf(doc, i) - 1 : doc[j].att \notin Wide
=============================================================================
