----------------------- MODULE AttributeRequests_proofs -----------------------
(***************************************************************************)
(* Theorems about ElementRequests and AttributeRequests: requests for the   *)
(* elements and attributes of documents of any size.                        *)
(***************************************************************************)
EXTENDS AttributeRequests, NodeLocator_proofs

-----------------------------------------------------------------------------
(* What requests carry.                                                     *)

LEMMA GivenParsed ==
    /\ \A d \in InitialDocuments \cup Bodies : Parsed(d)
    /\ \A sel \in Selectors \cup AttSelectors : SelectorOf(sel)
BY RequestsAssumption, AttributesAssumption DEF Parsed, SelectorOf

LEMMA FixStarIs ==
    ASSUME NEW sel, SelectorOf(sel), NEW body, Parsed(body)
    PROVE  /\ SelectorOf(FixStar(sel, body))
           /\ Len(FixStar(sel, body)) = Len(sel)
           /\ \A k \in 1..Len(sel) :
                /\ FixStar(sel, body)[k].position = sel[k].position
                /\ FixStar(sel, body)[k].att = sel[k].att
                /\ k < Len(sel) => FixStar(sel, body)[k] = sel[k]
<1> DEFINE n == Len(sel)
           name == body[1].name
           last == [sel[n] EXCEPT !.name = name]
           f == [sel EXCEPT ![n] = last]
<1>1. n \in Nat /\ n \in 1..n /\ DOMAIN sel = 1..n /\ \A k \in 1..n : sel[k] \in StepOf
  BY DEF SelectorOf
<1>2. name \in STRING
  <2>1. 1 \in 1..Len(body)
    BY Levels
  <2>2. body[1] \in Tag
    BY <2>1 DEF Parsed
  <2> QED
    BY <2>2 DEF Tag
<1>3. last \in StepOf /\ last.position = sel[n].position /\ last.att = sel[n].att
  BY <1>1, <1>2 DEF StepOf
<1>6. sel \in Seq(StepOf)
  BY DEF SelectorOf
<1> HIDE DEF last, n
<1>7. n = Len(sel)
  BY DEF n
<1>4. f \in Seq(StepOf) /\ Len(f) = n /\ f[n] = last /\ \A k \in 1..n - 1 : f[k] = sel[k]
  BY <1>1, <1>3, <1>6, <1>7, ExceptSeq
<1>5. FixStar(sel, body) \in {f, sel}
  BY <1>7 DEF FixStar, last
<1> HIDE DEF f
<1> QED
  BY <1>1, <1>3, <1>4, <1>5, <1>6, <1>7 DEF SelectorOf

-----------------------------------------------------------------------------
(* What find, put and delete return.                                        *)

LEMMA FindCases ==
    ASSUME NEW doc, doc \in Seq(Tag), NEW sel, SelectorOf(sel)
    PROVE  LET f == Find(doc, sel)
           IN  \/ ~WellFormed(doc) /\ f.is = "parse_error"
               \/ Parsed(doc) /\ f.is = "none" /\ Selected(doc, sel) = {}
               \/ /\ Parsed(doc) /\ f.is = "one"
                  /\ f.start \in 0..Len(doc) /\ f.end \in f.start + 1 .. Len(doc)
                  /\ f.start + 1 \in 1..Len(doc)
                  /\ doc[f.start + 1].kind \in {"open", "empty"}
                  /\ Selected(doc, sel) = {f.start + 1} /\ f.end = EndSeen(doc, f.start + 1)
                  /\ Found(doc, f) = SubSeq(doc, f.start + 1, EndSeen(doc, f.start + 1))
               \/ Parsed(doc) /\ f.is = "many" /\ \E c, d \in Selected(doc, sel) : c # d
<1> DEFINE f == Find(doc, sel)
           found == Selected(doc, sel)
<1>1. CASE ~WellFormed(doc)
  BY <1>1, FindOfOther
<1>2. CASE WellFormed(doc)
  <2>1. Parsed(doc) /\ Len(doc) \in Nat
    BY <1>2, TagType DEF Parsed
  <2>2. /\ found \subseteq 1..Len(doc)
        /\ \/ f = [is |-> "none"] /\ found = {}
           \/ \E c \in found : /\ found = {c} /\ EndSeen(doc, c) \in c..Len(doc)
                               /\ f = [is |-> "one", start |-> c - 1, end |-> EndSeen(doc, c)]
           \/ f = [is |-> "many"] /\ \E c, d \in found : c # d
    BY <2>1, FindIs
  <2> HIDE DEF f, found
  <2>3. CASE \E c \in found : /\ found = {c} /\ EndSeen(doc, c) \in c..Len(doc)
                              /\ f = [is |-> "one", start |-> c - 1, end |-> EndSeen(doc, c)]
    <3>1. PICK c \in found : /\ found = {c} /\ EndSeen(doc, c) \in c..Len(doc)
                             /\ f = [is |-> "one", start |-> c - 1, end |-> EndSeen(doc, c)]
      BY <2>3
    <3>2. f.is = "one" /\ f.start = c - 1 /\ f.end = EndSeen(doc, c)
      BY <3>1
    <3>3. c \in 1..Len(doc) /\ f.start + 1 = c
      BY <2>1, <2>2, <3>2
    <3>4. Found(doc, f) = SubSeq(doc, c, EndSeen(doc, c))
      BY <3>2, <3>3 DEF Found
    <3>6. doc[c].kind \in {"open", "empty"}
      BY <2>1, <3>1, SelectedOpen DEF found, Selected
    <3>5. f.start \in 0..Len(doc) /\ f.end \in f.start + 1 .. Len(doc)
      BY <2>1, <3>1, <3>2, <3>3
    <3> QED
      BY <2>1, <3>1, <3>2, <3>3, <3>4, <3>5, <3>6 DEF f, found
  <2>4. CASE f = [is |-> "none"] /\ found = {}
    BY <2>1, <2>4 DEF f, found
  <2>5. CASE f = [is |-> "many"] /\ \E c, d \in found : c # d
    BY <2>1, <2>5 DEF f, found
  <2> QED
    BY <2>2, <2>3, <2>4, <2>5
<1> QED
  BY <1>1, <1>2

(* Where the end tag is not seen, what find returns is no element, and       *)
(* nothing is left to parse when it is taken out or written over.           *)
LEMMA EndUnseen ==
    ASSUME NEW doc, NEW c, doc[c].kind \in {"open", "empty"}, EndSeen(doc, c) # EndOf(doc, c)
    PROVE  doc[c].kind = "open" /\ EndSeen(doc, c) = EndOf(doc, c) - 1
<1>1. ~EndIsSeen(doc, c) /\ EndSeen(doc, c) = EndOf(doc, c) - 1
  BY DEF EndSeen
<1> QED
  BY <1>1 DEF EndIsSeen

LEMMA ReadWhole ==
    ASSUME NEW doc, doc \in Seq(Tag), NEW sel, SelectorOf(sel), NEW body, Parsed(body),
           NEW f, f = Find(doc, sel), f.is = "one", Found(doc, f) = body
    PROVE  f.end = EndOf(doc, f.start + 1) /\ TextOf(doc, f.start + 1) = body
<1> DEFINE c == f.start + 1
<1>1. /\ Parsed(doc) /\ c \in 1..Len(doc) /\ doc[c].kind \in {"open", "empty"}
      /\ f.end = EndSeen(doc, c) /\ body = SubSeq(doc, c, EndSeen(doc, c))
  BY FindCases
<1> HIDE DEF c
<1>2. EndSeen(doc, c) = EndOf(doc, c)
  <2> SUFFICES ASSUME EndSeen(doc, c) # EndOf(doc, c) PROVE FALSE
    OBVIOUS
  <2>1. doc[c].kind = "open" /\ EndSeen(doc, c) = EndOf(doc, c) - 1
    BY <1>1, EndUnseen
  <2>2. body = SubSeq(doc, c, EndOf(doc, c) - 1)
    BY <1>1, <2>1
  <2> QED
    BY <1>1, <2>1, <2>2, HalfIsNone
<1> QED
  BY <1>1, <1>2 DEF c, TextOf

LEMMA CutWhole ==
    ASSUME NEW doc, Parsed(doc), NEW sel, SelectorOf(sel), NEW body, body = <<>> \/ Parsed(body),
           NEW f, f = Find(doc, sel), f.is = "one", Parsed(Spliced(doc, f.start, f.end, body))
    PROVE  f.end = EndOf(doc, f.start + 1)
<1> DEFINE c == f.start + 1
<1>1. /\ c \in 1..Len(doc) /\ doc[c].kind \in {"open", "empty"}
      /\ f.end = EndSeen(doc, c) /\ f.start = c - 1
  <2>1. doc \in Seq(Tag) /\ WellFormed(doc) /\ f.is # "none" /\ f.is # "many" /\ f.is # "parse_error"
    BY DEF Parsed
  <2> HIDE DEF c
  <2>2. /\ f.start + 1 \in 1..Len(doc) /\ doc[f.start + 1].kind \in {"open", "empty"}
        /\ f.end = EndSeen(doc, f.start + 1)
    BY <2>1, FindCases
  <2>3. c = f.start + 1
    BY DEF c
  <2>4. f.start \in 0..Len(doc) /\ Len(doc) \in Nat
    BY <2>1, FindCases, Levels
  <2>5. c - 1 = f.start
    BY ONLY <2>3, <2>4
  <2> QED
    BY <2>2, <2>3, <2>5
<1>2. Parsed(Spliced(doc, c - 1, EndSeen(doc, c), body))
  BY <1>1
<1> HIDE DEF c
<1>3. EndSeen(doc, c) = EndOf(doc, c)
  <2> SUFFICES ASSUME EndSeen(doc, c) # EndOf(doc, c) PROVE FALSE
    OBVIOUS
  <2>1. doc[c].kind = "open" /\ EndSeen(doc, c) = EndOf(doc, c) - 1
    BY <1>1, EndUnseen
  <2> QED
    BY <1>1, <1>2, <2>1, HalfIsMissed
<1> QED
  BY <1>1, <1>3 DEF c

\* Answers to a request that changed nothing.
Refusals == Unhandled \cup {"no_parent", "not_found", "cannot_insert", "cannot_delete",
                            "schema_error", "not_unique"}

LEMMA ReadBackIs ==
    ASSUME NEW p, NEW body, NEW back, back.is \in {"one", "none", "many", "parse_error"},
           NEW r, r = ReadBack(p, body, back)
    PROVE  \/ r.outcome \in Refusals
           \/ /\ back.is = "one" /\ Found(p.doc, back) = body
              /\ r = [outcome |-> IF p.created THEN "created" ELSE "replaced", doc |-> p.doc]
<1> DEFINE differs == back.is = "none" \/ (back.is = "one" /\ Found(p.doc, back) # body)
<1>1. back.is \in Unhandled => ~differs
  BY DEF Unhandled
<1>2. back.is \in Unhandled => r = [outcome |-> back.is]
  BY <1>1, Zenon DEF ReadBack
<1>3. differs => r = [outcome |-> "cannot_insert"]
  BY <1>1, Zenon DEF ReadBack
<1>4. back.is \notin Unhandled /\ ~differs =>
        r = [outcome |-> IF p.created THEN "created" ELSE "replaced", doc |-> p.doc]
  BY Zenon DEF ReadBack
<1>5. back.is \in Unhandled => r.outcome \in Refusals
  BY <1>2 DEF Unhandled, Refusals
<1>6. differs => r.outcome \in Refusals
  BY <1>3 DEF Refusals
<1> QED
  BY <1>4, <1>5, <1>6 DEF Unhandled

(* A PUT that succeeds: with the fixed selector, the element that find       *)
(* returns for the new document is the body.                                *)
PutOf(doc, sel, body, new, created) ==
    LET f == Find(doc, sel)
        s == InsertPointLocator(doc, sel)
        back == Find(new, sel)
    IN  /\ back.is = "one" /\ Found(new, back) = body
        /\ \/ /\ ~created /\ f.is = "one"
              /\ new = Spliced(doc, f.start, f.end, body)
           \/ /\ created /\ f.is = "none" /\ s.state = "DONE"
              /\ FixedEnd(doc, s) \in 0..Len(doc)
              /\ new = Spliced(doc, FixedEnd(doc, s), FixedEnd(doc, s), body)

LEMMA PlacedIs ==
    ASSUME NEW doc, NEW body, NEW f, f.is \in {"one", "none", "many", "parse_error"}, NEW s,
           NEW p, p = Placed(doc, body, f, s)
    PROVE  /\ f.is = "one" =>
                p = [is |-> "one", created |-> FALSE, doc |-> Spliced(doc, f.start, f.end, body)]
           /\ f.is = "none" /\ s.state = "DONE" => p = Inserted(doc, FixedEnd(doc, s), body)
           /\ f.is = "none" /\ s.state # "DONE" => p.is \in {"none", "many", "raised"}
           /\ f.is \in {"many", "parse_error"} => p.is \in {"many", "parse_error"}
<1>0. "one" # "none"
  OBVIOUS
<1>1. f.is = "one" =>
        p = [is |-> "one", created |-> FALSE, doc |-> Spliced(doc, f.start, f.end, body)]
  BY <1>0, Zenon DEF Placed
<1>2. f.is = "none" /\ s.state = "DONE" => p = Inserted(doc, FixedEnd(doc, s), body)
  BY <1>0, Zenon DEF Placed
<1> DEFINE why == CASE s.state = "LOOKING" -> "none"
                    [] s.state = "MANY"    -> "many"
                    [] OTHER               -> "raised"
<1>3. why \in {"none", "many", "raised"}
  <2>1. s.state = "LOOKING" => s.state # "MANY"
    OBVIOUS
  <2> QED
    BY <2>1, Zenon
<1>4. f.is = "none" /\ s.state # "DONE" => p = [is |-> why]
  BY <1>0, Zenon DEF Placed
<1>5. f.is # "one" /\ f.is # "none" => p = [is |-> f.is]
  BY <1>0, Zenon DEF Placed
<1> HIDE DEF why
<1>6. f.is = "none" /\ s.state # "DONE" => p.is \in {"none", "many", "raised"}
  BY <1>3, <1>4
<1>7. f.is \in {"many", "parse_error"} => p.is \in {"many", "parse_error"}
  BY <1>5
<1> QED
  BY <1>1, <1>2, <1>6, <1>7

LEMMA PutIs ==
    ASSUME NEW doc, Parsed(doc), NEW sel, SelectorOf(sel), NEW body, Parsed(body),
           NEW r, r = PutResult(doc, sel, body)
    PROVE  \/ r.outcome \in Refusals
           \/ /\ r.outcome \in {"created", "replaced"}
              /\ r = [outcome |-> r.outcome, doc |-> r.doc]
              /\ Parsed(r.doc)
              /\ PutOf(doc, FixStar(sel, body), body, r.doc, r.outcome = "created")
<1> DEFINE fixed == FixStar(sel, body)
           f == Find(doc, fixed)
           s == InsertPointLocator(doc, fixed)
           p == Placed(doc, body, f, s)
           back == Find(p.doc, fixed)
<1>1. SelectorOf(fixed)
  BY FixStarIs
<1>2. r = PutOutcome(p, fixed, body)
  BY DEF PutResult, Put
<1>3. /\ f.is \in {"one", "none", "many", "parse_error"}
      /\ f.is = "one" => f.start \in 0..Len(doc) /\ f.end \in f.start + 1 .. Len(doc)
  BY <1>1, FindCases DEF Parsed
<1>4. s.state = "DONE" => FixedEnd(doc, s) \in 0..Len(doc)
  BY PlaceIsInside DEF Parsed
<1>5. doc \in Seq(Tag) /\ body \in Seq(Tag) /\ Len(doc) \in Nat
  BY TagType DEF Parsed
<1> HIDE DEF fixed, s, f
<1>6. /\ f.is = "one" =>
           p = [is |-> "one", created |-> FALSE, doc |-> Spliced(doc, f.start, f.end, body)]
      /\ f.is = "none" /\ s.state = "DONE" => p = Inserted(doc, FixedEnd(doc, s), body)
      /\ f.is = "none" /\ s.state # "DONE" => p.is \in {"none", "many", "raised"}
      /\ f.is \in {"many", "parse_error"} => p.is \in {"many", "parse_error"}
  BY <1>3, PlacedIs
<1> HIDE DEF p
<1>7. p.is \in {"one", "none", "many", "parse_error", "raised"}
  BY <1>3, <1>6 DEF Inserted
<1>8. r.outcome \in Refusals \/ (p.is = "one" /\ r = ReadBack(p, body, back))
  <2>0. "one" # "none" /\ "none" \notin Unhandled /\ "one" \notin Unhandled
    BY DEF Unhandled
  <2>1. p.is = "none" => r = [outcome |-> "no_parent"]
    BY <1>2, <2>0, Zenon DEF PutOutcome
  <2>2. p.is \in Unhandled => r = [outcome |-> p.is]
    BY <1>2, <2>0, Zenon DEF PutOutcome
  <2>3. p.is = "one" => r = ReadBack(p, body, back)
    BY <1>2, <2>0, Zenon DEF PutOutcome
  <2>4. p.is = "none" => r.outcome \in Refusals
    BY <2>1 DEF Refusals
  <2>5. p.is \in Unhandled => r.outcome \in Refusals
    BY <2>2 DEF Refusals
  <2> QED
    BY <1>7, <2>3, <2>4, <2>5 DEF Unhandled
<1> SUFFICES ASSUME p.is = "one", r = ReadBack(p, body, back), r.outcome \notin Refusals
             PROVE  /\ r.outcome \in {"created", "replaced"}
                    /\ r = [outcome |-> r.outcome, doc |-> r.doc]
                    /\ Parsed(r.doc)
                    /\ PutOf(doc, fixed, body, r.doc, r.outcome = "created")
  BY <1>8 DEF fixed
<1>9. \/ /\ f.is = "one" /\ p.created = FALSE
         /\ p.doc = Spliced(doc, f.start, f.end, body)
      \/ /\ f.is = "none" /\ s.state = "DONE" /\ p.created = TRUE
         /\ FixedEnd(doc, s) \in 0..Len(doc)
         /\ p.doc = Spliced(doc, FixedEnd(doc, s), FixedEnd(doc, s), body)
  BY <1>3, <1>4, <1>6 DEF Inserted
<1>10. p.doc \in Seq(Tag)
  <2>1. f.is = "one" => f.start \in 0..Len(doc) /\ f.end \in 0..Len(doc)
    BY <1>3, <1>5
  <2> QED
    BY <1>5, <1>9, <2>1, SplicedType
<1>11. back.is \in {"one", "none", "many", "parse_error"} /\ (back.is = "one" => Parsed(p.doc))
  BY <1>1, <1>10, FindCases
<1>12. /\ back.is = "one" /\ Found(p.doc, back) = body
       /\ r = [outcome |-> IF p.created THEN "created" ELSE "replaced", doc |-> p.doc]
  BY <1>11, ReadBackIs
<1>13. r.doc = p.doc /\ r.outcome \in {"created", "replaced"} /\ (r.outcome = "created" <=> p.created)
  BY <1>9, <1>12
<1> QED
  BY <1>9, <1>11, <1>12, <1>13 DEF PutOf, fixed, f, s

LEMMA DeleteIs ==
    ASSUME NEW doc, Parsed(doc), NEW sel, SelectorOf(sel),
           NEW r \in DeleteResult(doc, sel)
    PROVE  LET f == Find(doc, sel)
           IN  \/ r.outcome \in Refusals
               \/ /\ r = [outcome |-> "deleted", doc |-> r.doc]
                  /\ Parsed(r.doc)
                  /\ f.is = "one" /\ r.doc = Spliced(doc, f.start, f.end, <<>>)
                  /\ Find(r.doc, sel).is = "none"
<1> DEFINE f == Find(doc, sel)
           d == Cut(doc, f)
           back == Find(d.doc, sel)
<1>1. r \in DeleteOutcome(d, back)
  BY DEF DeleteResult, Delete
<1>2. /\ f.is \in {"one", "none", "many"}
      /\ f.is = "one" => f.start \in 0..Len(doc) /\ f.end \in f.start + 1 .. Len(doc)
  BY FindCases DEF Parsed
<1> HIDE DEF f
<1>3. /\ f.is = "one" => d = [is |-> "one", doc |-> Spliced(doc, f.start, f.end, <<>>)]
      /\ f.is # "one" => d = [is |-> f.is]
  BY DEF Cut
<1> HIDE DEF d
<1>0. "one" # "none" /\ "none" \notin Unhandled /\ "one" \notin Unhandled
  BY DEF Unhandled
<1>4. d.is # "one" => r.outcome \in Refusals
  <2>1. d.is = "none" => r.outcome \in Refusals
    <3>1. d.is = "none" => DeleteOutcome(d, back) = {[outcome |-> "not_found"]}
      BY <1>0, Zenon DEF DeleteOutcome
    <3> QED
      BY <1>1, <3>1 DEF Refusals
  <2>2. d.is \in Unhandled => r.outcome \in Refusals
    <3>1. d.is \in Unhandled => DeleteOutcome(d, back) = {[outcome |-> d.is]}
      BY <1>0, Zenon DEF DeleteOutcome
    <3> QED
      BY <1>1, <3>1 DEF Refusals
  <2>3. d.is # "one" => d.is = "none" \/ d.is \in Unhandled
    BY <1>2, <1>3 DEF Unhandled
  <2> QED
    BY <2>1, <2>2, <2>3
<1> SUFFICES ASSUME d.is = "one", r.outcome \notin Refusals
             PROVE  /\ r = [outcome |-> "deleted", doc |-> r.doc]
                    /\ Parsed(r.doc)
                    /\ f.is = "one" /\ r.doc = Spliced(doc, f.start, f.end, <<>>)
                    /\ Find(r.doc, sel).is = "none"
  BY <1>4 DEF f
<1>5. f.is = "one" /\ d.doc = Spliced(doc, f.start, f.end, <<>>) /\ d.doc \in Seq(Tag)
  <2>1. f.is = "one"
    BY <1>3
  <2>2. d.doc = Spliced(doc, f.start, f.end, <<>>)
    BY <1>3, <2>1
  <2>3. doc \in Seq(Tag) /\ <<>> \in Seq(Tag) /\ f.start \in 0..Len(doc) /\ f.end \in 0..Len(doc)
    BY <1>2, <2>1, TagType DEF Parsed
  <2>4. Spliced(doc, f.start, f.end, <<>>) \in Seq(Tag)
    BY <2>3, SplicedType
  <2> QED
    BY <2>1, <2>2, <2>4
<1>6. back.is \in {"one", "none", "many", "parse_error"} /\ (back.is = "none" => Parsed(d.doc))
  BY <1>5, FindCases
<1> HIDE DEF back
<1>7. back.is = "none" /\ r = [outcome |-> "deleted", doc |-> d.doc]
  <2> DEFINE bad == d.doc # <<>> /\ back.is \in Unhandled
             rest == CASE d.doc = <<>> -> {[outcome |-> "not_found"], [outcome |-> "parse_error"]}
                       [] bad -> {[outcome |-> back.is]}
                       [] back.is = "one" -> {[outcome |-> "cannot_delete"]}
                       [] OTHER -> {[outcome |-> "deleted", doc |-> d.doc]}
  <2>1. DeleteOutcome(d, back) = rest
    BY <1>0, Zenon DEF DeleteOutcome
  <2>2. \/ r \in {[outcome |-> "not_found"], [outcome |-> "parse_error"], [outcome |-> "cannot_delete"]}
        \/ bad /\ r = [outcome |-> back.is]
        \/ ~bad /\ back.is # "one" /\ d.doc # <<>> /\ r = [outcome |-> "deleted", doc |-> d.doc]
    BY <1>1, <2>1, Zenon
  <2>3. r \notin {[outcome |-> "not_found"], [outcome |-> "parse_error"], [outcome |-> "cannot_delete"]}
        /\ ~(bad /\ r = [outcome |-> back.is])
    BY DEF Refusals, Unhandled
  <2>4. ~bad /\ back.is # "one" /\ d.doc # <<>> /\ r = [outcome |-> "deleted", doc |-> d.doc]
    BY <2>2, <2>3, Zenon
  <2> QED
    BY <1>6, <2>4 DEF Unhandled
<1>8. r.doc = d.doc
  BY <1>7
<1> QED
  BY <1>5, <1>6, <1>7, <1>8 DEF f, back

-----------------------------------------------------------------------------
(* etree.tostring: the same elements, those without content as one tag.     *)

LEMMA WrittenUpToDef ==
    ASSUME NEW doc, Len(doc) \in Nat
    PROVE  WrittenUpTo(doc) =
             [i \in 0..Len(doc) |->
                IF i = 0 THEN <<>> ELSE WrittenTag(WrittenUpTo(doc)[i - 1], doc[i])]
<1> DEFINE Rec(f, n) ==
             f = [i \in 0..n |-> IF i = 0 THEN <<>> ELSE WrittenTag(f[i - 1], doc[i])]
           S == {n \in Nat : \E f : Rec(f, n)}
<1>1. 0 \in S
  <2>1. Rec([i \in 0..0 |-> <<>>], 0)
    OBVIOUS
  <2> QED
    BY <2>1
<1>2. ASSUME NEW n \in 1..Len(doc), n - 1 \in S PROVE n \in S
  <2>1. PICK f : Rec(f, n - 1)
    BY <1>2
  <2> DEFINE g == [i \in 0..n |-> IF i = n THEN WrittenTag(f[n - 1], doc[n]) ELSE f[i]]
  <2>2. ASSUME NEW i \in 0..n
        PROVE  g[i] = IF i = 0 THEN <<>> ELSE WrittenTag(g[i - 1], doc[i])
    BY <2>1
  <2>3. Rec(g, n) /\ n \in Nat
    BY <2>2
  <2> HIDE DEF Rec, g
  <2> QED
    BY <2>3
<1>3. Len(doc) \in S
  <2> HIDE DEF S
  <2>1. 0..Len(doc) \subseteq S
    BY <1>1, <1>2, Induction
  <2> QED
    BY <2>1
<1>4. \E f : Rec(f, Len(doc))
  BY <1>3
<1> QED
  BY <1>4 DEF WrittenUpTo


\* What is written of the first i tags.
WrittenWell(doc, out, i) ==
    /\ out \in Seq(Tag) /\ Len(out) \in Nat /\ (Len(out) = 0 <=> i = 0)
    /\ OpenNames(out)[Len(out)] = OpenNames(doc)[i]
    /\ \A k \in 1..Len(out) - 1 : OpenNames(out)[k] # <<>>

LEMMA AppendedNames ==
    ASSUME NEW out \in Seq(Tag), NEW t \in Tag
    PROVE  LET new == Append(out, t)
           IN  /\ new \in Seq(Tag) /\ Len(new) = Len(out) + 1 /\ Len(out) \in Nat
               /\ new[Len(new)] = t /\ \A k \in 1..Len(out) : new[k] = out[k]
               /\ \A k \in 0..Len(out) : OpenNames(new)[k] = OpenNames(out)[k]
               /\ OpenNames(new)[Len(new)] = Opened(OpenNames(out)[Len(out)], t)
<1> DEFINE n == Len(out)
           new == Append(out, t)
<1>1. /\ new \in Seq(Tag) /\ Len(new) = n + 1 /\ n \in Nat
      /\ new[n + 1] = t /\ \A k \in 1..n : new[k] = out[k]
  BY AppendProperties, LenProperties
<1> HIDE DEF new
<1>2. \A k \in 0..n : OpenNames(new)[k] = OpenNames(out)[k]
  BY <1>1, OpenNamesSame
<1>3. OpenNames(new)[n + 1] = Opened(OpenNames(new)[n], new[n + 1])
  <2>1. n + 1 \in 1..Len(new) /\ n + 1 - 1 = n
    BY <1>1
  <2>2. OpenNames(new)[n + 1] = Opened(OpenNames(new)[n + 1 - 1], new[n + 1])
    BY <1>1, <2>1, OpenNamesStep
  <2> QED
    BY <2>1, <2>2
<1>4. OpenNames(new)[n + 1] = Opened(OpenNames(out)[n], t)
  BY <1>1, <1>2, <1>3
<1> QED
  BY <1>1, <1>2, <1>4 DEF new

LEMMA WrittenTagWell ==
    ASSUME NEW doc, Parsed(doc), NEW i \in 1..Len(doc), NEW out, WrittenWell(doc, out, i - 1)
    PROVE  WrittenWell(doc, WrittenTag(out, doc[i]), i)
<1> DEFINE t == doc[i]
           n == Len(out)
           was == OpenNames(doc)[i - 1]
           now == OpenNames(doc)[i]
<1>0. /\ doc \in Seq(Tag) /\ t \in Tag /\ out \in Seq(Tag) /\ n \in Nat /\ i - 1 \in Nat
      /\ n = 0 <=> i = 1
      /\ now = Opened(was, t)
      /\ OpenNames(out)[n] = was
      /\ \A k \in 1..n - 1 : OpenNames(out)[k] # <<>>
  BY TagType, OpenNamesStep DEF Parsed, WrittenWell
<1>1. i > 1 => was # <<>>
  BY TagType DEF Parsed, WellFormed
<1>2. CASE t.kind = "close" /\ Last(out).kind = "open"
  <2>1. was # <<>> /\ Last(was) = t.name
    BY <1>2, EndTagsMatch
  <2>2. out # <<>> /\ n > 0
    <3>1. i # 1
      BY <1>0, <2>1, OpenNamesStep
    <3> QED
      BY <1>0, <3>1
  <2> DEFINE u == Last(out)
             e == Empty(u.name, u.att)
             front == Front(out)
             new == Append(front, e)
  <2>3. /\ front \in Seq(Tag) /\ Len(front) = n - 1 /\ \A k \in 1..n - 1 : front[k] = out[k]
        /\ u = out[n] /\ u \in Tag
    <3>1. n \in 1..n /\ out[n] \in Tag
      BY <1>0, <2>2, ElementOfSeq
    <3>2. /\ Front(out) \in Seq(Tag) /\ Len(Front(out)) = Len(out) - 1
          /\ \A k \in 1..Len(out) - 1 : Front(out)[k] = out[k]
          /\ Last(out) = out[Len(out)]
      BY ONLY <1>0, <2>2, FrontOf
    <3> QED
      BY <3>1, <3>2
  <2>4. e \in Tag
    <3> HIDE DEF u
    <3> QED
      BY <2>3 DEF Tag, Empty
  <2>5. WrittenTag(out, t) = new
    BY <1>2 DEF WrittenTag
  <2> HIDE DEF front, e
  <2>6. /\ new \in Seq(Tag) /\ Len(new) = n
        /\ \A k \in 0..n - 1 : OpenNames(new)[k] = OpenNames(front)[k]
        /\ OpenNames(new)[n] = Opened(OpenNames(front)[n - 1], e)
    BY <1>0, <2>3, <2>4, AppendedNames
  <2> HIDE DEF new
  <2>7. \A k \in 0..n - 1 : OpenNames(front)[k] = OpenNames(out)[k]
    <3>1. n - 1 \in Nat /\ n - 1 <= Len(front) /\ n - 1 <= Len(out) /\ front \in Seq(Tag) /\ out \in Seq(Tag)
          /\ \A k \in 1..n - 1 : front[k].kind = out[k].kind /\ front[k].name = out[k].name
      BY <1>0, <2>2, <2>3
    <3> QED
      BY ONLY <3>1, OpenNamesSame
  <2>8. OpenNames(out)[n] = Append(OpenNames(out)[n - 1], u.name)
    <3>1. n \in 1..Len(out) /\ out[n].kind = "open"
      BY <1>0, <1>2, <2>2, <2>3
    <3> QED
      BY <1>0, <2>3, <3>1, OpenedCases
  <2>9. Opened(OpenNames(front)[n - 1], e) = OpenNames(front)[n - 1]
    <3>1. e.kind = "empty" /\ "empty" # "open" /\ "empty" # "close"
      BY DEF e, Empty
    <3> QED
      BY <3>1, Zenon DEF Opened
  <2>10. now = Front(was)
    BY <1>2, <2>1, <1>0, OpenedCases
  <2>11. Front(Append(OpenNames(out)[n - 1], u.name)) = OpenNames(out)[n - 1]
    <3> DEFINE l == OpenNames(out)[n - 1]
    <3>1. l \in Seq(Label) /\ u.name \in Label
      <4>1. n - 1 \in 0..n /\ n \in 1..n
        BY <1>0, <2>2
      <4>2. l \in Seq(Label)
        BY <1>0, <4>1, OpenNamesType
      <4>3. out[n].name \in Label
        BY <1>0, <4>1, TagType
      <4> QED
        BY <2>3, <4>2, <4>3
    <3> HIDE DEF l, u
    <3> DEFINE a == Append(l, u.name)
    <3>2. a \in Seq(Label) /\ Len(a) = Len(l) + 1 /\ Len(l) \in Nat /\ \A k \in 1..Len(l) : a[k] = l[k]
      BY <3>1, AppendProperties, LenProperties
    <3> HIDE DEF a
    <3>3. a # <<>>
      BY <3>2
    <3>6. Len(a) - 1 = Len(l)
      BY <3>2
    <3>4. Front(a) \in Seq(Label) /\ Len(Front(a)) = Len(l) /\ \A k \in 1..Len(l) : Front(a)[k] = l[k]
      <4>1. Front(a) \in Seq(Label) /\ Len(Front(a)) = Len(a) - 1 /\ \A k \in 1..Len(a) - 1 : Front(a)[k] = a[k]
        BY ONLY <3>2, <3>3, FrontOf
      <4> QED
        BY <3>2, <3>6, <4>1
    <3>5. Front(a) = l
      BY <3>1, <3>4, SeqEqual
    <3> QED
      BY <3>5 DEF a, l
  <2>12. OpenNames(new)[n] = now
    BY <1>0, <2>2, <2>6, <2>7, <2>8, <2>9, <2>10, <2>11
  <2>13. \A k \in 1..n - 1 : OpenNames(new)[k] # <<>>
    BY <1>0, <2>6, <2>7
  <2>14. i # 0 /\ n # 0
    BY <2>2
  <2> QED
    BY <1>0, <2>5, <2>6, <2>12, <2>13, <2>14 DEF WrittenWell
<1>3. CASE ~(t.kind = "close" /\ Last(out).kind = "open")
  <2> DEFINE new == Append(out, t)
  <2>1. WrittenTag(out, t) = new
    BY <1>3 DEF WrittenTag
  <2>2. /\ new \in Seq(Tag) /\ Len(new) = n + 1
        /\ \A k \in 0..n : OpenNames(new)[k] = OpenNames(out)[k]
        /\ OpenNames(new)[n + 1] = Opened(OpenNames(out)[n], t)
    BY <1>0, AppendedNames
  <2> HIDE DEF new
  <2>3. \A k \in 1..n : OpenNames(new)[k] # <<>>
    <3>1. n > 0 => OpenNames(out)[n] # <<>>
      BY <1>0, <1>1
    <3> QED
      BY <1>0, <2>2, <3>1
  <2>4. i # 0 /\ n + 1 # 0 /\ n + 1 - 1 = n
    BY <1>0
  <2>5. OpenNames(new)[n + 1] = now
    BY <1>0, <2>2
  <2> QED
    BY <1>0, <2>1, <2>2, <2>3, <2>4, <2>5 DEF WrittenWell
<1> QED
  BY <1>2, <1>3

LEMMA WrittenUpToWell ==
    ASSUME NEW doc, Parsed(doc)
    PROVE  \A i \in 0..Len(doc) : WrittenWell(doc, WrittenUpTo(doc)[i], i)
<1> DEFINE n == Len(doc)
           S == {i \in 0..n : WrittenWell(doc, WrittenUpTo(doc)[i], i)}
<1>0. n \in Nat \ {0}
  BY Levels
<1>1. 0 \in S
  <2>1. WrittenUpTo(doc)[0] = <<>>
    BY <1>0, WrittenUpToDef
  <2>2. <<>> \in Seq(Tag) /\ Len(<<>>) = 0
    OBVIOUS
  <2>3. OpenNames(<<>>)[0] = <<>> /\ OpenNames(doc)[0] = <<>>
    BY <2>2, OpenNamesStep DEF Parsed
  <2> DEFINE e == <<>>
  <2>4. e \in Seq(Tag) /\ Len(e) = 0 /\ OpenNames(e)[0] = OpenNames(doc)[0]
    BY <2>2, <2>3
  <2> HIDE DEF e
  <2>5. WrittenWell(doc, e, 0)
    BY <2>4 DEF WrittenWell
  <2> QED
    BY <1>0, <2>1, <2>5 DEF e
<1>2. ASSUME NEW i \in 1..n, i - 1 \in S PROVE i \in S
  <2>1. WrittenUpTo(doc)[i] = WrittenTag(WrittenUpTo(doc)[i - 1], doc[i])
    BY <1>0, WrittenUpToDef
  <2>2. WrittenWell(doc, WrittenUpTo(doc)[i - 1], i - 1)
    BY <1>2
  <2> QED
    BY <2>1, <2>2, WrittenTagWell
<1> HIDE DEF S
<1>3. 0..n \subseteq S
  BY <1>0, <1>1, <1>2, Induction
<1> QED
  BY <1>3 DEF S

LEMMA WrittenParsed ==
    ASSUME NEW doc, Parsed(doc)
    PROVE  Parsed(Written(doc))
<1>1. WrittenWell(doc, Written(doc), Len(doc)) /\ Len(doc) \in Nat \ {0}
  BY Levels, WrittenUpToWell DEF Written
<1>2. OpenNames(doc)[Len(doc)] = <<>>
  BY DEF Parsed, WellFormed
<1>3. Len(Written(doc)) > 0
  BY <1>1 DEF WrittenWell
<1> QED
  BY <1>1, <1>2, <1>3 DEF WrittenWell, Parsed, WellFormed

(* An attribute is not part of what makes a document well-formed.           *)
LEMMA SameTags ==
    ASSUME NEW doc, Parsed(doc), NEW new \in Seq(Tag), Len(new) = Len(doc),
           \A k \in 1..Len(doc) : new[k].kind = doc[k].kind /\ new[k].name = doc[k].name
    PROVE  Parsed(new)
<1>1. doc \in Seq(Tag) /\ Len(doc) \in Nat
  BY TagType DEF Parsed
<1>6. \A k \in 0..Len(doc) : OpenNames(new)[k] = OpenNames(doc)[k]
  <2> DEFINE n == Len(doc)
  <2>1. /\ n \in Nat /\ n <= Len(new) /\ n <= Len(doc) /\ new \in Seq(Tag) /\ doc \in Seq(Tag)
        /\ \A k \in 1..n : new[k].kind = doc[k].kind /\ new[k].name = doc[k].name
    BY <1>1
  <2> HIDE DEF n
  <2>2. \A k \in 0..n : OpenNames(new)[k] = OpenNames(doc)[k]
    BY ONLY <2>1, OpenNamesSame
  <2> QED
    BY <2>2 DEF n
<1>7. WellFormed(new)
  <2>1. OpenNames(doc)[Len(doc)] = <<>> /\ Len(doc) > 0
        /\ \A k \in 1..Len(doc) - 1 : OpenNames(doc)[k] # <<>>
    BY DEF Parsed, WellFormed
  <2>2. OpenNames(new)[Len(new)] = <<>>
    BY <1>1, <1>6, <2>1
  <2>3. \A k \in 1..Len(new) - 1 : OpenNames(new)[k] # <<>>
    BY <1>1, <1>6, <2>1
  <2> QED
    BY <2>1, <2>2, <2>3 DEF WellFormed
<1> QED
  BY <1>7 DEF Parsed

LEMMA ReattributedParsed ==
    ASSUME NEW doc, Parsed(doc), NEW i \in 1..Len(doc), doc[i].kind # "close",
           NEW value, value \in STRING \cup {NoTag},
           NEW new, new = [doc EXCEPT ![i].att = value]
    PROVE  /\ Parsed(new) /\ Len(new) = Len(doc)
           /\ new[i] = [kind |-> doc[i].kind, name |-> doc[i].name, att |-> value]
           /\ \A k \in 1..Len(doc) : k # i => new[k] = doc[k]
<1> DEFINE t == [kind |-> doc[i].kind, name |-> doc[i].name, att |-> value]
<1>1. doc[i] \in Tag
  BY TagType, ElementOfSeq DEF Parsed
<1>2. [doc[i] EXCEPT !.att = value] = t
  BY <1>1 DEF Tag
<1> HIDE DEF t
<1>3. new = [doc EXCEPT ![i] = t]
  BY <1>2
<1>4. t \in Tag /\ t.kind = doc[i].kind /\ t.name = doc[i].name
  BY <1>1 DEF t, Tag
<1>5. doc \in Seq(Tag) /\ Len(doc) \in Nat /\ i \in 1..Len(doc)
  BY TagType DEF Parsed
<1>6. /\ new \in Seq(Tag) /\ Len(new) = Len(doc)
      /\ \A k \in 1..Len(doc) : new[k] = IF k = i THEN t ELSE doc[k]
  BY ONLY <1>3, <1>4, <1>5, ExceptSeq
<1>7. \A k \in 1..Len(doc) : new[k].kind = doc[k].kind /\ new[k].name = doc[k].name
  BY ONLY <1>4, <1>6
<1>8. Parsed(new)
  <2>1. Parsed(doc)
    OBVIOUS
  <2> QED
    BY ONLY <1>6, <1>7, <2>1, SameTags
<1> QED
  BY <1>6, <1>8 DEF t

-----------------------------------------------------------------------------
(* The requests.                                                            *)

\* What is stored between them.
StoredInv ==
    /\ application \in {"resource-lists", "other"}
    /\ Parsed(document) /\ Acceptable(document)

LEMMA PutDocumentIs ==
    ASSUME NEW op, NEW sel, NEW content, NEW new, NEW success,
           PutDocument(op, sel, content, new, success)
    PROVE  /\ answer'.op = op
           /\ \/ /\ Acceptable(new) /\ document' = new
                 /\ answer' = [op |-> op, selector |-> sel, content |-> content,
                               outcome |-> success, before |-> document]
              \/ document' = document /\ answer'.outcome \in Refusals
BY DEF PutDocument, Answered, Refusals

LEMMA PutWholeIs ==
    ASSUME StoredInv, NEW new \in InitialDocuments, PutWhole(new)
    PROVE  /\ answer'.op = "put_document" /\ application' = application
           /\ document' = document \/ (Parsed(document') /\ Acceptable(document'))
BY PutDocumentIs, GivenParsed DEF PutWhole

LEMMA GetElementIs ==
    ASSUME StoredInv, NEW sel \in Selectors, GetElement(sel)
    PROVE  /\ answer'.op = "get" /\ answer'.selector = sel /\ UNCHANGED <<application, document>>
           /\ LET found == Selected(document, sel)
              IN  \/ /\ answer'.outcome = "ok"
                     /\ \E i \in found :
                          found = {i} /\ answer'.content = SubSeq(document, i, EndSeen(document, i))
                  \/ answer'.outcome = "not_found" /\ found = {}
                  \/ answer'.outcome = "many" /\ Cardinality(found) > 1
<1> DEFINE f == Find(document, sel)
           found == Selected(document, sel)
           told(content, outcome) == [op |-> "get", selector |-> sel, content |-> content,
                                      outcome |-> outcome, before |-> document]
<1>1. SelectorOf(sel) /\ Parsed(document)
  BY GivenParsed DEF StoredInv
<1>2. UNCHANGED <<application, document>>
  BY DEF GetElement
<1>3. /\ f.is = "one" => answer' = told(Found(document, f), "ok")
      /\ f.is = "none" => answer' = told(<<>>, "not_found")
      /\ f.is = "many" => answer' = told(<<>>, "many")
  <2>0. "one" # "none" /\ "none" \notin Unhandled /\ "one" \notin Unhandled /\ "many" \in Unhandled
    BY DEF Unhandled
  <2>1. (CASE f.is = "one" -> Answered("get", sel, Found(document, f), "ok")
           [] f.is = "none" -> Answered("get", sel, <<>>, "not_found")
           [] f.is \in Unhandled -> Answered("get", sel, <<>>, f.is))
    BY DEF GetElement
  <2>2. f.is = "one" => Answered("get", sel, Found(document, f), "ok")
    BY <2>0, <2>1, Zenon
  <2>3. f.is = "none" => Answered("get", sel, <<>>, "not_found")
    BY <2>0, <2>1, Zenon
  <2>4. f.is = "many" => Answered("get", sel, <<>>, "many")
    BY <2>0, <2>1, Zenon
  <2> QED
    BY <2>2, <2>3, <2>4 DEF Answered
<1>4. \/ f.is = "none" /\ found = {}
      \/ /\ f.is = "one" /\ found = {f.start + 1}
         /\ Found(document, f) = SubSeq(document, f.start + 1, EndSeen(document, f.start + 1))
      \/ f.is = "many" /\ \E c, d \in found : c # d
  BY <1>1, FindCases DEF Parsed
<1>5. (\E c, d \in found : c # d) => Cardinality(found) > 1
  <2>1. IsFiniteSet(found)
    <3>1. found \subseteq 1..Len(document) /\ Len(document) \in Nat
      BY <1>1, FindIs, Levels
    <3>2. IsFiniteSet(1..Len(document))
      BY <3>1, FS_Interval
    <3> QED
      BY ONLY <3>1, <3>2, FS_Subset
  <2> HIDE DEF found
  <2>2. Cardinality(found) \in Nat
    BY <2>1, FS_CardinalityType
  <2>3. Cardinality(found) = 0 => found = {}
    BY <2>1, FS_EmptySet
  <2>4. Cardinality(found) = 1 => \E x : found = {x}
    BY <2>1, FS_Singleton
  <2> QED
    BY <2>2, <2>3, <2>4
<1> HIDE DEF f, found
<1>6. CASE f.is = "one"
  <2>1. answer' = told(Found(document, f), "ok") /\ found = {f.start + 1}
        /\ Found(document, f) = SubSeq(document, f.start + 1, EndSeen(document, f.start + 1))
    BY <1>3, <1>4, <1>6
  <2> QED
    BY <1>2, <2>1 DEF found
<1>7. CASE f.is = "none"
  BY <1>2, <1>3, <1>4, <1>7 DEF found
<1>8. CASE f.is = "many"
  BY <1>2, <1>3, <1>4, <1>5, <1>8 DEF found
<1> QED
  BY <1>4, <1>6, <1>7, <1>8

LEMMA PutElementIs ==
    ASSUME StoredInv, NEW sel \in Selectors, NEW body \in Bodies, PutElement(sel, body)
    PROVE  /\ answer'.op = "put" /\ application' = application
           /\ \/ document' = document /\ answer'.outcome \in Refusals
              \/ \E o \in {"created", "replaced"} :
                   /\ answer' = [op |-> "put", selector |-> sel, content |-> body,
                                 outcome |-> o, before |-> document]
                   /\ Parsed(document') /\ Acceptable(document')
                   /\ PutOf(document, FixStar(sel, body), body, document', o = "created")
<1> DEFINE r == PutResult(document, sel, body)
<1>1. SelectorOf(sel) /\ Parsed(document) /\ Parsed(body)
  BY GivenParsed DEF StoredInv
<1>2. \/ r.outcome \in Refusals
      \/ /\ r.outcome \in {"created", "replaced"}
         /\ Parsed(r.doc)
         /\ PutOf(document, FixStar(sel, body), body, r.doc, r.outcome = "created")
  BY <1>1, PutIs
<1>3. application' = application
      /\ IF r.outcome \in {"created", "replaced"}
         THEN PutDocument("put", sel, body, r.doc, r.outcome)
         ELSE UNCHANGED document /\ Answered("put", sel, body, r.outcome)
  BY DEF PutElement
<1> HIDE DEF r
<1>4. CASE r.outcome \in {"created", "replaced"}
  <2>1. r.outcome \notin Refusals
    BY <1>4 DEF Refusals, Unhandled
  <2>2. PutDocument("put", sel, body, r.doc, r.outcome)
    BY <1>3, <1>4
  <2>3. CASE document' = document /\ answer'.outcome \in Refusals
    BY <1>3, <2>2, <2>3, PutDocumentIs
  <2>4. CASE /\ Acceptable(r.doc) /\ document' = r.doc
             /\ answer' = [op |-> "put", selector |-> sel, content |-> body,
                           outcome |-> r.outcome, before |-> document]
    BY <1>2, <1>3, <1>4, <2>1, <2>4
  <2> QED
    BY <2>2, <2>3, <2>4, PutDocumentIs
<1>5. CASE r.outcome \notin {"created", "replaced"}
  BY <1>2, <1>3, <1>5 DEF Answered
<1> QED
  BY <1>4, <1>5

LEMMA DeleteElementIs ==
    ASSUME StoredInv, NEW sel \in Selectors, DeleteElement(sel)
    PROVE  /\ answer'.op = "delete" /\ application' = application
           /\ \/ document' = document /\ answer'.outcome \in Refusals
              \/ /\ answer' = [op |-> "delete", selector |-> sel, content |-> <<>>,
                               outcome |-> "deleted", before |-> document]
                 /\ Parsed(document') /\ Acceptable(document')
                 /\ Find(document', sel).is = "none"
<1>1. SelectorOf(sel) /\ Parsed(document)
  BY GivenParsed DEF StoredInv
<1>2. PICK r \in DeleteResult(document, sel) :
         IF r.outcome = "deleted"
         THEN PutDocument("delete", sel, <<>>, r.doc, "deleted")
         ELSE UNCHANGED document /\ Answered("delete", sel, <<>>, r.outcome)
  BY DEF DeleteElement
<1>3. application' = application
  BY DEF DeleteElement
<1>4. \/ r.outcome \in Refusals
      \/ r.outcome = "deleted" /\ Parsed(r.doc) /\ Find(r.doc, sel).is = "none"
  BY <1>1, DeleteIs
<1>5. CASE r.outcome = "deleted"
  <2>1. r.outcome \notin Refusals
    BY <1>5 DEF Refusals, Unhandled
  <2>2. PutDocument("delete", sel, <<>>, r.doc, "deleted")
    BY <1>2, <1>5
  <2> QED
    BY <1>3, <1>4, <2>1, <2>2, PutDocumentIs
<1>6. CASE r.outcome # "deleted"
  BY <1>2, <1>3, <1>4, <1>6 DEF Answered
<1> QED
  BY <1>5, <1>6

(* The one element XPath finds is the one that find returns.                *)
LEMMA XPathIs ==
    ASSUME NEW doc, Parsed(doc), NEW sel, SelectorOf(sel)
    PROVE  LET f == Find(doc, sel)
               found == XPathMatches(doc, sel)
           IN  /\ \A i \in found : i \in 1..Len(doc) /\ doc[i].kind # "close" /\ StarFree(sel)
               /\ found = Selected(doc, sel) \/ (~StarFree(sel) /\ found = {})
               /\ \A i : found = {i} => f.is = "one" /\ f.start + 1 = i
               /\ f.is = "one" => found \in {{}, {f.start + 1}}
<1> DEFINE f == Find(doc, sel)
           found == XPathMatches(doc, sel)
<1>1. /\ f.is \in {"none", "one", "many"}
      /\ f.is = "none" => Selected(doc, sel) = {}
      /\ f.is = "one" => Selected(doc, sel) = {f.start + 1}
      /\ f.is = "many" => \E c, d \in Selected(doc, sel) : c # d
  BY FindCases DEF Parsed
<1>2. \A i \in Selected(doc, sel) : i \in 1..Len(doc) /\ doc[i].kind # "close"
  BY SelectedOpen DEF Selected
<1>3. found \subseteq Selected(doc, sel) /\ (found # {} => StarFree(sel) /\ found = Selected(doc, sel))
      /\ (found = Selected(doc, sel) \/ (~StarFree(sel) /\ found = {}))
  BY DEF XPathMatches
<1> HIDE DEF f, found
<1>4. ASSUME NEW i, found = {i} PROVE f.is = "one" /\ f.start + 1 = i
  BY <1>1, <1>3, <1>4
<1>5. f.is = "one" => found \in {{}, {f.start + 1}}
  BY <1>1, <1>3
<1> QED
  BY <1>2, <1>3, <1>4, <1>5 DEF f, found

LEMMA WithAttParsed ==
    ASSUME NEW doc, Parsed(doc), NEW i \in 1..Len(doc), doc[i].kind # "close",
           NEW value, value \in STRING \cup {NoTag}
    PROVE  Parsed(WithAtt(doc, i, value))
BY ReattributedParsed, WrittenParsed DEF WithAtt

LEMMA GetAttributeIs ==
    ASSUME StoredInv, NEW sel \in AttSelectors, GetAttribute(sel)
    PROVE  /\ answer'.op = "get_attribute" /\ UNCHANGED <<application, document>>
           /\ answer'.selector = sel /\ answer'.before = document
           /\ \/ answer'.outcome = "not_found"
              \/ \E i \in XPathMatches(document, sel) : answer'.content = document[i].att
BY DEF GetAttribute, Answered

LEMMA PutAttributeIs ==
    ASSUME StoredInv, NEW sel \in AttSelectors, NEW value \in Values, PutAttribute(sel, value)
    PROVE  /\ answer'.op = "put_attribute" /\ application' = application
           /\ \/ /\ document' = document /\ answer'.outcome \in Refusals
                 /\ answer'.outcome = "no_parent" =>
                      /\ answer'.selector = sel /\ answer'.before = document
                      /\ Cardinality(XPathMatches(document, sel)) # 1
              \/ \E i \in 1..Len(document) :
                   /\ XPathMatches(document, sel) = {i} /\ document[i].kind # "close"
                   /\ answer' = [op |-> "put_attribute", selector |-> sel, content |-> value,
                                 outcome |-> "replaced", before |-> document]
                   /\ document' = WithAtt(document, i, value)
                   /\ Parsed(document') /\ Acceptable(document')
<1> DEFINE found == XPathMatches(document, sel)
<1>1. SelectorOf(sel) /\ Parsed(document) /\ value \in STRING \cup {NoTag}
  BY GivenParsed, AttributesAssumption DEF StoredInv
<1>2. \A i \in found : i \in 1..Len(document) /\ document[i].kind # "close"
  BY <1>1, XPathIs
<1>3. application' = application
  BY DEF PutAttribute
<1> HIDE DEF found
<1>4. CASE \E i \in found :
              /\ found = {i}
              /\ PutDocument("put_attribute", sel, value, WithAtt(document, i, value), "replaced")
  <2>1. PICK i \in found :
              /\ found = {i}
              /\ PutDocument("put_attribute", sel, value, WithAtt(document, i, value), "replaced")
    BY <1>4
  <2>2. i \in 1..Len(document) /\ document[i].kind # "close" /\ Parsed(WithAtt(document, i, value))
    BY <1>1, <1>2, WithAttParsed
  <2>3. answer'.op = "put_attribute"
    BY <2>1, PutDocumentIs
  <2>4. CASE document' = document /\ answer'.outcome \in Refusals /\ answer'.outcome # "no_parent"
    BY <1>3, <2>3, <2>4
  <2>5. CASE /\ Acceptable(WithAtt(document, i, value)) /\ document' = WithAtt(document, i, value)
             /\ answer' = [op |-> "put_attribute", selector |-> sel, content |-> value,
                           outcome |-> "replaced", before |-> document]
    BY <1>3, <2>1, <2>2, <2>3, <2>5 DEF found, Acceptable, Allowed, UniqueIn
  <2>6. document' = document => answer'.outcome # "no_parent"
    BY <2>1 DEF PutDocument, Answered
  <2> QED
    BY <2>1, <2>4, <2>5, <2>6, PutDocumentIs
<1>5. CASE /\ Cardinality(found) # 1
           /\ Answered("put_attribute", sel, value, "no_parent") /\ UNCHANGED document
  BY <1>3, <1>5 DEF Answered, Refusals, found
<1> QED
  BY <1>4, <1>5 DEF PutAttribute, found

LEMMA DeleteAttributeIs ==
    ASSUME StoredInv, NEW sel \in AttSelectors, DeleteAttribute(sel)
    PROVE  /\ answer'.op = "delete_attribute" /\ application' = application
           /\ \/ document' = document /\ answer'.outcome \in Refusals
              \/ \E i \in 1..Len(document) :
                   /\ XPathMatches(document, sel) = {i} /\ document[i].kind # "close"
                   /\ answer' = [op |-> "delete_attribute", selector |-> sel, content |-> <<>>,
                                 outcome |-> "deleted", before |-> document]
                   /\ document' = WithAtt(document, i, NoTag)
                   /\ Parsed(document') /\ Acceptable(document')
<1> DEFINE found == XPathMatches(document, sel)
           gone(i) == found = {i} /\ document[i].att \notin {NoTag, Blank}
<1>1. SelectorOf(sel) /\ Parsed(document) /\ NoTag \in STRING \cup {NoTag}
  BY GivenParsed DEF StoredInv
<1>2. \A i \in found : i \in 1..Len(document) /\ document[i].kind # "close"
  BY <1>1, XPathIs
<1>3. application' = application
  BY DEF DeleteAttribute
<1>4. CASE \E i \in found :
              /\ gone(i)
              /\ PutDocument("delete_attribute", sel, <<>>, WithAtt(document, i, NoTag), "deleted")
  <2>1. PICK i \in found :
              /\ found = {i}
              /\ PutDocument("delete_attribute", sel, <<>>, WithAtt(document, i, NoTag), "deleted")
    BY <1>4
  <2> HIDE DEF found
  <2>2. i \in 1..Len(document) /\ document[i].kind # "close" /\ Parsed(WithAtt(document, i, NoTag))
    BY <1>1, <1>2, WithAttParsed
  <2>3. answer'.op = "delete_attribute"
    BY <2>1, PutDocumentIs
  <2>4. CASE document' = document /\ answer'.outcome \in Refusals
    BY <1>3, <2>3, <2>4
  <2>5. CASE /\ Acceptable(WithAtt(document, i, NoTag)) /\ document' = WithAtt(document, i, NoTag)
             /\ answer' = [op |-> "delete_attribute", selector |-> sel, content |-> <<>>,
                           outcome |-> "deleted", before |-> document]
    BY <1>3, <2>1, <2>2, <2>3, <2>5 DEF found, Acceptable, Allowed, UniqueIn
  <2> QED
    BY <2>1, <2>4, <2>5, PutDocumentIs
<1>5. CASE Answered("delete_attribute", sel, <<>>, "not_found") /\ UNCHANGED document
  BY <1>3, <1>5 DEF Answered, Refusals
<1> QED
  BY <1>4, <1>5 DEF DeleteAttribute

LEMMA GetBindingsIs ==
    ASSUME NEW sel \in AttSelectors, GetBindings(sel)
    PROVE  answer'.op = "get_bindings" /\ UNCHANGED <<application, document>>
BY DEF GetBindings, Answered

LEMMA StoredInit == Init => StoredInv
BY GivenParsed DEF Init, StoredInv

\* What every request leaves stored, and which operation it answers.
LEMMA StoredNext == StoredInv /\ [AttributeNext]_vars => StoredInv' /\ (UNCHANGED vars \/ answer'.op \in Operations)
<1> SUFFICES ASSUME StoredInv, [AttributeNext]_vars
             PROVE  StoredInv' /\ (UNCHANGED vars \/ answer'.op \in Operations)
  OBVIOUS
<1> DEFINE good == application' = application
                   /\ (document' = document \/ (Parsed(document') /\ Acceptable(document')))
<1>1. ASSUME good PROVE StoredInv'
  BY <1>1 DEF StoredInv, Acceptable, Allowed, UniqueIn
<1> HIDE DEF good
<1>2. ASSUME NEW sel \in Selectors, GetElement(sel) PROVE good /\ answer'.op \in Operations
  BY <1>2, GetElementIs DEF good, Operations
<1>3. ASSUME NEW sel \in Selectors, DeleteElement(sel) PROVE good /\ answer'.op \in Operations
  BY <1>3, DeleteElementIs DEF good, Operations
<1>4. ASSUME NEW sel \in Selectors, NEW body \in Bodies, PutElement(sel, body)
      PROVE  good /\ answer'.op \in Operations
  BY <1>4, PutElementIs DEF good, Operations
<1>5. ASSUME NEW new \in InitialDocuments, PutWhole(new) PROVE good /\ answer'.op \in Operations
  BY <1>5, PutWholeIs DEF good, Operations
<1>6. ASSUME Reply PROVE good /\ answer'.op \in Operations
  BY <1>6 DEF Reply, NoAnswer, good, Operations
<1>7. ASSUME NEW sel \in AttSelectors, GetAttribute(sel) PROVE good /\ answer'.op \in Operations
  BY <1>7, GetAttributeIs DEF good, Operations
<1>8. ASSUME NEW sel \in AttSelectors, DeleteAttribute(sel) PROVE good /\ answer'.op \in Operations
  BY <1>8, DeleteAttributeIs DEF good, Operations
<1>9. ASSUME NEW sel \in AttSelectors, GetBindings(sel) PROVE good /\ answer'.op \in Operations
  BY <1>9, GetBindingsIs DEF good, Operations
<1>10. ASSUME NEW sel \in AttSelectors, NEW value \in Values, PutAttribute(sel, value)
       PROVE  good /\ answer'.op \in Operations
  BY <1>10, PutAttributeIs DEF good, Operations
<1>11. CASE UNCHANGED vars
  BY <1>1, <1>11 DEF vars, good
<1>12. CASE AttributeNext
  BY <1>1, <1>2, <1>3, <1>4, <1>5, <1>6, <1>7, <1>8, <1>9, <1>10, <1>12 DEF AttributeNext, Next
<1> QED
  BY <1>11, <1>12

(* What is stored is a well-formed document that its application accepts,   *)
(* whatever is cut out of it, spliced into it or written out again.         *)
THEOREM Stored == AttributeSpec => []StoredInv
<1>1. StoredInv /\ [AttributeNext]_vars => StoredInv'
  BY StoredNext
<1> QED
  BY <1>1, StoredInit, PTL DEF AttributeSpec

(* TypeOK: splicing text at the offsets that a locator gives, and writing a *)
(* tree out again, leave one well-formed document.                          *)
THEOREM TypeCorrect == AttributeSpec => []TypeOK
<1> DEFINE Inv == StoredInv /\ answer.op \in Operations
<1>1. Init => Inv
  BY StoredInit DEF Init, NoAnswer, Operations
<1>2. Inv /\ [AttributeNext]_vars => Inv'
  BY StoredNext DEF vars
<1>3. Inv => TypeOK
  BY DEF StoredInv, Parsed, TypeOK
<1> QED
  BY <1>1, <1>2, <1>3, PTL DEF AttributeSpec

-----------------------------------------------------------------------------
(* A property of the answer is shown for the step that gives the answer.    *)

\* Each step gives an answer of its own operation.
LEMMA StepCases ==
    ASSUME StoredInv, [AttributeNext]_vars
    PROVE  \/ UNCHANGED vars
           \/ answer' = NoAnswer /\ UNCHANGED <<application, document>>
           \/ answer'.op \in {"put_document", "get_bindings"}
           \/ answer'.op = "get" /\ \E sel \in Selectors : GetElement(sel)
           \/ answer'.op = "delete" /\ \E sel \in Selectors : DeleteElement(sel)
           \/ answer'.op = "put" /\ \E sel \in Selectors, body \in Bodies : PutElement(sel, body)
           \/ answer'.op = "get_attribute" /\ \E sel \in AttSelectors : GetAttribute(sel)
           \/ answer'.op = "delete_attribute" /\ \E sel \in AttSelectors : DeleteAttribute(sel)
           \/ answer'.op = "put_attribute"
              /\ \E sel \in AttSelectors, value \in Values : PutAttribute(sel, value)
<1>1. ASSUME NEW sel \in Selectors, GetElement(sel) PROVE answer'.op = "get"
  BY <1>1, GetElementIs
<1>2. ASSUME NEW sel \in Selectors, DeleteElement(sel) PROVE answer'.op = "delete"
  BY <1>2, DeleteElementIs
<1>3. ASSUME NEW sel \in Selectors, NEW body \in Bodies, PutElement(sel, body) PROVE answer'.op = "put"
  BY <1>3, PutElementIs
<1>4. ASSUME NEW new \in InitialDocuments, PutWhole(new) PROVE answer'.op = "put_document"
  BY <1>4, PutWholeIs
<1>5. ASSUME NEW sel \in AttSelectors, GetAttribute(sel) PROVE answer'.op = "get_attribute"
  BY <1>5, GetAttributeIs
<1>6. ASSUME NEW sel \in AttSelectors, DeleteAttribute(sel) PROVE answer'.op = "delete_attribute"
  BY <1>6, DeleteAttributeIs
<1>7. ASSUME NEW sel \in AttSelectors, GetBindings(sel) PROVE answer'.op = "get_bindings"
  BY <1>7, GetBindingsIs
<1>8. ASSUME NEW sel \in AttSelectors, NEW value \in Values, PutAttribute(sel, value)
      PROVE  answer'.op = "put_attribute"
  BY <1>8, PutAttributeIs
<1>9. Reply => answer' = NoAnswer /\ UNCHANGED <<application, document>>
  BY DEF Reply
<1> QED
  BY <1>1, <1>2, <1>3, <1>4, <1>5, <1>6, <1>7, <1>8, <1>9 DEF AttributeNext, Next

LEMMA TextSeen ==
    ASSUME NEW doc, Parsed(doc), NEW c \in 1..Len(doc), doc[c].kind \in {"open", "empty"}
    PROVE  SubSeq(doc, c, EndSeen(doc, c)) = IF EndIsSeen(doc, c) THEN TextOf(doc, c) ELSE Front(TextOf(doc, c))
<1>1. CASE EndIsSeen(doc, c)
  BY <1>1 DEF EndSeen, TextOf
<1>2. CASE ~EndIsSeen(doc, c)
  <2> DEFINE e == EndOf(doc, c)
             t == SubSeq(doc, c, e)
             h == SubSeq(doc, c, e - 1)
  <2>1. doc[c].kind = "open" /\ EndSeen(doc, c) = e - 1
    BY <1>2 DEF EndIsSeen, EndSeen
  <2>2. Len(doc) \in Nat /\ e \in c + 1 .. Len(doc) /\ doc \in Seq(Tag)
    BY <2>1, ElementEnds, Levels DEF Parsed
  <2> HIDE DEF e
  <2>3. c \in Int /\ e \in Int /\ e - 1 \in Int /\ \A j \in c..e : doc[j] \in Tag
    BY <2>2, TagType, ElementOfSeq
  <2>4. t \in Seq(Tag) /\ Len(t) = e - c + 1 /\ \A k \in 1..e - c + 1 : t[k] = doc[c + k - 1]
    BY <2>2, <2>3, SubSeqProperties
  <2>5. h \in Seq(Tag) /\ Len(h) = e - c /\ \A k \in 1..e - c : h[k] = doc[c + k - 1]
    <3>1. \A j \in c..e - 1 : doc[j] \in Tag
      BY <2>2, <2>3
    <3> QED
      BY <2>2, <2>3, <3>1, SubSeqProperties
  <2> HIDE DEF t, h
  <2>6. Front(t) \in Seq(Tag) /\ Len(Front(t)) = e - c /\ \A k \in 1..e - c : Front(t)[k] = t[k]
    <3>1. t # <<>> /\ Len(t) - 1 = e - c
      BY <2>2, <2>4
    <3> QED
      BY <2>4, <3>1, FrontOf
  <2>7. Front(t) = h
    <3> DEFINE x == Front(t)
    <3>3. x \in Seq(Tag) /\ h \in Seq(Tag) /\ Len(x) = e - c /\ Len(h) = e - c
      BY <2>5, <2>6
    <3>4. ASSUME NEW k \in 1..e - c PROVE x[k] = h[k]
      <4>1. k \in 1..e - c + 1
        BY <2>2, <2>3
      <4>2. x[k] = t[k] /\ t[k] = doc[c + k - 1] /\ h[k] = doc[c + k - 1]
        BY <2>4, <2>5, <2>6, <4>1
      <4> QED
        BY <4>2
    <3>1. x \in Seq(Tag) /\ h \in Seq(Tag) /\ Len(x) = Len(h) /\ \A k \in 1..Len(x) : x[k] = h[k]
      BY <3>3, <3>4
    <3> HIDE DEF x
    <3>2. x = h
      BY ONLY <3>1, SeqEqual
    <3> QED
      BY <3>2 DEF x
  <2> QED
    BY <1>2, <2>1, <2>7 DEF t, h, e, TextOf
<1> QED
  BY <1>1, <1>2

(* GetReturnsTheMatch: the text that a GET returns is that of the one       *)
(* element its selector stands for, whole where its end tag can be told, in  *)
(* documents and for selectors of any size, and whatever is wide or prefixed *)
(* in them.                                                                 *)
THEOREM GetIsRight == AttributeSpec => []GetReturnsTheMatch
<1>1. Init => GetReturnsTheMatch
  BY DEF Init, NoAnswer, GetReturnsTheMatch
<1>2. StoredInv /\ GetReturnsTheMatch /\ [AttributeNext]_vars => GetReturnsTheMatch'
  <2> SUFFICES ASSUME StoredInv, GetReturnsTheMatch, [AttributeNext]_vars
               PROVE  GetReturnsTheMatch'
    OBVIOUS
  <2>1. CASE UNCHANGED vars
    BY <2>1 DEF vars, GetReturnsTheMatch
  <2>2. CASE answer'.op # "get"
    BY <2>2 DEF GetReturnsTheMatch
  <2>3. CASE answer'.op = "get" /\ \E sel \in Selectors : GetElement(sel)
    <3>1. PICK sel \in Selectors : GetElement(sel)
      BY <2>3
    <3> DEFINE found == Selected(document', answer'.selector)
             told(i) == IF EndIsSeen(document', i) THEN TextOf(document', i)
                        ELSE Front(TextOf(document', i))
    <3>2. answer'.selector = sel /\ document' = document
      BY <3>1, GetElementIs
    <3>6. ASSUME NEW i \in found PROVE SubSeq(document', i, EndSeen(document', i)) = told(i)
      <4>1. Parsed(document') /\ SelectorOf(sel)
        BY <3>2, GivenParsed DEF StoredInv
      <4>2. i \in 1..Len(document') /\ document'[i].kind \in {"open", "empty"}
        BY <3>2, <3>6, <4>1, SelectedOpen DEF Selected
      <4> QED
        BY <4>1, <4>2, TextSeen
    <3>3. \/ /\ answer'.outcome = "ok"
             /\ \E i \in found : found = {i} /\ answer'.content = told(i)
          \/ answer'.outcome = "not_found" /\ found = {}
          \/ answer'.outcome = "many" /\ Cardinality(found) > 1
      BY <3>1, <3>2, <3>6, GetElementIs
    <3> HIDE DEF found, told
    <3>4. "ok" # "not_found" /\ "ok" # "many" /\ "not_found" # "many"
      OBVIOUS
    <3>5. (CASE answer'.outcome = "ok" ->
                  \E i \in found : found = {i} /\ answer'.content = told(i)
             [] answer'.outcome = "not_found" -> found = {}
             [] OTHER -> answer'.outcome = "many" /\ Cardinality(found) > 1)
      BY <3>3, <3>4, Zenon
    <3> QED
      BY <3>5, Zenon DEF GetReturnsTheMatch, found, told
  <2> QED
    BY <2>1, <2>2, <2>3, StepCases DEF NoAnswer
<1> QED
  BY <1>1, <1>2, Stored, PTL DEF AttributeSpec

(* A PUT of an element that has just been PUT finds it and writes it over    *)
(* itself.                                                                  *)
LEMMA PutAgain ==
    ASSUME NEW doc, Parsed(doc), NEW sel, SelectorOf(sel), NEW body, Parsed(body),
           Find(doc, FixStar(sel, body)).is = "one",
           Found(doc, Find(doc, FixStar(sel, body))) = body
    PROVE  PutResult(doc, sel, body) = [outcome |-> "replaced", doc |-> doc]
<1> DEFINE fixed == FixStar(sel, body)
           f == Find(doc, fixed)
           s == InsertPointLocator(doc, fixed)
           p == Placed(doc, body, f, s)
<1>1. SelectorOf(fixed)
  BY FixStarIs
<1>2. f.is = "one" /\ f.start \in 0..Len(doc) /\ f.end \in f.start + 1 .. Len(doc)
      /\ body = SubSeq(doc, f.start + 1, f.end)
  BY <1>1, FindCases DEF Parsed, Found
<1>3. Spliced(doc, f.start, f.end, body) = doc
  <2>1. f.end \in f.start..Len(doc)
    BY <1>2
  <2> QED
    BY <1>2, <2>1, SplicedSame DEF Parsed
<1> HIDE DEF f, s
<1>4. p = [is |-> "one", created |-> FALSE, doc |-> doc]
  <2>1. f.is \in {"one", "none", "many", "parse_error"}
    BY <1>2
  <2>2. f.is = "one" =>
          p = [is |-> "one", created |-> FALSE, doc |-> Spliced(doc, f.start, f.end, body)]
    BY ONLY <2>1, PlacedIs
  <2> QED
    BY <1>2, <1>3, <2>2
<1>5. PutResult(doc, sel, body) = PutOutcome(p, fixed, body)
  BY DEF PutResult, Put, f, s
<1> HIDE DEF p
<1>6. p.is = "one" /\ p.created = FALSE /\ p.doc = doc
  BY <1>4
<1>7. PutResult(doc, sel, body) = ReadBack(p, body, f)
  <2>1. "one" # "none" /\ "one" \notin Unhandled
    BY DEF Unhandled
  <2>2. PutOutcome(p, fixed, body) = ReadBack(p, body, Find(p.doc, fixed))
    BY <1>6, <2>1, Zenon DEF PutOutcome
  <2> QED
    BY <1>5, <1>6, <2>2 DEF f
<1>8. ReadBack(p, body, f) = [outcome |-> IF p.created THEN "created" ELSE "replaced", doc |-> p.doc]
  <2>1. f.is \notin Unhandled /\ ~(f.is = "none" \/ (f.is = "one" /\ Found(p.doc, f) # body))
    BY <1>2, <1>6 DEF Unhandled, f
  <2> QED
    BY <2>1, Zenon DEF ReadBack
<1> QED
  BY <1>6, <1>7, <1>8

(* A DELETE with a selector that finds nothing deletes nothing.             *)
LEMMA DeleteAgain ==
    ASSUME NEW doc, NEW sel, Find(doc, sel).is = "none"
    PROVE  \A r \in DeleteResult(doc, sel) : r.outcome # "deleted"
<1> DEFINE d == Cut(doc, Find(doc, sel))
           back == Find(d.doc, sel)
<1>1. d.is = "none"
  BY DEF Cut
<1>2. "none" # "one" /\ "none" \notin Unhandled
  BY DEF Unhandled
<1> HIDE DEF d
<1>3. DeleteOutcome(d, back) = {[outcome |-> "not_found"]}
  BY <1>1, <1>2, Zenon DEF DeleteOutcome
<1>4. DeleteResult(doc, sel) = DeleteOutcome(d, back)
  BY DEF DeleteResult, Delete, d
<1> QED
  BY <1>3, <1>4

(* RetryChangesNothing: a PUT or DELETE of an element sent again, because    *)
(* its answer was lost, leaves the document as it is.                       *)
THEOREM RetryIsHarmless == AttributeSpec => []RetryChangesNothing
<1>1. Init => RetryChangesNothing
  BY DEF Init, NoAnswer, RetryChangesNothing, Succeeded
<1>2. StoredInv /\ RetryChangesNothing /\ [AttributeNext]_vars => RetryChangesNothing'
  <2> SUFFICES ASSUME StoredInv, RetryChangesNothing, [AttributeNext]_vars
               PROVE  RetryChangesNothing'
    OBVIOUS
  <2>1. CASE UNCHANGED vars
    BY <2>1 DEF vars, RetryChangesNothing, Succeeded
  <2>2. CASE answer'.op \notin {"put", "delete"} \/ answer'.outcome \in Refusals
    BY <2>2 DEF RetryChangesNothing, Succeeded, Refusals, Unhandled
  <2>3. CASE answer'.op = "put" /\ \E sel \in Selectors, body \in Bodies : PutElement(sel, body)
    <3>1. PICK sel \in Selectors, body \in Bodies : PutElement(sel, body)
      BY <2>3
    <3>2. CASE answer'.outcome \in Refusals
      BY <2>2, <3>2
    <3>3. CASE \E o \in {"created", "replaced"} :
                 /\ answer' = [op |-> "put", selector |-> sel, content |-> body,
                               outcome |-> o, before |-> document]
                 /\ Parsed(document') /\ Acceptable(document')
                 /\ PutOf(document, FixStar(sel, body), body, document', o = "created")
      <4>1. Parsed(document') /\ answer'.selector = sel /\ answer'.content = body
            /\ Find(document', FixStar(sel, body)).is = "one"
            /\ Found(document', Find(document', FixStar(sel, body))) = body
        BY <3>3 DEF PutOf
      <4>2. PutResult(document', sel, body) = [outcome |-> "replaced", doc |-> document']
        BY <4>1, GivenParsed, PutAgain
      <4> QED
        BY <2>3, <4>1, <4>2 DEF RetryChangesNothing, Succeeded
    <3> QED
      BY <3>1, <3>2, <3>3, PutElementIs
  <2>4. CASE answer'.op = "delete" /\ \E sel \in Selectors : DeleteElement(sel)
    <3>1. PICK sel \in Selectors : DeleteElement(sel)
      BY <2>4
    <3>2. CASE answer'.outcome \in Refusals
      BY <2>2, <3>2
    <3>3. CASE answer'.selector = sel /\ Find(document', sel).is = "none"
      BY <2>4, <3>3, DeleteAgain DEF RetryChangesNothing, Succeeded
    <3> QED
      BY <3>1, <3>2, <3>3, DeleteElementIs
  <2> QED
    BY <2>1, <2>2, <2>3, <2>4, StepCases DEF NoAnswer
<1> QED
  BY <1>1, <1>2, Stored, PTL DEF AttributeSpec

(* AttributeOfTheElement: XPath and the SAX handler find the same element,   *)
(* for every document and selector.                                         *)
THEOREM AttributeIsOfTheElement == AttributeSpec => []AttributeOfTheElement
<1>1. Init => AttributeOfTheElement
  BY DEF Init, NoAnswer, AttributeOfTheElement, AttributeWritten
<1>2. StoredInv /\ AttributeOfTheElement /\ [AttributeNext]_vars => AttributeOfTheElement'
  <2> SUFFICES ASSUME StoredInv, AttributeOfTheElement, [AttributeNext]_vars
               PROVE  AttributeOfTheElement'
    OBVIOUS
  <2>0. \A sel \in AttSelectors :
           LET f == Find(document, sel)
               found == XPathMatches(document, sel)
           IN  /\ found = Selected(document, sel) \/ ~StarFree(sel)
               /\ \A i : found = {i} => f.is = "one" /\ f.start + 1 = i
               /\ f.is = "one" => found \in {{}, {f.start + 1}}
               /\ f.is = "one" => Selected(document, sel) = {f.start + 1}
    BY GivenParsed, XPathIs, FindCases DEF StoredInv, Parsed
  <2>1. CASE UNCHANGED vars
    BY <2>1 DEF vars, AttributeOfTheElement, AttributeWritten, NewValue
  <2>2. CASE answer'.op \notin {"get_attribute", "put_attribute", "delete_attribute"}
    BY <2>2 DEF AttributeOfTheElement, AttributeWritten
  <2>3. CASE answer'.op = "get_attribute" /\ \E sel \in AttSelectors : GetAttribute(sel)
    <3>1. PICK sel \in AttSelectors : GetAttribute(sel)
      BY <2>3
    <3>2. /\ document' = document /\ answer'.selector = sel /\ answer'.before = document
          /\ \/ answer'.outcome = "not_found"
             \/ \E i \in XPathMatches(document, sel) : answer'.content = document[i].att
      BY <3>1, GetAttributeIs
    <3> DEFINE f == Find(document, sel)
    <3>3. f.is = "one" /\ answer'.outcome = "ok" => answer'.content = document[f.start + 1].att
      BY <2>0, <3>2
    <3> HIDE DEF f
    <3> QED
      BY <2>3, <3>2, <3>3 DEF AttributeOfTheElement, AttributeWritten, f
  <2>4. CASE answer'.op = "put_attribute"
             /\ \E sel \in AttSelectors, value \in Values : PutAttribute(sel, value)
    <3>1. PICK sel \in AttSelectors, value \in Values : PutAttribute(sel, value)
      BY <2>4
    <3>2. CASE /\ document' = document /\ answer'.outcome \in Refusals
               /\ answer'.outcome = "no_parent" =>
                    /\ answer'.selector = sel /\ answer'.before = document
                    /\ Cardinality(XPathMatches(document, sel)) # 1
      <4> DEFINE f == Find(document, sel)
      <4>1. answer'.outcome = "no_parent" /\ f.is = "one" => ~StarFree(sel)
        <5>1. \A x : Cardinality({x}) = 1
          BY FS_Singleton
        <5>2. f.is = "one" /\ StarFree(sel) => XPathMatches(document, sel) = {f.start + 1}
          BY <2>0
        <5> HIDE DEF f
        <5> QED
          BY <3>2, <5>1, <5>2
      <4> QED
        BY <2>4, <3>2, <4>1 DEF AttributeOfTheElement, AttributeWritten, Refusals, Unhandled
    <3>3. CASE \E i \in 1..Len(document) :
                 /\ XPathMatches(document, sel) = {i} /\ document[i].kind # "close"
                 /\ answer' = [op |-> "put_attribute", selector |-> sel, content |-> value,
                               outcome |-> "replaced", before |-> document]
                 /\ document' = WithAtt(document, i, value)
                 /\ Parsed(document') /\ Acceptable(document')
      <4> DEFINE f == Find(document, sel)
      <4>1. PICK i \in 1..Len(document) :
                 /\ XPathMatches(document, sel) = {i}
                 /\ answer' = [op |-> "put_attribute", selector |-> sel, content |-> value,
                               outcome |-> "replaced", before |-> document]
                 /\ document' = WithAtt(document, i, value)
        BY <3>3
      <4>2. f.is = "one" /\ f.start + 1 = i
        BY <2>0, <4>1
      <4>3. answer'.selector = sel /\ answer'.before = document /\ answer'.op = "put_attribute"
            /\ answer'.outcome = "replaced" /\ answer'.content = value
        BY <4>1
      <4> QED
        BY <4>1, <4>2, <4>3 DEF AttributeOfTheElement, AttributeWritten, NewValue
    <3> QED
      BY <3>1, <3>2, <3>3, PutAttributeIs
  <2>5. CASE answer'.op = "delete_attribute" /\ \E sel \in AttSelectors : DeleteAttribute(sel)
    <3>1. PICK sel \in AttSelectors : DeleteAttribute(sel)
      BY <2>5
    <3>2. CASE answer'.outcome \in Refusals
      BY <2>5, <3>2 DEF AttributeOfTheElement, AttributeWritten, Refusals, Unhandled
    <3>3. CASE \E i \in 1..Len(document) :
                 /\ XPathMatches(document, sel) = {i} /\ document[i].kind # "close"
                 /\ answer' = [op |-> "delete_attribute", selector |-> sel, content |-> <<>>,
                               outcome |-> "deleted", before |-> document]
                 /\ document' = WithAtt(document, i, NoTag)
                 /\ Parsed(document') /\ Acceptable(document')
      <4> DEFINE f == Find(document, sel)
      <4>1. PICK i \in 1..Len(document) :
                 /\ XPathMatches(document, sel) = {i}
                 /\ answer' = [op |-> "delete_attribute", selector |-> sel, content |-> <<>>,
                               outcome |-> "deleted", before |-> document]
                 /\ document' = WithAtt(document, i, NoTag)
        BY <3>3
      <4>2. f.is = "one" /\ f.start + 1 = i
        BY <2>0, <4>1
      <4>3. answer'.selector = sel /\ answer'.before = document /\ answer'.op = "delete_attribute"
            /\ answer'.outcome = "deleted"
        BY <4>1
      <4> QED
        BY <4>1, <4>2, <4>3 DEF AttributeOfTheElement, AttributeWritten, NewValue
    <3> QED
      BY <3>1, <3>2, <3>3, DeleteAttributeIs
  <2> QED
    BY <2>1, <2>2, <2>3, <2>4, <2>5, StepCases DEF NoAnswer
<1> QED
  BY <1>1, <1>2, Stored, PTL DEF AttributeSpec

-----------------------------------------------------------------------------
(* The elements that check_list visits, and those that differ below them.   *)

LEMMA VisitedUpToDef ==
    ASSUME NEW doc, Len(doc) \in Nat
    PROVE  VisitedUpTo(doc) =
             [i \in 0..Len(doc) |->
                IF i = 0 THEN {} ELSE VisitedUpTo(doc)[i - 1] \cup {j \in {i} : Reached(doc, VisitedUpTo(doc)[i - 1], j)}]
<1> DEFINE None == {}
           With(v, i) == v \cup {j \in {i} : Reached(doc, v, j)}
<1> HIDE DEF None, With
<1> DEFINE Rec(f, n) ==
             f = [i \in 0..n |-> IF i = 0 THEN None ELSE With(f[i - 1], i)]
           S == {n \in Nat : \E f : Rec(f, n)}
<1>1. 0 \in S
  <2>1. Rec([i \in 0..0 |-> None], 0)
    OBVIOUS
  <2> QED
    BY <2>1
<1>2. ASSUME NEW n \in 1..Len(doc), n - 1 \in S PROVE n \in S
  <2>1. PICK f : Rec(f, n - 1)
    BY <1>2
  <2> DEFINE g == [i \in 0..n |-> IF i = n THEN With(f[n - 1], n) ELSE f[i]]
  <2>2. ASSUME NEW i \in 0..n
        PROVE  g[i] = IF i = 0 THEN None ELSE With(g[i - 1], i)
    BY <2>1
  <2>3. Rec(g, n) /\ n \in Nat
    BY <2>2
  <2> HIDE DEF Rec, g
  <2> QED
    BY <2>3
<1>3. Len(doc) \in S
  <2> HIDE DEF S
  <2>1. 0..Len(doc) \subseteq S
    BY <1>1, <1>2, Induction
  <2> QED
    BY <2>1
<1>4. \E f : Rec(f, Len(doc))
  BY <1>3
<1> QED
  BY <1>4 DEF VisitedUpTo, None, With

LEMMA VisitedIs ==
    ASSUME NEW doc, Parsed(doc)
    PROVE  /\ 1 \in Visited(doc)
           /\ \A i \in 2..Len(doc) :
                doc[i].kind # "close" /\ doc[i].name = ListTag /\ Parent(doc, i) \in Visited(doc)
                => i \in Visited(doc)
<1> DEFINE n == Len(doc)
           V == VisitedUpTo(doc)
           S == {k \in 0..n : V[k] \subseteq 1..k /\ \A i \in 0..k : V[i] = {j \in V[k] : j <= i}}
<1>0. n \in Nat \ {0}
  BY Levels
<1>1. V[0] = {} /\ \A k \in 1..n : V[k] = V[k - 1] \cup {j \in {k} : Reached(doc, V[k - 1], j)}
  BY <1>0, VisitedUpToDef
<1> HIDE DEF V
<1>2. 0 \in S
  BY <1>0, <1>1
<1>3. ASSUME NEW k \in 1..n, k - 1 \in S PROVE k \in S
  <2>1. /\ V[k - 1] \subseteq 1..k - 1 /\ \A i \in 0..k - 1 : V[i] = {j \in V[k - 1] : j <= i}
    BY <1>3
  <2>2. V[k] \subseteq V[k - 1] \cup {k} /\ V[k - 1] \subseteq V[k]
    BY <1>1
  <2>3. V[k] \subseteq 1..k
    BY <2>1, <2>2
  <2>4. ASSUME NEW i \in 0..k PROVE V[i] = {j \in V[k] : j <= i}
    <3>1. CASE i = k
      BY <2>3, <3>1
    <3>2. CASE i \in 0..k - 1
      BY <2>1, <2>2, <3>2
    <3> QED
      BY <3>1, <3>2
  <2> QED
    BY <2>3, <2>4
<1>4. n \in S
  <2> HIDE DEF S
  <2>1. 0..n \subseteq S
    BY <1>0, <1>2, <1>3, Induction
  <2> QED
    BY <1>0, <2>1
<1>5. V[n] = Visited(doc)
  BY DEF Visited, V
<1>6. 1 \in V[1] /\ V[1] \subseteq V[n]
  BY <1>0, <1>1, <1>4 DEF Reached
<1>7. ASSUME NEW i \in 2..n, doc[i].kind # "close", doc[i].name = ListTag, Parent(doc, i) \in V[n]
      PROVE  i \in V[n]
  <2>1. Parent(doc, i) <= i - 1
    <3>1. i \in 1..Len(doc) /\ i # 1
      BY <1>0
    <3>2. IsOpen(doc, Parent(doc, i), i - 1)
      BY <3>1, ParentOf
    <3> QED
      BY <1>0, <3>2 DEF IsOpen
  <2>2. Parent(doc, i) \in V[i - 1]
    BY <1>0, <1>4, <1>7, <2>1
  <2>3. i \in V[i]
    BY <1>0, <1>1, <1>7, <2>2 DEF Reached
  <2> QED
    BY <1>0, <1>4, <2>3
<1> QED
  BY <1>5, <1>6, <1>7

LEMMA OneAtMost ==
    ASSUME NEW doc, Parsed(doc), WellPlaced(doc), Repeats(doc) = {}, NEW sel, SelectorOf(sel),
           \A k \in 2..Len(sel) : sel[k].att # AnyAtt /\ sel[k].name \in {ListTag, EntryTag}
    PROVE  \A i, j \in Selected(doc, sel) : i = j
<1> DEFINE U == SelectedUpTo(doc, sel)
           n == Len(sel)
           S == {k \in 0..n : /\ \A i, j \in U[k] : i = j
                              /\ k > 0 => \A i \in U[k] : i = 1 \/ doc[i].name = EntryTag \/ i \in Visited(doc)}
<1>0. n \in Nat \ {0} /\ Len(doc) \in Nat
  BY Levels, SelectedStep
<1>1. 0 \in S
  BY <1>0, SelectedStep
<1>2. ASSUME NEW k \in 1..n, k - 1 \in S PROVE k \in S
  <2>1. ASSUME NEW i \in U[k]
        PROVE  /\ i \in 1..Len(doc) /\ doc[i].kind # "close" /\ Parent(doc, i) \in U[k - 1]
               /\ NameMatches(sel[k], doc[i]) /\ AttMatches(sel[k], doc[i])
    BY <2>1, SelectedIs
  <2>2. CASE k = 1
    <3>1. \A i \in U[k] : i = 1
      BY <1>0, <2>1, <2>2, SelectedStep, RootIs
    <3> QED
      BY <2>2, <3>1
  <2>3. CASE k > 1
    <3>1. sel[k].att # AnyAtt /\ sel[k].name \in {ListTag, EntryTag} /\ sel[k].name # Star
      BY <1>0, <2>3 DEF ListTag, EntryTag, Star
    <3>2. ASSUME NEW i \in U[k]
          PROVE  doc[i].name = sel[k].name /\ doc[i].att = sel[k].att
      BY <2>1, <3>1 DEF NameMatches, AttMatches
    <3>3. ASSUME NEW i \in U[k] PROVE Parent(doc, i) \in Visited(doc) /\ i # 1
      <4> DEFINE p == Parent(doc, i)
      <4>1. k - 1 \in 1..n /\ p \in U[k - 1]
        BY <1>0, <2>1, <2>3
      <4>2. p \in 1..Len(doc)
        BY <4>1, SelectedIs
      <4>3. i # 1
        BY <4>2, RootIs
      <4>4. p = 1 \/ doc[p].name = EntryTag \/ p \in Visited(doc)
        BY <1>0, <1>2, <2>3, <4>1
      <4>5. p > 1 => doc[p].name # EntryTag
        BY <2>1, <3>1, <3>2 DEF WellPlaced, Elements
      <4> HIDE DEF p
      <4>6. p \in Visited(doc)
        BY <4>2, <4>4, <4>5, VisitedIs
      <4> QED
        BY <4>3, <4>6 DEF p
    <3>4. ASSUME NEW i \in U[k] PROVE doc[i].name = EntryTag \/ i \in Visited(doc)
      <4>1. i \in 2..Len(doc)
        BY <2>1, <3>3
      <4> QED
        BY <2>1, <3>1, <3>2, <3>3, <4>1, VisitedIs
    <3>5. ASSUME NEW i \in U[k], NEW j \in U[k], i < j PROVE FALSE
      <4>1. Parent(doc, i) = Parent(doc, j)
        BY <1>2, <2>1
      <4>2. i \in Elder(doc, j)
        BY <2>1, <3>5, <4>1 DEF Elder, Elements
      <4>3. j \in Repeats(doc)
        BY <2>1, <3>1, <3>2, <3>3, <4>2 DEF Repeats, Elements
      <4> QED
        BY <4>3
    <3>6. ASSUME NEW i \in U[k], NEW j \in U[k] PROVE i = j
      <4>1. i \in 1..Len(doc) /\ j \in 1..Len(doc)
        BY <2>1
      <4>2. i < j \/ j < i \/ i = j
        BY <1>0, <4>1
      <4> QED
        BY <3>5, <4>2
    <3> QED
      BY <3>4, <3>6
  <2> QED
    BY <1>0, <2>2, <2>3
<1> HIDE DEF S
<1>3. 0..n \subseteq S
  BY <1>0, <1>1, <1>2, Induction
<1> QED
  BY <1>0, <1>3 DEF S, Selected

(* NamesAreUnambiguous: whatever was PUT, moved up, renamed or left without  *)
(* a name, in documents of any size.                                        *)
THEOREM NamesStayUnambiguous == AttributeSpec => []NamesAreUnambiguous
<1>1. StoredInv => NamesAreUnambiguous
  <2> SUFFICES ASSUME StoredInv, application = "resource-lists", NEW sel \in Selectors,
                      \A k \in 2..Len(sel) : sel[k].att # AnyAtt /\ sel[k].name \in {ListTag, EntryTag}
               PROVE  Cardinality(Selected(document, sel)) <= 1
    BY DEF NamesAreUnambiguous
  <2> DEFINE found == Selected(document, sel)
  <2>1. Parsed(document) /\ WellPlaced(document) /\ Repeats(document) = {} /\ SelectorOf(sel)
    BY GivenParsed DEF StoredInv, Acceptable, Allowed, UniqueIn
  <2>2. \A i, j \in found : i = j
    BY <2>1, OneAtMost
  <2> HIDE DEF found
  <2>3. found = {} \/ \E i : found = {i}
    <3>1. \A i \in found : found = {i}
      BY <2>2
    <3> QED
      BY <3>1
  <2>4. Cardinality(found) \in {0, 1}
    BY <2>3, FS_EmptySet, FS_Singleton
  <2> QED
    BY <2>4 DEF found
<1> QED
  BY <1>1, Stored, PTL

-----------------------------------------------------------------------------
(* The element locator goes the same way over a document and over what is    *)
(* written of it.                                                           *)

\* Two handlers that went the same way, at their own offsets.
Handler(s) == s = [state |-> s.state, path |-> s.path, skip |-> s.skip,
                   start |-> s.start, end |-> s.end, tag |-> s.tag, end2 |-> s.end2]

Alongside(s, r) ==
    Handler(s) /\ Handler(r) /\ s.state = r.state /\ s.path = r.path /\ s.skip = r.skip

\* One step further, with what was found so far kept or found at p and q.
Further(s, r, s1, r1, p, q) ==
    /\ Alongside(s1, r1)
    /\ \/ s1.start = s.start /\ r1.start = r.start /\ (s1.state = "LOOKING" <=> s.state = "LOOKING")
       \/ s.state = "LOOKING" /\ s1.state # "LOOKING" /\ s1.start = p /\ r1.start = q

LEMMA AlongNextTag ==
    ASSUME NEW s, NEW r, Alongside(s, r), NEW i, NEW j, NEW p, NEW q
    PROVE  Further(s, r, NextTagSeen(s, i), NextTagSeen(r, j), p, q)
<1>1. ASSUME NEW x, Handler(x), NEW k
      PROVE  /\ Handler(NextTagSeen(x, k)) /\ NextTagSeen(x, k).state = x.state
             /\ NextTagSeen(x, k).path = x.path /\ NextTagSeen(x, k).skip = x.skip
             /\ NextTagSeen(x, k).start = x.start
  BY <1>1 DEF NextTagSeen, Handler
<1> QED
  BY <1>1 DEF Alongside, Further

LEMMA AlongPath ==
    ASSUME NEW s, NEW r, Alongside(s, r), NEW path, NEW skip, NEW p, NEW q, NEW s1, NEW r1,
           \/ s1 = [s EXCEPT !.path = path] /\ r1 = [r EXCEPT !.path = path]
           \/ s1 = [s EXCEPT !.skip = skip] /\ r1 = [r EXCEPT !.skip = skip]
    PROVE  Further(s, r, s1, r1, p, q)
<1> DEFINE Pathed(x) == [state |-> x.state, path |-> path, skip |-> x.skip,
                         start |-> x.start, end |-> x.end, tag |-> x.tag, end2 |-> x.end2]
           Sunk(x) == [state |-> x.state, path |-> x.path, skip |-> skip,
                       start |-> x.start, end |-> x.end, tag |-> x.tag, end2 |-> x.end2]
<1>1. \/ s1 = Pathed(s) /\ r1 = Pathed(r)
      \/ s1 = Sunk(s) /\ r1 = Sunk(r)
  BY DEF Handler, Alongside
<1>2. \A x : /\ Handler(Pathed(x)) /\ Pathed(x).state = x.state /\ Pathed(x).path = path
             /\ Pathed(x).skip = x.skip /\ Pathed(x).start = x.start
             /\ Handler(Sunk(x)) /\ Sunk(x).state = x.state /\ Sunk(x).path = x.path
             /\ Sunk(x).skip = skip /\ Sunk(x).start = x.start
  BY DEF Handler
<1> HIDE DEF Pathed, Sunk
<1> QED
  BY <1>1, <1>2 DEF Alongside, Further

LEMMA AlongCount ==
    ASSUME NEW s, NEW r, Alongside(s, r), NEW p, NEW q, NEW t, NEW u, t.name = u.name
    PROVE  /\ Further(s, r, CountedChild(s), CountedChild(r), p, q)
           /\ Further(s, r, Skipped(s), Skipped(r), p, q)
           /\ Further(s, r, Left(s), Left(r), p, q)
           /\ Further(s, r, Entered(s, t), Entered(r, u), p, q)
           /\ Further(s, r, [s EXCEPT !.skip = @ - 1], [r EXCEPT !.skip = @ - 1], p, q)
<1>0. Handler(s) /\ Handler(r) /\ s.path = r.path /\ s.skip = r.skip
  BY DEF Alongside
<1>1. Further(s, r, CountedChild(s), CountedChild(r), p, q)
  <2>1. CASE s.path = <<>>
    <3>1. CountedChild(s) = s /\ CountedChild(r) = r
      BY <1>0, <2>1 DEF CountedChild
    <3> QED
      BY <3>1 DEF Further
  <2>2. CASE s.path # <<>>
    <3> DEFINE path == [s.path EXCEPT ![Len(s.path)].position = @ + 1]
               s1 == CountedChild(s)
               r1 == CountedChild(r)
    <3>1. s1 = [s EXCEPT !.path = path] /\ r1 = [r EXCEPT !.path = path]
      BY <1>0, <2>2 DEF CountedChild, Handler
    <3> HIDE DEF path, s1, r1
    <3>2. Further(s, r, s1, r1, p, q)
      BY <3>1, AlongPath
    <3> QED
      BY <3>2 DEF s1, r1
  <2> QED
    BY <2>1, <2>2
<1>2. ASSUME NEW k, NEW s1, NEW r1, s1 = [s EXCEPT !.skip = k], r1 = [r EXCEPT !.skip = k]
      PROVE  Further(s, r, s1, r1, p, q)
  BY <1>2, AlongPath
<1>3. Further(s, r, Skipped(s), Skipped(r), p, q)
  <2> DEFINE s1 == Skipped(s)
             r1 == Skipped(r)
             k == s.skip + 1
  <2>1. s1 = [s EXCEPT !.skip = k] /\ r1 = [r EXCEPT !.skip = k]
    BY <1>0 DEF Skipped
  <2> HIDE DEF k, s1, r1
  <2>2. Further(s, r, s1, r1, p, q)
    BY <1>2, <2>1
  <2> QED
    BY <2>2 DEF s1, r1
<1>4. Further(s, r, Left(s), Left(r), p, q)
  <2> DEFINE s1 == Left(s)
             r1 == Left(r)
             path == Front(s.path)
  <2>1. s1 = [s EXCEPT !.path = path] /\ r1 = [r EXCEPT !.path = path]
    BY <1>0 DEF Left
  <2> HIDE DEF path, s1, r1
  <2>2. Further(s, r, s1, r1, p, q)
    BY <2>1, AlongPath
  <2> QED
    BY <2>2 DEF s1, r1
<1>5. Further(s, r, Entered(s, t), Entered(r, u), p, q)
  <2> DEFINE s1 == Entered(s, t)
             r1 == Entered(r, u)
             path == Append(s.path, [name |-> t.name, position |-> 0])
  <2>1. s1 = [s EXCEPT !.path = path] /\ r1 = [r EXCEPT !.path = path]
    BY <1>0 DEF Entered
  <2> HIDE DEF path, s1, r1
  <2>2. Further(s, r, s1, r1, p, q)
    BY <2>1, AlongPath
  <2> QED
    BY <2>2 DEF s1, r1
<1>6. Further(s, r, [s EXCEPT !.skip = @ - 1], [r EXCEPT !.skip = @ - 1], p, q)
  <2> DEFINE s1 == [s EXCEPT !.skip = @ - 1]
             r1 == [r EXCEPT !.skip = @ - 1]
             k == s.skip - 1
  <2>1. s1 = [s EXCEPT !.skip = k] /\ r1 = [r EXCEPT !.skip = k]
    BY <1>0
  <2> HIDE DEF k, s1, r1
  <2>2. Further(s, r, s1, r1, p, q)
    BY <1>2, <2>1
  <2> QED
    BY <2>2 DEF s1, r1
<1> QED
  BY <1>1, <1>3, <1>4, <1>5, <1>6

LEMMA FurtherStill ==
    ASSUME NEW s, NEW r, NEW s1, NEW r1, NEW s2, NEW r2, NEW p, NEW q,
           Further(s, r, s1, r1, p, q), Further(s1, r1, s2, r2, p, q)
    PROVE  Further(s, r, s2, r2, p, q)
BY DEF Further

LEMMA AlongMatched ==
    ASSUME NEW s, NEW r, Alongside(s, r), NEW p, NEW q
    PROVE  Further(s, r, Matched(s, p), Matched(r, q), p, q)
<1> DEFINE Got(x, k) == [state |-> "FOUND", path |-> x.path, skip |-> x.skip,
                         start |-> k, end |-> x.end, tag |-> x.tag, end2 |-> x.end2]
           Lost(x) == [state |-> "MANY", path |-> x.path, skip |-> x.skip,
                       start |-> x.start, end |-> x.end, tag |-> x.tag, end2 |-> x.end2]
<1>0. Handler(s) /\ Handler(r) /\ s.state = r.state /\ s.path = r.path /\ s.skip = r.skip
  BY DEF Alongside
<1>1. ASSUME NEW x, Handler(x), NEW k
      PROVE  /\ x.state = "LOOKING" => Matched(x, k) = Got(x, k)
             /\ x.state = "DONE" => Matched(x, k) = Lost(x)
             /\ x.state \notin {"LOOKING", "DONE"} => Matched(x, k) = x
  <2>1. [x EXCEPT !.state = "FOUND", !.start = k] = Got(x, k) /\ [x EXCEPT !.state = "MANY"] = Lost(x)
    <3>1. ASSUME NEW y, y = [x EXCEPT !.state = "FOUND", !.start = k] PROVE y = Got(x, k)
      BY <1>1, <3>1 DEF Handler
    <3>2. ASSUME NEW y, y = [x EXCEPT !.state = "MANY"] PROVE y = Lost(x)
      BY <1>1, <3>2 DEF Handler
    <3> HIDE DEF Got, Lost
    <3> QED
      BY <3>1, <3>2
  <2> HIDE DEF Got, Lost
  <2>2. "DONE" # "LOOKING"
    OBVIOUS
  <2> QED
    BY <2>1, <2>2, Zenon DEF Matched
<1>2. \A x, k : /\ Handler(Got(x, k)) /\ Got(x, k).state = "FOUND" /\ Got(x, k).start = k
                /\ Got(x, k).path = x.path /\ Got(x, k).skip = x.skip
                /\ Handler(Lost(x)) /\ Lost(x).state = "MANY" /\ Lost(x).start = x.start
                /\ Lost(x).path = x.path /\ Lost(x).skip = x.skip
  BY DEF Handler
<1> HIDE DEF Got, Lost
<1> QED
  BY <1>0, <1>1, <1>2 DEF Further, Alongside

LEMMA AlongStart ==
    ASSUME NEW s, NEW r, Alongside(s, r), NEW sel, NEW t, NEW u, t.name = u.name, t.att = u.att, NEW p, NEW q
    PROVE  Further(s, r, StartElement(s, sel, t, p), StartElement(r, sel, u, q), p, q)
<1> DEFINE c == CountedChild(s)
           d == CountedChild(r)
           e == Entered(c, t)
           f == Entered(d, u)
           step == sel[Len(s.path) + 1]
<1>0. s.path = r.path /\ s.skip = r.skip
  BY DEF Alongside
<1>1. Irrelevant(s, sel, t) <=> Irrelevant(r, sel, u)
  BY <1>0 DEF Irrelevant, NameMatches
<1>2. Further(s, r, Skipped(s), Skipped(r), p, q) /\ Further(s, r, c, d, p, q)
  BY AlongCount
<1>3. Alongside(c, d)
  BY <1>2 DEF Further
<1> HIDE DEF c, d
<1>4. Further(c, d, Skipped(c), Skipped(d), p, q) /\ Further(c, d, e, f, p, q)
  BY <1>3, AlongCount
<1>5. Alongside(e, f)
  BY <1>4 DEF Further
<1> HIDE DEF e, f
<1>6. Further(e, f, Matched(e, p), Matched(f, q), p, q)
  BY <1>5, AlongMatched
<1>7. Mismatch(c, step, t) <=> Mismatch(d, step, u)
  BY <1>3 DEF Alongside, Mismatch, AttMatches, Rank
<1>8. c.path = d.path
  BY <1>3 DEF Alongside
<1>9. Further(c, d, Counted(c, step, sel, t, p), Counted(d, step, sel, u, q), p, q)
  <2>1. Further(c, d, Matched(e, p), Matched(f, q), p, q)
    BY <1>4, <1>6, FurtherStill
  <2> QED
    BY <1>4, <1>7, <1>8, <2>1 DEF Counted, e, f
<1>10. Further(s, r, Counted(c, step, sel, t, p), Counted(d, step, sel, u, q), p, q)
  BY <1>2, <1>9, FurtherStill
<1> QED
  BY <1>0, <1>1, <1>2, <1>10 DEF StartElement, c, d

LEMMA AlongEnd ==
    ASSUME NEW s, NEW r, Alongside(s, r), NEW sel, NEW i, NEW j, NEW p, NEW q
    PROVE  Further(s, r, EndElement(s, sel, i), EndElement(r, sel, j), p, q)
<1> DEFINE c == EndAt([s EXCEPT !.state = "DONE"], i, Last(s.path).name, Unset)
           d == EndAt([r EXCEPT !.state = "DONE"], j, Last(r.path).name, Unset)
<1>0. Handler(s) /\ Handler(r) /\ s.state = r.state /\ s.path = r.path /\ s.skip = r.skip
  BY DEF Alongside
<1>1. s.skip > 0 => Further(s, r, [s EXCEPT !.skip = @ - 1], [r EXCEPT !.skip = @ - 1], p, q)
  BY AlongCount
<1>2. Further(s, r, Left(s), Left(r), p, q)
  BY AlongCount
<1>3. s.state = "FOUND" => Further(s, r, c, d, p, q)
  <2>1. ASSUME NEW x, Handler(x), NEW k, NEW n
        PROVE  EndAt([x EXCEPT !.state = "DONE"], k, n, Unset) =
                 [state |-> "DONE", path |-> x.path, skip |-> x.skip,
                  start |-> x.start, end |-> k, tag |-> n, end2 |-> Unset]
    <3> DEFINE y == [x EXCEPT !.state = "DONE"]
    <3>1. y = [state |-> "DONE", path |-> x.path, skip |-> x.skip,
               start |-> x.start, end |-> x.end, tag |-> x.tag, end2 |-> x.end2]
      BY <2>1 DEF Handler
    <3> HIDE DEF y
    <3>2. EndAt(y, k, n, Unset) = [y EXCEPT !.end = k, !.tag = n, !.end2 = Unset]
      BY DEF EndAt
    <3>3. EndAt(y, k, n, Unset) =
                 [state |-> "DONE", path |-> x.path, skip |-> x.skip,
                  start |-> x.start, end |-> k, tag |-> n, end2 |-> Unset]
      BY <3>1, <3>2
    <3> QED
      BY <3>3 DEF y
  <2>2. /\ c = [state |-> "DONE", path |-> s.path, skip |-> s.skip, start |-> s.start,
                end |-> i, tag |-> Last(s.path).name, end2 |-> Unset]
        /\ d = [state |-> "DONE", path |-> r.path, skip |-> r.skip, start |-> r.start,
                end |-> j, tag |-> Last(r.path).name, end2 |-> Unset]
    BY <1>0, <2>1
  <2> HIDE DEF c, d
  <2> QED
    BY <1>0, <2>2 DEF Further, Alongside, Handler
<1> HIDE DEF c, d
<1>4. s.state = "FOUND" => Further(s, r, Left(c), Left(d), p, q)
  <2>1. s.state = "FOUND" => Further(c, d, Left(c), Left(d), p, q)
    BY <1>3, AlongCount DEF Further
  <2> QED
    BY <1>3, <2>1, FurtherStill
<1> QED
  BY <1>0, <1>1, <1>2, <1>4 DEF EndElement, c, d

\* No start tag is followed by its end tag.
Compact(out) == \A k \in 1..Len(out) - 1 : out[k].kind = "open" => out[k + 1].kind # "close"

LEMMA WrittenTagCases ==
    ASSUME NEW doc, Parsed(doc), NEW i \in 1..Len(doc), NEW out, WrittenWell(doc, out, i - 1)
    PROVE  LET new == WrittenTag(out, doc[i])
               n == Len(out)
           IN  /\ new \in Seq(Tag)
               /\ \/ /\ doc[i].kind = "close" /\ n \in Nat \ {0} /\ out[n].kind = "open"
                     /\ Len(new) = n /\ \A k \in 1..n - 1 : new[k] = out[k]
                     /\ new[n] = Empty(out[n].name, out[n].att)
                  \/ /\ n \in Nat /\ ~(doc[i].kind = "close" /\ n > 0 /\ out[n].kind = "open")
                     /\ Len(new) = n + 1 /\ \A k \in 1..n : new[k] = out[k]
                     /\ new[n + 1] = doc[i]
<1> DEFINE t == doc[i]
           n == Len(out)
           new == WrittenTag(out, t)
<1>0. out \in Seq(Tag) /\ n \in Nat /\ t \in Tag /\ new \in Seq(Tag) /\ (n = 0 <=> i = 1)
  <2>1. WrittenWell(doc, new, i)
    BY WrittenTagWell
  <2> QED
    BY <2>1, TagType, ElementOfSeq DEF WrittenWell, Parsed
<1>1. t.kind = "close" => n > 0
  <2>1. i = 1 => t.kind # "close"
    BY Levels
  <2> QED
    BY <1>0, <2>1
<1>2. n > 0 => /\ out # <<>> /\ Last(out) = out[n] /\ Front(out) \in Seq(Tag) /\ Len(Front(out)) = n - 1
               /\ \A k \in 1..n - 1 : Front(out)[k] = out[k]
  BY ONLY <1>0, FrontOf
<1>3. CASE t.kind = "close" /\ Last(out).kind = "open"
  <2> DEFINE e == Empty(out[n].name, out[n].att)
             front == Front(out)
  <2>1. new = Append(front, e)
    BY <1>1, <1>2, <1>3 DEF WrittenTag
  <2>2. e \in Tag
    <3>1. n \in 1..n /\ out[n] \in Tag
      BY <1>0, <1>1, <1>3, ElementOfSeq
    <3> QED
      BY <3>1 DEF Tag, Empty
  <2>3. front \in Seq(Tag) /\ Len(front) = n - 1 /\ \A k \in 1..n - 1 : front[k] = out[k]
    BY <1>1, <1>2, <1>3
  <2> HIDE DEF front, e, new
  <2>4. Len(new) = n /\ new[n] = e /\ \A k \in 1..n - 1 : new[k] = out[k]
    <3>1. Len(new) = Len(front) + 1 /\ new[Len(front) + 1] = e /\ \A k \in 1..Len(front) : new[k] = front[k]
      BY <2>1, <2>2, <2>3, AppendProperties
    <3> QED
      BY <1>0, <1>1, <1>3, <2>3, <3>1
  <2> QED
    BY <1>0, <1>1, <1>2, <1>3, <2>4 DEF new, e
<1>4. CASE ~(t.kind = "close" /\ Last(out).kind = "open")
  <2>1. new = Append(out, t)
    BY <1>4 DEF WrittenTag
  <2> HIDE DEF new
  <2>2. Len(new) = n + 1 /\ new[n + 1] = t /\ \A k \in 1..n : new[k] = out[k]
    BY <1>0, <2>1, AppendProperties
  <2>3. ~(t.kind = "close" /\ n > 0 /\ out[n].kind = "open")
    BY <1>2, <1>4
  <2> QED
    BY <1>0, <2>2, <2>3 DEF new
<1> QED
  BY <1>3, <1>4

LEMMA WrittenCompact ==
    ASSUME NEW doc, Parsed(doc)
    PROVE  Compact(Written(doc))
<1> DEFINE n == Len(doc)
           out(i) == WrittenUpTo(doc)[i]
           S == {i \in 0..n : Compact(out(i))}
<1>0. n \in Nat \ {0}
  BY Levels
<1>1. 0 \in S
  <2>1. out(0) = <<>>
    BY <1>0, WrittenUpToDef
  <2> QED
    BY <1>0, <2>1 DEF Compact
<1>2. ASSUME NEW i \in 1..n, i - 1 \in S PROVE i \in S
  <2> DEFINE was == out(i - 1)
             now == out(i)
             m == Len(was)
  <2>1. now = WrittenTag(was, doc[i])
    BY <1>0, WrittenUpToDef
  <2>2. WrittenWell(doc, was, i - 1)
    BY <1>0, WrittenUpToWell
  <2>3. Compact(was)
    BY <1>2
  <2> HIDE DEF was, now
  <2>4. \/ /\ doc[i].kind = "close" /\ m \in Nat \ {0} /\ was[m].kind = "open"
           /\ Len(now) = m /\ \A k \in 1..m - 1 : now[k] = was[k]
           /\ now[m] = Empty(was[m].name, was[m].att)
        \/ /\ m \in Nat /\ ~(doc[i].kind = "close" /\ m > 0 /\ was[m].kind = "open")
           /\ Len(now) = m + 1 /\ \A k \in 1..m : now[k] = was[k]
           /\ now[m + 1] = doc[i]
    BY <2>1, <2>2, WrittenTagCases
  <2>5. Compact(now)
    <3>1. ASSUME NEW k \in 1..Len(now) - 1, now[k].kind = "open" PROVE now[k + 1].kind # "close"
      <4>1. CASE /\ doc[i].kind = "close" /\ m \in Nat \ {0} /\ was[m].kind = "open"
                 /\ Len(now) = m /\ \A h \in 1..m - 1 : now[h] = was[h]
                 /\ now[m] = Empty(was[m].name, was[m].att)
        <5>1. k \in 1..m - 1 /\ now[k] = was[k]
          BY <4>1
        <5>2. CASE k + 1 = m
          BY <4>1, <5>2 DEF Empty
        <5>3. CASE k + 1 # m
          <6>1. k + 1 \in 1..m - 1
            BY <4>1, <5>1, <5>3
          <6>2. now[k + 1] = was[k + 1]
            BY <4>1, <6>1
          <6> QED
            BY <2>3, <3>1, <5>1, <6>2 DEF Compact
        <5> QED
          BY <5>2, <5>3
      <4>2. CASE /\ m \in Nat /\ ~(doc[i].kind = "close" /\ m > 0 /\ was[m].kind = "open")
                 /\ Len(now) = m + 1 /\ \A h \in 1..m : now[h] = was[h]
                 /\ now[m + 1] = doc[i]
        <5>1. k \in 1..m /\ now[k] = was[k]
          BY <4>2
        <5>2. CASE k = m
          BY <3>1, <4>2, <5>1, <5>2
        <5>3. CASE k # m
          <6>1. k \in 1..m - 1 /\ k + 1 \in 1..m
            BY <4>2, <5>1, <5>3
          <6>2. now[k + 1] = was[k + 1]
            BY <4>2, <6>1
          <6> QED
            BY <2>3, <3>1, <5>1, <6>1, <6>2 DEF Compact
        <5> QED
          BY <5>2, <5>3
      <4> QED
        BY <2>4, <4>1, <4>2
    <3> QED
      BY <3>1 DEF Compact
  <2> QED
    BY <2>5 DEF now
<1>3. Compact(out(n))
  <2> HIDE DEF S
  <2>1. 0..n \subseteq S
    BY <1>0, <1>1, <1>2, Induction
  <2> QED
    BY <1>0, <2>1 DEF S
<1> QED
  BY <1>3 DEF Written

(* What is written out once is written out the same.                        *)
LEMMA WrittenTwice ==
    ASSUME NEW doc, Parsed(doc), Compact(doc)
    PROVE  Written(doc) = doc
<1> DEFINE n == Len(doc)
           out(i) == WrittenUpTo(doc)[i]
           S == {i \in 0..n : Len(out(i)) = i /\ \A k \in 1..i : out(i)[k] = doc[k]}
<1>0. n \in Nat \ {0} /\ doc \in Seq(Tag)
  BY Levels DEF Parsed
<1>1. 0 \in S
  <2>1. out(0) = <<>>
    BY <1>0, WrittenUpToDef
  <2> QED
    BY <1>0, <2>1
<1>2. ASSUME NEW i \in 1..n, i - 1 \in S PROVE i \in S
  <2> DEFINE was == out(i - 1)
             now == out(i)
  <2>1. now = WrittenTag(was, doc[i])
    BY <1>0, WrittenUpToDef
  <2>2. WrittenWell(doc, was, i - 1)
    BY <1>0, WrittenUpToWell
  <2>3. Len(was) = i - 1 /\ \A k \in 1..i - 1 : was[k] = doc[k]
    BY <1>2
  <2> HIDE DEF was, now
  <2>4. i > 1 /\ doc[i].kind = "close" => was[i - 1].kind # "open"
    <3>1. i > 1 => i - 1 \in 1..n - 1 /\ i - 1 \in 1..i - 1 /\ i - 1 + 1 = i
      BY <1>0
    <3> QED
      BY <2>3, <3>1 DEF Compact
  <2>5. LET m == Len(was)
        IN  \/ doc[i].kind = "close" /\ m \in Nat \ {0} /\ was[m].kind = "open"
            \/ Len(now) = m + 1 /\ (\A k \in 1..m : now[k] = was[k]) /\ now[m + 1] = doc[i]
    BY <2>1, <2>2, WrittenTagCases
  <2>6. Len(now) = i /\ \A k \in 1..i : now[k] = doc[k]
    BY <2>3, <2>4, <2>5
  <2> QED
    BY <2>6 DEF now
<1>3. Len(out(n)) = n /\ \A k \in 1..n : out(n)[k] = doc[k]
  <2> HIDE DEF S
  <2>1. 0..n \subseteq S
    BY <1>0, <1>1, <1>2, Induction
  <2> QED
    BY <1>0, <2>1 DEF S
<1>4. out(n) \in Seq(Tag)
  <2>1. n \in 0..n
    BY <1>0
  <2> QED
    BY <2>1, WrittenUpToWell DEF WrittenWell
<1> HIDE DEF out
<1>5. out(n) = doc
  BY <1>0, <1>3, <1>4, SeqEqual
<1> QED
  BY <1>5 DEF Written, out

(* The element locator over two documents that begin the same.              *)
LEMMA ElementStatesStep ==
    ASSUME NEW doc \in Seq(Tag), NEW sel
    PROVE  /\ ElementStates(doc, sel)[0] = StartDocument
           /\ \A i \in 1..Len(doc) :
                ElementStates(doc, sel)[i] = ElementEvents(ElementStates(doc, sel)[i - 1], sel, doc[i], i)
<1> DEFINE states == ElementStates(doc, sel)
<1>1. Len(doc) \in Nat
  BY TagType
<1>2. states = [i \in 0..Len(doc) |-> IF i = 0 THEN StartDocument
                                      ELSE ElementEvents(states[i - 1], sel, doc[i], i)]
  BY <1>1, ElementStatesDef
<1> HIDE DEF states
<1>3. states[0] = StartDocument
  BY <1>1, <1>2
<1>4. \A i \in 1..Len(doc) : states[i] = ElementEvents(states[i - 1], sel, doc[i], i)
  BY <1>1, <1>2
<1> QED
  BY <1>3, <1>4 DEF states

LEMMA ElementStatesSame ==
    ASSUME NEW a \in Seq(Tag), NEW b \in Seq(Tag), NEW sel, NEW n \in Nat, n <= Len(a), n <= Len(b),
           \A i \in 1..n : a[i] = b[i]
    PROVE  \A i \in 0..n : ElementStates(a, sel)[i] = ElementStates(b, sel)[i]
<1> DEFINE S == {i \in 0..n : ElementStates(a, sel)[i] = ElementStates(b, sel)[i]}
<1>1. 0 \in S
  BY ElementStatesStep
<1>2. ASSUME NEW i \in 1..n, i - 1 \in S PROVE i \in S
  <2>1. ElementStates(a, sel)[i - 1] = ElementStates(b, sel)[i - 1]
    BY <1>2
  <2>2. i \in 1..Len(a) /\ i \in 1..Len(b) /\ a[i] = b[i]
    BY TagType
  <2>3. /\ ElementStates(a, sel)[i] = ElementEvents(ElementStates(a, sel)[i - 1], sel, a[i], i)
        /\ ElementStates(b, sel)[i] = ElementEvents(ElementStates(b, sel)[i - 1], sel, b[i], i)
    BY <2>2, ElementStatesStep
  <2> QED
    BY <2>1, <2>2, <2>3
<1>3. 0..n \subseteq S
  <2> HIDE DEF S
  <2> QED
    BY <1>1, <1>2, Induction
<1> QED
  BY <1>3

\* How far the locator is over the first i tags of doc and over what is written of
\* them: at the same element, with the same attribute, if it found one.
Followed(doc, sel, i) ==
    LET out == WrittenUpTo(doc)[i]
        s   == ElementStates(doc, sel)[i]
        r   == ElementStates(out, sel)[Len(out)]
    IN  /\ Alongside(s, r)
        /\ s.state # "LOOKING" =>
             /\ s.start + 1 \in 1..i /\ r.start + 1 \in 1..Len(out)
             /\ out[r.start + 1].att = doc[s.start + 1].att

LEMMA AlongEvents ==
    ASSUME NEW s, NEW r, Alongside(s, r), NEW sel, NEW t, t.kind \in {"open", "close", "empty"}, NEW i, NEW j
    PROVE  Further(s, r, ElementEvents(s, sel, t, i), ElementEvents(r, sel, t, j), i - 1, j - 1)
<1> DEFINE p == i - 1
           q == j - 1
           sn == NextTagSeen(s, p)
           rn == NextTagSeen(r, q)
           sb == StartElement(sn, sel, t, p)
           rb == StartElement(rn, sel, t, q)
           sm == NextTagSeen(sb, i)
           rm == NextTagSeen(rb, j)
           s1 == ElementEvents(s, sel, t, i)
           r1 == ElementEvents(r, sel, t, j)
<1>1. /\ t.kind = "open"  => s1 = sb /\ r1 = rb
      /\ t.kind = "close" => s1 = EndElement(sn, sel, p) /\ r1 = EndElement(rn, sel, q)
      /\ t.kind = "empty" => s1 = EndElement(sm, sel, i) /\ r1 = EndElement(rm, sel, j)
  BY EventCases
<1> HIDE DEF p, q, s1, r1
<1>2. Further(s, r, sn, rn, p, q)
  BY AlongNextTag
<1>3. Alongside(sn, rn)
  BY <1>2 DEF Further
<1> HIDE DEF sn, rn
<1>4. Further(sn, rn, sb, rb, p, q) /\ Further(sn, rn, EndElement(sn, sel, p), EndElement(rn, sel, q), p, q)
  BY <1>3, AlongStart, AlongEnd
<1>5. Alongside(sb, rb)
  BY <1>4 DEF Further
<1> HIDE DEF sb, rb
<1>6. Further(sb, rb, sm, rm, p, q)
  BY <1>5, AlongNextTag
<1>7. Alongside(sm, rm)
  BY <1>6 DEF Further
<1> HIDE DEF sm, rm
<1>8. Further(sm, rm, EndElement(sm, sel, i), EndElement(rm, sel, j), p, q)
  BY <1>7, AlongEnd
<1>9. Further(s, r, sb, rb, p, q) /\ Further(s, r, EndElement(sn, sel, p), EndElement(rn, sel, q), p, q)
  BY <1>2, <1>4, FurtherStill
<1>10. Further(s, r, EndElement(sm, sel, i), EndElement(rm, sel, j), p, q)
  <2>1. Further(s, r, sm, rm, p, q)
    BY <1>6, <1>9, FurtherStill
  <2> QED
    BY <1>8, <2>1, FurtherStill
<1>11. Further(s, r, s1, r1, p, q)
  BY <1>1, <1>9, <1>10
<1> QED
  BY <1>11 DEF s1, r1, p, q

LEMMA FollowedStep ==
    ASSUME NEW doc, Parsed(doc), NEW sel, NEW i \in 1..Len(doc), Followed(doc, sel, i - 1)
    PROVE  Followed(doc, sel, i)
<1> DEFINE was == WrittenUpTo(doc)[i - 1]
           now == WrittenUpTo(doc)[i]
           m   == Len(was)
           t   == doc[i]
           s   == ElementStates(doc, sel)[i - 1]
           s1  == ElementStates(doc, sel)[i]
           r   == ElementStates(was, sel)[m]
           r1  == ElementStates(now, sel)[Len(now)]
<1>1. s1 = ElementEvents(s, sel, t, i)
  BY ElementStatesStep DEF Parsed
<1>2. /\ Alongside(s, r)
      /\ s.state # "LOOKING" =>
           /\ s.start + 1 \in 1..i - 1 /\ r.start + 1 \in 1..m
           /\ was[r.start + 1].att = doc[s.start + 1].att
  BY DEF Followed
<1>3. was \in Seq(Tag) /\ now \in Seq(Tag) /\ m \in Nat
  <2>1. i \in 0..Len(doc) /\ i - 1 \in 0..Len(doc)
    BY Levels
  <2> QED
    BY <2>1, WrittenUpToWell DEF WrittenWell
<1>4. \/ /\ t.kind = "close" /\ m \in Nat \ {0} /\ was[m].kind = "open"
         /\ Len(now) = m /\ \A k \in 1..m - 1 : now[k] = was[k]
         /\ now[m] = Empty(was[m].name, was[m].att)
      \/ /\ Len(now) = m + 1 /\ (\A k \in 1..m : now[k] = was[k]) /\ now[m + 1] = t
  <2>1. now = WrittenTag(was, t)
    BY Levels, WrittenUpToDef
  <2>2. WrittenWell(doc, was, i - 1)
    <3>1. i - 1 \in 0..Len(doc)
      BY Levels
    <3> QED
      BY <3>1, WrittenUpToWell
  <2> HIDE DEF was, now
  <2> QED
    BY <2>1, <2>2, WrittenTagCases
<1>5. t.kind \in {"open", "close", "empty"} /\ i \in Nat /\ Len(doc) \in Nat
  <2>1. doc \in Seq(Tag)
    BY DEF Parsed
  <2>2. Len(doc) \in Nat /\ \A k \in 1..Len(doc) : doc[k].kind \in {"open", "close", "empty"}
    BY ONLY <2>1, TagType
  <2> QED
    BY <2>2
<1>6. ASSUME Alongside(s1, r1), Len(now) >= m, \A k \in 1..m : now[k].att = was[k].att,
             \/ s1.start = s.start /\ r1.start = r.start /\ (s1.state = "LOOKING" <=> s.state = "LOOKING")
             \/ s1.start = i - 1 /\ r1.start = Len(now) - 1 /\ now[Len(now)].att = t.att /\ Len(now) > m
      PROVE  Followed(doc, sel, i)
  <2> HIDE DEF was, now, m, s, s1, r, r1
  <2>0. Len(now) \in Nat
    BY <1>3
  <2>2. ASSUME s1.state # "LOOKING"
        PROVE  /\ s1.start + 1 \in 1..i /\ r1.start + 1 \in 1..Len(now)
               /\ now[r1.start + 1].att = doc[s1.start + 1].att
    <3>1. CASE s1.start = s.start /\ r1.start = r.start /\ (s1.state = "LOOKING" <=> s.state = "LOOKING")
      <4>1. /\ s.start + 1 \in 1..i - 1 /\ r.start + 1 \in 1..m
            /\ was[r.start + 1].att = doc[s.start + 1].att
        BY <1>2, <2>2, <3>1
      <4> QED
        BY <1>3, <1>5, <1>6, <2>0, <3>1, <4>1
    <3>2. CASE s1.start = i - 1 /\ r1.start = Len(now) - 1 /\ now[Len(now)].att = t.att /\ Len(now) > m
      <4>1. i - 1 + 1 = i /\ Len(now) - 1 + 1 = Len(now)
        BY <1>5, <2>0
      <4> QED
        BY <1>3, <1>5, <2>0, <3>2, <4>1
    <3> QED
      BY <1>6, <3>1, <3>2
  <2> QED
    BY <1>6, <2>2 DEF Followed, now, s1, r1
<1>7. CASE /\ t.kind = "close" /\ m \in Nat \ {0} /\ was[m].kind = "open"
           /\ Len(now) = m /\ \A k \in 1..m - 1 : now[k] = was[k]
           /\ now[m] = Empty(was[m].name, was[m].att)
  <2> DEFINE r0 == ElementStates(was, sel)[m - 1]
             n0 == NextTagSeen(r0, m - 1)
  <2>1. r = StartElement(n0, sel, was[m], m - 1)
    <3>1. m \in 1..Len(was)
      BY <1>7
    <3>2. r = ElementEvents(r0, sel, was[m], m)
      BY <1>3, <3>1, ElementStatesStep
    <3> QED
      BY <1>7, <3>2, EventCases
  <2>2. ElementStates(now, sel)[m - 1] = r0
    <3>1. m - 1 \in Nat /\ m - 1 <= Len(was) /\ m - 1 <= Len(now) /\ m - 1 \in 0..m - 1
      BY <1>7
    <3> HIDE DEF was, now, m
    <3> QED
      BY <1>3, <1>7, <3>1, ElementStatesSame
  <2>3. StartElement(n0, sel, now[m], m - 1) = r
    <3>1. now[m].name = was[m].name /\ now[m].att = was[m].att
      BY <1>7 DEF Empty
    <3> HIDE DEF was, now, m, r0, n0, r
    <3> QED
      BY <2>1, <3>1 DEF StartElement, Irrelevant, Counted, Mismatch, NameMatches, AttMatches, Entered
  <2>4. r1 = EndElement(NextTagSeen(r, m), sel, m)
    <3>1. m \in 1..Len(now) /\ now[m].kind = "empty"
      BY <1>7 DEF Empty
    <3> HIDE DEF was, now
    <3>2. ElementStates(now, sel)[m] = ElementEvents(ElementStates(now, sel)[m - 1], sel, now[m], m)
      BY <1>3, <3>1, ElementStatesStep
    <3>3. ElementStates(now, sel)[m] = EndElement(NextTagSeen(StartElement(n0, sel, now[m], m - 1), m), sel, m)
      BY <2>2, <3>1, <3>2, EventCases
    <3>4. Len(now) = m
      BY <1>7
    <3> QED
      BY <2>3, <3>3, <3>4
  <2>5. s1 = EndElement(NextTagSeen(s, i - 1), sel, i - 1)
    BY <1>1, <1>7, EventCases
  <2> HIDE DEF was, now, m, s, s1, r, r1, r0, n0
  <2> DEFINE sn == NextTagSeen(s, i - 1)
             rn == NextTagSeen(r, m)
             se == EndElement(sn, sel, i - 1)
             re == EndElement(rn, sel, m)
  <2>6. \A p, q : Further(s, r, s1, r1, p, q)
    <3> TAKE p, q
    <3>1. Further(s, r, sn, rn, p, q)
      BY <1>2, AlongNextTag
    <3>2. Alongside(sn, rn)
      BY <3>1 DEF Further
    <3> HIDE DEF sn, rn
    <3>3. Further(sn, rn, se, re, p, q)
      BY <3>2, AlongEnd
    <3>4. Further(s, r, se, re, p, q)
      BY <3>1, <3>3, FurtherStill
    <3> QED
      BY <2>4, <2>5, <3>4 DEF sn, rn
  <2>7. Further(s, r, s1, r1, 0, 0) /\ Further(s, r, s1, r1, 1, 0)
    BY <2>6
  <2>8. /\ Alongside(s1, r1) /\ s1.start = s.start /\ r1.start = r.start
        /\ (s1.state = "LOOKING" <=> s.state = "LOOKING")
    BY <2>7 DEF Further
  <2>9. Len(now) >= m /\ \A k \in 1..m : now[k].att = was[k].att
    <3>1. now[m].att = was[m].att
      BY <1>7 DEF Empty
    <3> QED
      BY <1>7, <3>1
  <2> QED
    BY <1>6, <2>8, <2>9
<1>8. CASE Len(now) = m + 1 /\ (\A k \in 1..m : now[k] = was[k]) /\ now[m + 1] = t
  <2>1. ElementStates(now, sel)[m] = r
    <3>1. m <= Len(was) /\ m <= Len(now) /\ m \in 0..m
      BY <1>3, <1>8
    <3> HIDE DEF was, now, m
    <3>2. ElementStates(now, sel)[m] = ElementStates(was, sel)[m]
      BY <1>3, <1>8, <3>1, ElementStatesSame
    <3> QED
      BY <3>2
  <2>2. r1 = ElementEvents(r, sel, t, m + 1)
    <3>1. m + 1 \in 1..Len(now) /\ m + 1 - 1 = m
      BY <1>3, <1>8
    <3> HIDE DEF now
    <3>2. ElementStates(now, sel)[m + 1] = ElementEvents(ElementStates(now, sel)[m + 1 - 1], sel, now[m + 1], m + 1)
      BY <1>3, <3>1, ElementStatesStep
    <3>3. ElementStates(now, sel)[m + 1] = ElementEvents(r, sel, t, m + 1)
      BY <1>8, <2>1, <3>1, <3>2
    <3> QED
      BY <1>8, <3>3
  <2> HIDE DEF was, now, m, s, s1, r, r1
  <2>3. Further(s, r, s1, r1, i - 1, m)
    <3> DEFINE j  == m + 1
               sx == ElementEvents(s, sel, t, i)
               rx == ElementEvents(r, sel, t, j)
    <3> HIDE DEF t, j
    <3>1. Further(s, r, sx, rx, i - 1, j - 1)
      BY <1>2, <1>5, AlongEvents
    <3>2. s1 = sx /\ r1 = rx
      BY <1>1, <2>2 DEF t, j
    <3>3. j - 1 = m
      BY <1>3 DEF j
    <3> HIDE DEF sx, rx
    <3> QED
      BY <3>1, <3>2, <3>3
  <2>4. /\ m = Len(now) - 1 /\ Len(now) > m /\ now[Len(now)].att = t.att
        /\ \A k \in 1..m : now[k].att = was[k].att
    BY <1>3, <1>8
  <2>5. /\ Alongside(s1, r1)
        /\ \/ s1.start = s.start /\ r1.start = r.start /\ (s1.state = "LOOKING" <=> s.state = "LOOKING")
           \/ s1.start = i - 1 /\ r1.start = Len(now) - 1
    BY <2>3, <2>4 DEF Further
  <2>6. Len(now) >= m
    BY <1>3, <1>8
  <2> QED
    BY <1>6, <2>4, <2>5, <2>6
<1> QED
  BY <1>4, <1>7, <1>8

LEMMA WrittenFollowed ==
    ASSUME NEW doc, Parsed(doc), NEW sel
    PROVE  Followed(doc, sel, Len(doc))
<1> DEFINE n == Len(doc)
           S == {i \in 0..n : Followed(doc, sel, i)}
<1>0. n \in Nat \ {0}
  BY Levels
<1>1. 0 \in S
  <2> DEFINE none == <<>>
             s == StartDocument
  <2>1. WrittenUpTo(doc)[0] = none
    BY <1>0, WrittenUpToDef
  <2>2. none \in Seq(Tag) /\ Len(none) = 0
    OBVIOUS
  <2> HIDE DEF none
  <2>3. ElementStates(doc, sel)[0] = s /\ ElementStates(none, sel)[0] = s
    BY <2>2, ElementStatesStep DEF Parsed
  <2>4. Alongside(s, s) /\ s.state = "LOOKING"
    BY DEF StartDocument, Alongside, Handler
  <2> HIDE DEF s
  <2> QED
    BY <1>0, <2>1, <2>2, <2>3, <2>4 DEF Followed
<1>2. ASSUME NEW i \in 1..n, i - 1 \in S PROVE i \in S
  BY <1>0, <1>2, FollowedStep
<1> HIDE DEF S
<1>3. 0..n \subseteq S
  BY <1>0, <1>1, <1>2, Induction
<1> QED
  BY <1>0, <1>3 DEF S

-----------------------------------------------------------------------------
(* Writing an attribute of the one element a selector selects makes it select *)
(* no other.                                                                *)

\* The attribute of element c is all that may differ.
Reattributed(doc, new, c) ==
    /\ Parsed(doc) /\ Parsed(new) /\ Len(new) = Len(doc)
    /\ \A k \in 1..Len(doc) : /\ new[k].kind = doc[k].kind /\ new[k].name = doc[k].name
                              /\ k # c => new[k] = doc[k]

LEMMA ReattributedTree ==
    ASSUME NEW doc, NEW new, NEW c, Reattributed(doc, new, c)
    PROVE  /\ Elements(new) = Elements(doc)
           /\ \A i \in 1..Len(doc) : Depth(new, i) = Depth(doc, i) /\ Parent(new, i) = Parent(doc, i)
           /\ \A step : \A i \in 1..Len(doc) : RankOf(new, i, step) = RankOf(doc, i, step)
<1> DEFINE n == Len(doc)
<1>1. /\ Len(new) = n /\ n \in Nat
      /\ \A k \in 1..n : new[k].kind = doc[k].kind /\ new[k].name = doc[k].name
  BY Levels DEF Reattributed
<1> HIDE DEF n
<1>2. Elements(new) = Elements(doc)
  BY <1>1 DEF Elements, n
<1>3. ASSUME NEW i \in 1..n PROVE Depth(new, i) = Depth(doc, i)
  <2>1. /\ {j \in 1..i - 1 : new[j].kind = "open"} = {j \in 1..i - 1 : doc[j].kind = "open"}
        /\ {j \in 1..i - 1 : new[j].kind = "close"} = {j \in 1..i - 1 : doc[j].kind = "close"}
    BY <1>1
  <2> QED
    BY <2>1 DEF Depth
<1>4. ASSUME NEW i \in 1..n PROVE Parent(new, i) = Parent(doc, i)
  <2> DEFINE Above(d) == {j \in 1..i - 1 : d[j].kind = "open" /\ Depth(d, j) = Depth(d, i) - 1}
             Latest(A) == IF A = {} THEN 0 ELSE CHOOSE j \in A : \A k \in A : k <= j
  <2>0. \A j \in 1..i - 1 : j \in 1..n
    BY <1>1
  <2>1. Above(new) = Above(doc)
    <3>1. Depth(new, i) - 1 = Depth(doc, i) - 1
      BY <1>3
    <3>2. \A j \in 1..i - 1 : new[j].kind = doc[j].kind /\ Depth(new, j) = Depth(doc, j)
      BY <1>1, <1>3, <2>0
    <3> QED
      BY <3>1, <3>2
  <2>2. Parent(new, i) = Latest(Above(new)) /\ Parent(doc, i) = Latest(Above(doc))
    BY DEF Parent
  <2> HIDE DEF Above, Latest
  <2> QED
    BY <2>1, <2>2
<1>5. ASSUME NEW i \in 1..n, NEW step PROVE RankOf(new, i, step) = RankOf(doc, i, step)
  <2>1. Alike(new, i, step) = Alike(doc, i, step)
    <3>1. \A j \in Elements(doc) : j \in 1..n
      BY DEF Elements, n
    <3> QED
      BY <1>1, <1>2, <1>4, <3>1 DEF Alike, NameMatches
  <2> QED
    BY <2>1 DEF RankOf
<1> QED
  BY <1>2, <1>3, <1>4, <1>5 DEF n

LEMMA SelectsNoOther ==
    ASSUME NEW doc, NEW new, NEW c, Reattributed(doc, new, c),
           NEW sel, SelectorOf(sel), Selected(doc, sel) = {c}
    PROVE  Selected(new, sel) \subseteq {c}
<1> DEFINE n == Len(sel)
           U(k) == SelectedUpTo(doc, sel)[k]
           V(k) == SelectedUpTo(new, sel)[k]
           S == {k \in 0..n : k < n => V(k) = U(k)}
<1>0. /\ n \in Nat \ {0} /\ Len(doc) \in Nat /\ c \in U(n) /\ c \in 1..Len(doc)
      /\ U(n) = {c} /\ U(0) = {0} /\ V(0) = {0} /\ V(n) = Selected(new, sel)
  <2>1. n \in Nat \ {0} /\ U(0) = {0} /\ V(0) = {0} /\ U(n) = {c} /\ V(n) = Selected(new, sel)
    BY SelectedStep DEF Selected
  <2>2. c \in 1..Len(doc)
    BY <2>1, SelectedOpen DEF Reattributed
  <2> QED
    BY <2>1, <2>2, Levels DEF Reattributed
<1>1. /\ Parsed(doc) /\ Parsed(new) /\ Len(new) = Len(doc) /\ \A k \in 1..Len(doc) : k # c => new[k] = doc[k]
  BY DEF Reattributed
<1>2. /\ Elements(new) = Elements(doc)
      /\ \A i \in 1..Len(doc) : Depth(new, i) = Depth(doc, i) /\ Parent(new, i) = Parent(doc, i)
      /\ \A step : \A i \in 1..Len(doc) : RankOf(new, i, step) = RankOf(doc, i, step)
  BY ReattributedTree
<1>3. Depth(doc, c) = n - 1 /\ Depth(new, c) = n - 1
  <2>1. Level(doc, c - 1) = n - 1
    <3>1. n \in 1..n
      BY <1>0
    <3> QED
      BY <1>0, <1>1, <3>1, LevelSelected
  <2> QED
    BY <1>0, <1>1, <1>2, <2>1, DepthIs
<1>4. ASSUME NEW P, NEW step, NEW i, i # c
      PROVE  i \in Chosen(new, P, step) <=> i \in Chosen(doc, P, step)
  <2>1. i \in Elements(doc) => i \in 1..Len(doc)
    BY DEF Elements
  <2> QED
    BY <1>1, <1>2, <1>4, <2>1 DEF Chosen
<1>5. \A k \in 1..n : U(k) = Chosen(doc, U(k - 1), sel[k]) /\ V(k) = Chosen(new, V(k - 1), sel[k])
  BY SelectedStep
<1>6. \A k \in 1..n - 1 : c \notin U(k) /\ c \notin V(k)
  <2> SUFFICES ASSUME NEW k \in 1..n - 1 PROVE c \notin U(k) /\ c \notin V(k)
    OBVIOUS
  <2>0. k \in 1..n /\ k - 1 # n - 1
    BY <1>0
  <2>1. ASSUME c \in U(k) PROVE FALSE
    <3>1. Level(doc, c - 1) = k - 1
      BY <1>1, <2>0, <2>1, LevelSelected
    <3> QED
      BY <1>0, <1>1, <1>3, <2>0, <3>1, DepthIs
  <2>2. ASSUME c \in V(k) PROVE FALSE
    <3>1. Level(new, c - 1) = k - 1
      BY <1>1, <2>0, <2>2, LevelSelected
    <3> QED
      BY <1>0, <1>1, <1>3, <2>0, <3>1, DepthIs
  <2> QED
    BY <2>1, <2>2
<1> HIDE DEF U, V
<1>7. 0 \in S
  <2>1. 0 \in 0..n /\ V(0) = U(0)
    BY <1>0 DEF U, V
  <2> QED
    BY <2>1
<1>8. ASSUME NEW k \in 1..n, k - 1 \in S PROVE k \in S
  <2>1. ASSUME k < n PROVE V(k) = U(k)
    <3>1. k \in 1..n - 1 /\ k - 1 < n
      BY <1>0, <2>1
    <3>2. V(k - 1) = U(k - 1)
      BY <1>8, <3>1
    <3>3. \A i : i # c => (i \in V(k) <=> i \in U(k))
      <4> DEFINE P == U(k - 1)
      <4>1. U(k) = Chosen(doc, P, sel[k]) /\ V(k) = Chosen(new, P, sel[k])
        BY <1>5, <3>2 DEF U, V
      <4> HIDE DEF P
      <4> QED
        BY <1>4, <4>1
    <3>4. c \notin U(k) /\ c \notin V(k)
      BY <1>6, <3>1
    <3> QED
      BY <3>3, <3>4
  <2> QED
    BY <2>1
<1>9. V(n - 1) = U(n - 1)
  <2> HIDE DEF S
  <2>1. 0..n \subseteq S
    BY <1>0, <1>7, <1>8, Induction
  <2>2. n - 1 \in 0..n /\ n - 1 < n
    BY <1>0
  <2> QED
    BY <2>1, <2>2 DEF S
<1>10. ASSUME NEW i \in V(n), i # c PROVE FALSE
  <2>1. n \in 1..n
    BY <1>0
  <2>2. i \in U(n)
    <3> DEFINE P == U(n - 1)
    <3>1. U(n) = Chosen(doc, P, sel[n]) /\ V(n) = Chosen(new, P, sel[n])
      BY <1>5, <1>9, <2>1 DEF U, V
    <3> HIDE DEF P
    <3> QED
      BY <1>4, <1>10, <3>1
  <2>3. U(n) = {c}
    BY <1>0 DEF U
  <2> QED
    BY <1>10, <2>2, <2>3
<1>11. V(n) = Selected(new, sel)
  BY <1>0 DEF V
<1> QED
  BY <1>10, <1>11

(* Writing the attribute again: the element is the same one, and the text is *)
(* written out the same.                                                    *)
LEMMA AttributeAgain ==
    ASSUME NEW doc, Parsed(doc), NEW sel, SelectorOf(sel),
           NEW c \in 1..Len(doc), doc[c].kind # "close", XPathMatches(doc, sel) = {c},
           NEW value, value \in STRING \cup {NoTag}, NEW w, w = WithAtt(doc, c, value),
           NEW i, XPathMatches(w, sel) = {i}
    PROVE  WithAtt(w, i, value) = w
<1> DEFINE a == [doc EXCEPT ![c].att = value]
           s == ElementLocator(a, sel)
           r == ElementLocator(w, sel)
<1>0. w = Written(a)
  BY DEF WithAtt
<1>1. /\ Parsed(a) /\ Len(a) = Len(doc)
      /\ a[c] = [kind |-> doc[c].kind, name |-> doc[c].name, att |-> value]
      /\ \A k \in 1..Len(doc) : k # c => a[k] = doc[k]
  <2> DEFINE t == [kind |-> doc[c].kind, name |-> doc[c].name, att |-> value]
  <2>1. doc[c] \in Tag
    BY TagType, ElementOfSeq DEF Parsed
  <2>2. [doc[c] EXCEPT !.att = value] = t
    BY <2>1 DEF Tag
  <2> HIDE DEF t
  <2>3. a = [doc EXCEPT ![c] = t]
    BY <2>2
  <2>4. t \in Tag /\ t.kind = doc[c].kind /\ t.name = doc[c].name
    BY <2>1 DEF t, Tag
  <2>5. doc \in Seq(Tag) /\ Len(doc) \in Nat /\ c \in 1..Len(doc) /\ Parsed(doc)
    BY TagType DEF Parsed
  <2> HIDE DEF a
  <2>6. /\ a \in Seq(Tag) /\ Len(a) = Len(doc)
        /\ \A k \in 1..Len(doc) : a[k] = IF k = c THEN t ELSE doc[k]
    BY ONLY <2>3, <2>4, <2>5, ExceptSeq
  <2>7. \A k \in 1..Len(doc) : a[k].kind = doc[k].kind /\ a[k].name = doc[k].name
    BY ONLY <2>4, <2>6
  <2>8. Parsed(a)
    BY ONLY <2>5, <2>6, <2>7, SameTags
  <2> QED
    BY <2>6, <2>8 DEF t
<1> HIDE DEF a
<1>2. Selected(doc, sel) = {c}
  BY XPathIs DEF XPathMatches
<1>3. Selected(a, sel) \subseteq {c}
  <2>1. Reattributed(doc, a, c)
    BY <1>1 DEF Reattributed
  <2> QED
    BY <1>2, <2>1, SelectsNoOther
<1>4. Parsed(w) /\ Compact(w)
  BY <1>0, <1>1, WrittenParsed, WrittenCompact
<1>5. Find(w, sel).is = "one" /\ Find(w, sel).start + 1 = i /\ i \in 1..Len(w)
  BY <1>4, XPathIs
<1>6. r.state = "DONE" /\ r.start + 1 = i
  <2>1. WellFormed(w)
    BY <1>4 DEF Parsed
  <2>2. r.state = "DONE"
    <3>1. CASE r.state = "LOOKING"
      <4>1. Find(w, sel).is = "none"
        <5>1. "LOOKING" # "DONE"
          OBVIOUS
        <5>2. Find(w, sel) = [is |-> "none"]
          BY <2>1, <3>1, <5>1, Zenon DEF Find, Verdict
        <5> QED
          BY <5>2
      <4> QED
        BY <1>5, <4>1
    <3>2. CASE r.state # "LOOKING" /\ r.state # "DONE"
      <4>1. Find(w, sel) = [is |-> "many"]
        BY <2>1, <3>2, Zenon DEF Find, Verdict
      <4> QED
        BY <1>5, <4>1
    <3> QED
      BY <3>1, <3>2
  <2>3. Find(w, sel) = [is |-> "one", start |-> r.start, end |-> FixedEnd(w, r)]
    BY <2>1, <2>2, Zenon DEF Find, Verdict
  <2> QED
    BY <1>5, <2>2, <2>3
<1>7. /\ s.state = "DONE" /\ w[r.start + 1].att = a[s.start + 1].att
  <2>1. Followed(a, sel, Len(a))
    BY <1>1, WrittenFollowed
  <2>2. s = ElementStates(a, sel)[Len(a)] /\ r = ElementStates(w, sel)[Len(w)] /\ w = WrittenUpTo(a)[Len(a)]
    BY <1>0, <1>1 DEF ElementLocator, Written
  <2> HIDE DEF s, r
  <2>3. /\ Alongside(s, r)
        /\ s.state # "LOOKING" => w[r.start + 1].att = a[s.start + 1].att
    BY <2>1, <2>2 DEF Followed
  <2>4. s.state = "DONE"
    BY <1>6, <2>3 DEF Alongside
  <2> QED
    BY <2>3, <2>4
<1>8. s.start + 1 = c
  <2>1. Find(a, sel) = [is |-> "one", start |-> s.start, end |-> FixedEnd(a, s)]
    <3>1. WellFormed(a)
      BY <1>1 DEF Parsed
    <3> QED
      BY <1>7, <3>1, Zenon DEF Find, Verdict
  <2>2. Selected(a, sel) = {s.start + 1}
    <3>1. Find(a, sel).is = "one" /\ Find(a, sel).start = s.start
      BY <2>1
    <3> HIDE DEF s
    <3> QED
      BY <1>1, <3>1, FindCases DEF Parsed
  <2> QED
    BY <1>3, <2>2
<1>9. w[i].att = value
  BY <1>1, <1>6, <1>7, <1>8
<1>10. [w EXCEPT ![i].att = value] = w
  <2>1. w \in Seq(Tag) /\ w[i] = [kind |-> w[i].kind, name |-> w[i].name, att |-> w[i].att]
    BY <1>4, <1>5, TagType DEF Parsed
  <2>2. w = [k \in 1..Len(w) |-> w[k]]
    BY <2>1
  <2>3. [w[i] EXCEPT !.att = value] = w[i]
    BY <1>9, <2>1
  <2> QED
    BY <1>5, <2>2, <2>3
<1>11. Written(w) = w
  BY <1>4, WrittenTwice
<1> QED
  BY <1>10, <1>11 DEF WithAtt

(* AttributeRetryChangesNothing: in documents of any size.                  *)
THEOREM AttributeRetryIsHarmless == AttributeSpec => []AttributeRetryChangesNothing
<1>1. Init => AttributeRetryChangesNothing
  BY DEF Init, NoAnswer, AttributeRetryChangesNothing, AttributeWritten
<1>2. StoredInv /\ AttributeRetryChangesNothing /\ [AttributeNext]_vars => AttributeRetryChangesNothing'
  <2> SUFFICES ASSUME StoredInv, AttributeRetryChangesNothing, [AttributeNext]_vars
               PROVE  AttributeRetryChangesNothing'
    OBVIOUS
  <2>1. CASE UNCHANGED vars
    BY <2>1 DEF vars, AttributeRetryChangesNothing, AttributeWritten, NewValue
  <2>2. CASE answer'.op \notin {"put_attribute", "delete_attribute"}
    BY <2>2 DEF AttributeRetryChangesNothing, AttributeWritten
  <2>3. ASSUME NEW sel \in AttSelectors, NEW value, value \in STRING \cup {NoTag}, NEW c \in 1..Len(document),
               XPathMatches(document, sel) = {c}, document[c].kind # "close",
               answer'.selector = sel, NewValue' = value, document' = WithAtt(document, c, value)
        PROVE  AttributeRetryChangesNothing'
    <3>1. Parsed(document) /\ SelectorOf(sel)
      BY GivenParsed DEF StoredInv
    <3>2. ASSUME NEW i, XPathMatches(document', sel) = {i} PROVE WithAtt(document', i, value) = document'
      BY <2>3, <3>1, <3>2, AttributeAgain
    <3> QED
      BY <2>3, <3>2 DEF AttributeRetryChangesNothing
  <2>4. CASE answer'.op = "put_attribute"
             /\ \E sel \in AttSelectors, value \in Values : PutAttribute(sel, value)
    <3>1. PICK sel \in AttSelectors, value \in Values : PutAttribute(sel, value)
      BY <2>4
    <3>2. CASE answer'.outcome \in Refusals
      BY <2>4, <3>2 DEF AttributeRetryChangesNothing, AttributeWritten, Refusals, Unhandled
    <3>3. CASE \E i \in 1..Len(document) :
                 /\ XPathMatches(document, sel) = {i} /\ document[i].kind # "close"
                 /\ answer' = [op |-> "put_attribute", selector |-> sel, content |-> value,
                               outcome |-> "replaced", before |-> document]
                 /\ document' = WithAtt(document, i, value)
      <4>1. PICK i \in 1..Len(document) :
                 /\ XPathMatches(document, sel) = {i} /\ document[i].kind # "close"
                 /\ answer' = [op |-> "put_attribute", selector |-> sel, content |-> value,
                               outcome |-> "replaced", before |-> document]
                 /\ document' = WithAtt(document, i, value)
        BY <3>3
      <4>2. answer'.selector = sel /\ answer'.op = "put_attribute" /\ answer'.content = value
        BY <4>1
      <4>3. value \in STRING \cup {NoTag}
        BY AttributesAssumption
      <4>4. NewValue' = value
        BY <4>2 DEF NewValue
      <4> QED
        BY <2>3, <4>1, <4>2, <4>3, <4>4
    <3> QED
      BY <3>1, <3>2, <3>3, PutAttributeIs
  <2>5. CASE answer'.op = "delete_attribute" /\ \E sel \in AttSelectors : DeleteAttribute(sel)
    <3>1. PICK sel \in AttSelectors : DeleteAttribute(sel)
      BY <2>5
    <3>2. CASE answer'.outcome \in Refusals
      BY <2>5, <3>2 DEF AttributeRetryChangesNothing, AttributeWritten, Refusals, Unhandled
    <3>3. CASE \E i \in 1..Len(document) :
                 /\ XPathMatches(document, sel) = {i} /\ document[i].kind # "close"
                 /\ answer' = [op |-> "delete_attribute", selector |-> sel, content |-> <<>>,
                               outcome |-> "deleted", before |-> document]
                 /\ document' = WithAtt(document, i, NoTag)
      <4>1. PICK i \in 1..Len(document) :
                 /\ XPathMatches(document, sel) = {i} /\ document[i].kind # "close"
                 /\ answer' = [op |-> "delete_attribute", selector |-> sel, content |-> <<>>,
                               outcome |-> "deleted", before |-> document]
                 /\ document' = WithAtt(document, i, NoTag)
        BY <3>3
      <4>2. answer'.selector = sel /\ answer'.op = "delete_attribute"
        BY <4>1
      <4>3. NewValue' = NoTag
        BY <4>2 DEF NewValue
      <4>4. NoTag \in STRING \cup {NoTag}
        OBVIOUS
      <4> QED
        BY <2>3, <4>1, <4>2, <4>3, <4>4
    <3> QED
      BY <3>1, <3>2, <3>3, DeleteAttributeIs
  <2> QED
    BY <2>1, <2>2, <2>4, <2>5, StepCases DEF NoAnswer
<1> QED
  BY <1>1, <1>2, Stored, PTL DEF AttributeSpec

-----------------------------------------------------------------------------
(* What a PUT changes.                                                      *)

LEMMA PutChanges ==
    ASSUME NEW doc, Parsed(doc), NEW sel, SelectorOf(sel), NEW body, Parsed(body),
           NEW new, Parsed(new), NEW created, PutOf(doc, sel, body, new, created)
    PROVE  LET was == Selected(doc, sel)
           IN  \E i \in Selected(new, sel) :
                 /\ Selected(new, sel) = {i} /\ TextOf(new, i) = body
                 /\ created =>
                      /\ was = {} /\ Spliced(new, i - 1, EndOf(new, i), <<>>) = doc
                      /\ Last(sel).position = Anywhere =>
                           \A j \in Alike(new, i, Last(sel)) : j <= i
                 /\ ~created =>
                      \E j \in was : was = {j} /\ new = Spliced(doc, j - 1, EndOf(doc, j), body)
<1> DEFINE f == Find(doc, sel)
           s == InsertPointLocator(doc, sel)
           back == Find(new, sel)
           i == back.start + 1
           was == Selected(doc, sel)
           now == Selected(new, sel)
           p == FixedEnd(doc, s)
<1>1. /\ back.is = "one" /\ Found(new, back) = body
      /\ \/ /\ ~created /\ f.is = "one"
            /\ new = Spliced(doc, f.start, f.end, body)
         \/ /\ created /\ f.is = "none" /\ s.state = "DONE"
            /\ p \in 0..Len(doc)
            /\ new = Spliced(doc, p, p, body)
  BY DEF PutOf
<1>2. /\ f.is = "none" => was = {}
      /\ f.is = "one" => /\ f.start \in 0..Len(doc) /\ was = {f.start + 1}
                         /\ new = Spliced(doc, f.start, f.end, body) => f.end = EndOf(doc, f.start + 1)
  BY FindCases, CutWhole DEF Parsed
<1>3. /\ i \in 1..Len(new) /\ now = {i} /\ back.end = EndOf(new, i) /\ Found(new, back) = TextOf(new, i)
      /\ back.end \in i..Len(new) /\ back.start \in 0..Len(new)
  <2>1. new \in Seq(Tag)
    BY DEF Parsed
  <2>2. back.end = EndOf(new, i) /\ TextOf(new, i) = body
    BY <1>1, <2>1, ReadWhole
  <2>3. i \in 1..Len(new) /\ now = {i} /\ back.end \in i..Len(new) /\ back.start \in 0..Len(new)
    BY <1>1, <2>1, FindCases
  <2> QED
    BY <1>1, <2>2, <2>3
<1>4. Len(doc) \in Nat /\ Len(new) \in Nat /\ doc \in Seq(Tag) /\ body \in Seq(Tag)
      /\ sel \in Seq(StepOf) /\ sel # <<>>
  BY Levels DEF Parsed, SelectorOf
<1>5. Last(sel) = sel[Len(sel)]
  BY <1>4, FrontOf
<1> HIDE DEF f, back, i, now, was
<1>6. TextOf(new, i) = body
  BY <1>1, <1>3
<1>7. CASE /\ ~created /\ f.is = "one"
           /\ new = Spliced(doc, f.start, f.end, body)
  <2> DEFINE j == f.start + 1
  <2>1. was = {j} /\ f.end = EndOf(doc, j) /\ f.start = j - 1
    BY <1>2, <1>4, <1>7
  <2> HIDE DEF j
  <2> QED
    BY <1>3, <1>6, <1>7, <2>1 DEF was, now
<1>8. CASE /\ created /\ f.is = "none" /\ s.state = "DONE"
           /\ p \in 0..Len(doc)
           /\ new = Spliced(doc, p, p, body)
  <2>1. was = {}
    BY <1>2, <1>8
  <2>2. /\ Grown(doc, p, body, new) /\ i = p + 1 /\ EndOf(new, i) = p + Len(body)
        /\ \/ RightPlace(doc, sel, p)
           \/ Behind(doc, sel, p)
           \/ p \in Nat /\ Level(doc, p) = Len(sel)
    <3>1. EndOf(new, i) \in i..Len(new) /\ Selected(new, sel) = {i} /\ Selected(doc, sel) = {}
      BY <1>3, <2>1 DEF now, was
    <3>2. s.state = "DONE" /\ new = Spliced(doc, p, p, body)
      BY <1>8
    <3> HIDE DEF s
    <3> DEFINE l == s
               x == FixedEnd(doc, l)
    <3>3. l = InsertPointLocator(doc, sel) /\ l.state = "DONE" /\ new = Spliced(doc, x, x, body)
      BY <3>2 DEF s
    <3> HIDE DEF l
    <3>4. /\ Grown(doc, x, body, new) /\ i = x + 1 /\ EndOf(new, i) = x + Len(body)
          /\ \/ RightPlace(doc, sel, x)
             \/ Behind(doc, sel, x)
             \/ x \in Nat /\ Level(doc, x) = Len(sel)
      BY <1>6, <3>1, <3>3, InsertedIs
    <3> QED
      BY <3>4 DEF l
  <2> HIDE DEF p
  <2>3. Spliced(new, p, p + Len(body), <<>>) = doc
    BY <1>4, <1>8, InsertedOut
  <2>4. i - 1 = p
    BY <1>4, <1>8, <2>2
  <2>5. Last(sel).position = Anywhere => \A j \in Alike(new, i, Last(sel)) : j <= i
    <3> SUFFICES ASSUME sel[Len(sel)].position = Anywhere, NEW j \in Alike(new, i, sel[Len(sel)])
                 PROVE  j <= i
      BY <1>5
    <3>1. p + 1 \in Selected(new, sel) /\ j \in Alike(new, p + 1, sel[Len(sel)])
      BY <1>3, <2>2 DEF now
    <3>2. j <= p + 1
      BY <2>2, <3>1, InsertedLast
    <3> QED
      BY <2>2, <3>2
  <2> QED
    BY <1>3, <1>6, <1>8, <2>1, <2>2, <2>3, <2>4, <2>5 DEF was, now
<1> QED
  BY <1>1, <1>7, <1>8

(* A selector that loses its star selects fewer elements.                   *)
LEMMA StarSelects ==
    ASSUME NEW doc, NEW sel, SelectorOf(sel), NEW body, Parsed(body)
    PROVE  Selected(doc, FixStar(sel, body)) \subseteq Selected(doc, sel)
<1> DEFINE n == Len(sel)
           fixed == FixStar(sel, body)
           was(k) == SelectedUpTo(doc, sel)[k]
           now(k) == SelectedUpTo(doc, fixed)[k]
           S == {k \in 0..n - 1 : now(k) = was(k)}
<1>1. /\ SelectorOf(fixed) /\ Len(fixed) = n
      /\ \A k \in 1..n : /\ fixed[k].position = sel[k].position /\ fixed[k].att = sel[k].att
                         /\ k < n => fixed[k] = sel[k]
  BY FixStarIs
<1>2. sel \in Seq(StepOf) /\ sel # <<>>
  BY DEF SelectorOf
<1>3. n \in Nat \ {0} /\ n \in 1..n /\ n - 1 \in Nat
  <2>1. n \in Nat \ {0}
    BY SelectedStep
  <2> QED
    BY <2>1
<1>4. Last(sel) = sel[n]
  BY <1>2, FrontOf
<1>5. fixed = sel \/ (sel[n].name = Star /\ sel[n].position = Anywhere)
  BY <1>4 DEF FixStar
<1> HIDE DEF fixed, n
<1>6. 0 \in S
  <2>1. now(0) = {0} /\ was(0) = {0}
    BY <1>1, SelectedStep
  <2> QED
    BY <1>3, <2>1
<1>7. ASSUME NEW k \in 1..n - 1, k - 1 \in S PROVE k \in S
  <2>1. k \in 1..n /\ k < n
    BY <1>3
  <2>2. fixed[k] = sel[k]
    BY <1>1, <2>1
  <2>3. now(k) = Chosen(doc, now(k - 1), fixed[k])
    BY <1>1, <2>1, SelectedStep
  <2>4. was(k) = Chosen(doc, was(k - 1), sel[k])
    BY <2>1, SelectedStep DEF n
  <2>5. now(k - 1) = was(k - 1)
    BY <1>7
  <2> HIDE DEF now, was
  <2> QED
    BY <2>2, <2>3, <2>4, <2>5
<1>8. n - 1 \in S
  <2> HIDE DEF S
  <2>1. 0..n - 1 \subseteq S
    BY <1>3, <1>6, <1>7, Induction
  <2> QED
    BY <1>3, <2>1
<1>9. ASSUME NEW i \in now(n) PROVE i \in was(n)
  <2>1. /\ i \in 1..Len(doc) /\ doc[i].kind # "close" /\ Parent(doc, i) \in now(n - 1)
        /\ NameMatches(fixed[n], doc[i]) /\ AttMatches(fixed[n], doc[i])
        /\ fixed[n].position \in {Anywhere, RankOf(doc, i, fixed[n])}
    BY <1>1, <1>3, SelectedIs
  <2>2. Parent(doc, i) \in was(n - 1)
    BY <1>8, <2>1
  <2>3. AttMatches(sel[n], doc[i])
    BY <1>1, <1>3, <2>1 DEF AttMatches
  <2>4. NameMatches(sel[n], doc[i])
    BY <1>5, <2>1 DEF NameMatches
  <2>5. sel[n].position \in {Anywhere, RankOf(doc, i, sel[n])}
    BY <1>5, <2>1
  <2> QED
    BY <1>3, <2>1, <2>2, <2>3, <2>4, <2>5, SelectedIs DEF n
<1> QED
  BY <1>1, <1>9 DEF Selected, n, fixed

(* What a DELETE can take out of a document that has just grown.            *)
LEMMA DeleteUndoes ==
    ASSUME NEW doc, NEW sel, SelectorOf(sel), NEW body, Parsed(body), NEW new, Parsed(new),
           NEW i \in Selected(new, FixStar(sel, body)),
           Spliced(new, i - 1, EndOf(new, i), <<>>) = doc,
           NEW r \in DeleteResult(new, sel), r.outcome = "deleted"
    PROVE  r.doc = doc
<1> DEFINE f == Find(new, sel)
<1>1. "deleted" \notin Refusals
  BY DEF Refusals, Unhandled
<1>2. f.is = "one" /\ r.doc = Spliced(new, f.start, f.end, <<>>)
  BY <1>1, DeleteIs
<1>3. f.start \in 0..Len(new) /\ Selected(new, sel) = {f.start + 1} /\ f.end = EndOf(new, f.start + 1)
  <2>1. Parsed(r.doc)
    BY <1>1, DeleteIs
  <2>2. f.end = EndOf(new, f.start + 1)
    BY <1>2, <2>1, CutWhole
  <2> QED
    BY <1>2, <2>2, FindCases DEF Parsed
<1>4. i = f.start + 1
  BY <1>3, StarSelects
<1> HIDE DEF f
<1>5. i - 1 = f.start /\ f.end = EndOf(new, i)
  <2>1. Len(new) \in Nat
    BY Levels
  <2> QED
    BY <1>3, <1>4, <2>1
<1> QED
  BY <1>2, <1>5

-----------------------------------------------------------------------------
(* What was PUT stays in the answer until that leaves; the three properties  *)
(* of a PUT are read off it.                                                *)

PutAnswered ==
    answer.op = "put" =>
        \/ answer.outcome \in Refusals
        \/ /\ answer.outcome \in {"created", "replaced"}
           /\ Parsed(document) /\ Parsed(answer.before) /\ Parsed(answer.content)
           /\ SelectorOf(answer.selector) /\ SelectorOf(Fixed)
           /\ PutOf(answer.before, Fixed, answer.content, document, answer.outcome = "created")

LEMMA PutIsAnswered == AttributeSpec => []PutAnswered
<1>1. Init => PutAnswered
  BY DEF Init, NoAnswer, PutAnswered
<1>2. StoredInv /\ PutAnswered /\ [AttributeNext]_vars => PutAnswered'
  <2> SUFFICES ASSUME StoredInv, PutAnswered, [AttributeNext]_vars
               PROVE  PutAnswered'
    OBVIOUS
  <2>1. CASE UNCHANGED vars
    BY <2>1 DEF vars, PutAnswered, Fixed
  <2>2. CASE answer'.op # "put" \/ answer'.outcome \in Refusals
    BY <2>2 DEF PutAnswered
  <2>3. CASE answer'.op = "put" /\ \E sel \in Selectors, body \in Bodies : PutElement(sel, body)
    <3>1. PICK sel \in Selectors, body \in Bodies : PutElement(sel, body)
      BY <2>3
    <3>2. CASE \E o \in {"created", "replaced"} :
                 /\ answer' = [op |-> "put", selector |-> sel, content |-> body,
                               outcome |-> o, before |-> document]
                 /\ Parsed(document') /\ Acceptable(document')
                 /\ PutOf(document, FixStar(sel, body), body, document', o = "created")
      <4>1. PICK o \in {"created", "replaced"} :
                 /\ answer' = [op |-> "put", selector |-> sel, content |-> body,
                               outcome |-> o, before |-> document]
                 /\ Parsed(document') /\ Acceptable(document')
                 /\ PutOf(document, FixStar(sel, body), body, document', o = "created")
        BY <3>2
      <4>2. /\ answer'.outcome = o /\ answer'.before = document
            /\ answer'.selector = sel /\ answer'.content = body
        BY <4>1
      <4>3. Parsed(body) /\ SelectorOf(sel) /\ Parsed(document)
        BY GivenParsed DEF StoredInv
      <4>4. SelectorOf(FixStar(sel, body))
        BY <4>3, FixStarIs
      <4>5. Fixed' = FixStar(sel, body)
        BY <4>2 DEF Fixed
      <4> QED
        BY <4>1, <4>2, <4>3, <4>4, <4>5 DEF PutAnswered
    <3> QED
      BY <2>2, <3>1, <3>2, PutElementIs
  <2> QED
    BY <2>1, <2>2, <2>3, StepCases DEF NoAnswer
<1> QED
  BY <1>1, <1>2, Stored, PTL DEF AttributeSpec

LEMMA AnsweredChanges ==
    ASSUME PutAnswered, answer.op = "put", answer.outcome \notin Refusals
    PROVE  /\ Parsed(document) /\ Parsed(answer.content) /\ SelectorOf(answer.selector)
           /\ \E i \in Selected(document, Fixed) :
                /\ Selected(document, Fixed) = {i} /\ TextOf(document, i) = answer.content
                /\ answer.outcome = "created" =>
                     /\ Selected(answer.before, Fixed) = {}
                     /\ Spliced(document, i - 1, EndOf(document, i), <<>>) = answer.before
                     /\ Last(Fixed).position = Anywhere =>
                          \A j \in Alike(document, i, Last(Fixed)) : j <= i
                /\ answer.outcome # "created" =>
                     \E j \in Selected(answer.before, Fixed) :
                        /\ Selected(answer.before, Fixed) = {j}
                        /\ document = Spliced(answer.before, j - 1, EndOf(answer.before, j), answer.content)
<1> DEFINE created == answer.outcome = "created"
           doc == answer.before
           sel == Fixed
           body == answer.content
           new == document
<1>1. /\ Parsed(new) /\ Parsed(doc) /\ Parsed(body)
      /\ SelectorOf(answer.selector) /\ SelectorOf(sel)
      /\ PutOf(doc, sel, body, new, created)
  BY DEF PutAnswered
<1> HIDE DEF created, doc, sel, body, new
<1>2. \E i \in Selected(new, sel) :
         /\ Selected(new, sel) = {i} /\ TextOf(new, i) = body
         /\ created =>
              /\ Selected(doc, sel) = {} /\ Spliced(new, i - 1, EndOf(new, i), <<>>) = doc
              /\ Last(sel).position = Anywhere =>
                   \A j \in Alike(new, i, Last(sel)) : j <= i
         /\ ~created =>
              \E j \in Selected(doc, sel) :
                 Selected(doc, sel) = {j} /\ new = Spliced(doc, j - 1, EndOf(doc, j), body)
  BY <1>1, PutChanges
<1> QED
  BY <1>1, <1>2 DEF created, doc, sel, body, new

(* PutChangesOneElement: a PUT puts its body where its selector then finds   *)
(* it, alone, and leaves the rest of the document as it was. That the place  *)
(* put chooses for a new element is where find then looks, for every         *)
(* document, is the work of PlaceIs and InsertedIs.                         *)
THEOREM PutIsLocal == AttributeSpec => []PutChangesOneElement
<1>1. PutAnswered => PutChangesOneElement
  <2> SUFFICES ASSUME PutAnswered, answer.op = "put", Succeeded("put") PROVE PutChangesOneElement
    BY DEF PutChangesOneElement, Succeeded
  <2>1. answer.outcome \notin Refusals
    BY DEF Succeeded, Refusals, Unhandled
  <2> QED
    BY <2>1, AnsweredChanges DEF PutChangesOneElement
<1> QED
  BY <1>1, PutIsAnswered, PTL

(* CreatedComesLast: an element created by a selector without a position     *)
(* comes after its siblings of that name.                                   *)
THEOREM CreatedIsLast == AttributeSpec => []CreatedComesLast
<1>1. PutAnswered => CreatedComesLast
  <2> SUFFICES ASSUME PutAnswered, answer.op = "put", answer.outcome = "created", Last(Fixed).position = Anywhere,
                      NEW i \in Selected(document, Fixed), NEW j \in Alike(document, i, Last(Fixed))
               PROVE  j <= i
    BY DEF CreatedComesLast
  <2>1. answer.outcome \notin Refusals
    BY DEF Refusals, Unhandled
  <2>2. PICK c \in Selected(document, Fixed) :
          /\ Selected(document, Fixed) = {c}
          /\ \A k \in Alike(document, c, Last(Fixed)) : k <= c
    BY <2>1, AnsweredChanges
  <2>3. i = c
    BY <2>2
  <2> QED
    BY <2>2, <2>3
<1> QED
  BY <1>1, PutIsAnswered, PTL

(* DeleteUndoesCreation: a DELETE with the selector that created an element  *)
(* restores the document or is refused.                                     *)
THEOREM DeleteUndoesPut == AttributeSpec => []DeleteUndoesCreation
<1>1. PutAnswered => DeleteUndoesCreation
  <2> SUFFICES ASSUME PutAnswered, answer.op = "put", answer.outcome = "created",
                      NEW r \in DeleteResult(document, answer.selector), r.outcome = "deleted"
               PROVE  r.doc = answer.before
    BY DEF DeleteUndoesCreation
  <2>1. answer.outcome \notin Refusals
    BY DEF Refusals, Unhandled
  <2>2. PICK i \in Selected(document, Fixed) :
          Spliced(document, i - 1, EndOf(document, i), <<>>) = answer.before
    BY <2>1, AnsweredChanges
  <2>3. i \in Selected(document, FixStar(answer.selector, answer.content))
    BY DEF Fixed
  <2>4. Parsed(document) /\ Parsed(answer.content) /\ SelectorOf(answer.selector)
    BY <2>1, AnsweredChanges
  <2> DEFINE doc == answer.before
             sel == answer.selector
             body == answer.content
             new == document
  <2>5. /\ Parsed(new) /\ Parsed(body) /\ SelectorOf(sel)
        /\ i \in Selected(new, FixStar(sel, body)) /\ Spliced(new, i - 1, EndOf(new, i), <<>>) = doc
        /\ r \in DeleteResult(new, sel) /\ r.outcome = "deleted"
    BY <2>2, <2>3, <2>4
  <2> HIDE DEF doc, sel, body, new
  <2>6. r.doc = doc
    BY ONLY <2>5, DeleteUndoes
  <2> QED
    BY <2>6 DEF doc
<1> QED
  BY <1>1, PutIsAnswered, PTL
=============================================================================
