------------------------- MODULE MCElementRequests -------------------------
(* Small instances of AttributeRequests for TLC: a root with lists and entries, *)
(* an attribute of value x or y, selectors of one to three steps.              *)
EXTENDS AttributeRequests

Plain(name) == Step(name, Anywhere, AnyAtt)

Steps(names, positions, atts) ==
    {Step(n, p, v) : n \in names, p \in positions, v \in atts}

OfRoot     == {<<Plain("root")>>, <<Plain(Star)>>, <<Step("root", 1, AnyAtt)>>, <<Step("root", Anywhere, "x")>>}
OfChild    == {<<Plain("root"), s>> : s \in Steps({"list", "entry", Star}, {Anywhere, 1, 2}, {AnyAtt, "x", "y"})}
OfPosition == {<<Step("root", p, AnyAtt), Step("list", q, "y")>> : p \in {1, 2}, q \in {Anywhere, 0}}
OfNested   == {<<Plain("root"), p, s>> : p \in {Plain("list"), Plain(Star), Step("list", 2, AnyAtt)},
                                      s \in Steps({"list", Star}, {Anywhere, 1, 2}, {AnyAtt, "y"})}

OfNames    == {<<Plain("root"), Step("list", Anywhere, "x"), Step(n, Anywhere, "x")>> : n \in {"list", "entry"}}

AllSelectors == OfNames \cup OfRoot \cup OfChild \cup OfPosition \cup OfNested

SomeAttSelectors ==
    {<<Plain("root"), Plain(Star)>>}
    \cup {<<Plain("root"), s>> : s \in Steps({"list"}, {Anywhere, 2}, {AnyAtt, "x"})}
    \cup {<<Plain("root"), Plain("list"), s>> : s \in Steps({"list", "entry"}, {Anywhere}, {AnyAtt, "x"})}

SomeBodies == {<<Empty("list", "x")>>, <<Empty("list", "y")>>, <<Empty("entry", "x")>>,
               <<Open("list", "x"), Close("list")>>, <<Open("entry", "x"), Close("entry")>>}
Nested(child) == <<Open("list", "x"), child, Close("list")>>

Roots      == {<<Open("root", NoTag), Close("root")>>, <<Empty("root", NoTag)>>}
TwoParents == {<<Open("root", NoTag)>> \o Nested(c1) \o Nested(c2) \o <<Close("root")>> :
                 c1 \in {Empty("list", "x"), Empty("entry", "x")}, c2 \in {Empty("list", "x"), Empty("entry", "x")}}
Named      == {<<Open("root", NoTag), Open("list", "x"), Empty("list", "x"), Close("list"),
                 Empty("list", "y"), Close("root")>>}
Stored     == Roots \cup TwoParents \cup Named
=============================================================================
