-------------------------- MODULE NodeLocator_proofs --------------------------
(***************************************************************************)
(* Lemmas about NodeLocator for documents of any length and selectors of    *)
(* any number of steps: the tree that the tags of a well-formed document    *)
(* spell out, the element that ElementLocator finds in it, the place that   *)
(* InsertPointLocator gives a new one, and the tree once it stands there.   *)
(***************************************************************************)
EXTENDS NodeLocator, FiniteSetTheorems, SequenceTheorems, WellFoundedInduction, TLAPS

-----------------------------------------------------------------------------
(* Induction over the tags of a document or the steps of a selector. What   *)
(* holds of a number is put as its being in a set.                          *)

LEMMA LeastOf ==
    ASSUME NEW S, S \subseteq Nat, S # {}
    PROVE  \E n \in S : \A m \in S : n <= m
<1> DEFINE Less == {p \in Nat \X Nat : p[1] < p[2]}
<1>1. IsWellFoundedOn(Less, Nat)
  BY NatLessThanWellFounded DEF OpToRel
<1>2. PICK n \in S : \A m \in S : ~(<<m, n>> \in Less)
  <2> HIDE DEF Less
  <2> QED
    BY <1>1, WFMin
<1>3. ASSUME NEW m \in S PROVE n <= m
  <2>1. m \in Nat /\ n \in Nat /\ ~(m < n)
    BY <1>2
  <2> QED
    BY <2>1
<1> QED
  BY <1>3

LEMMA Induction ==
    ASSUME NEW n \in Nat, NEW S, 0 \in S,
           \A i \in 1..n : i - 1 \in S => i \in S
    PROVE  0..n \subseteq S
<1> SUFFICES ASSUME (0..n) \ S # {} PROVE FALSE
  OBVIOUS
<1>1. PICK i \in (0..n) \ S : \A j \in (0..n) \ S : i <= j
  <2>1. (0..n) \ S \subseteq Nat
    OBVIOUS
  <2> QED
    BY <2>1, LeastOf
<1>2. i \in 1..n /\ i - 1 \in 0..n
  OBVIOUS
<1> QED
  BY <1>1, <1>2

-----------------------------------------------------------------------------
(* Sequences.                                                               *)

LEMMA FrontOf ==
    ASSUME NEW S, NEW s \in Seq(S), s # <<>>
    PROVE  /\ Len(s) \in Nat \ {0}
           /\ Front(s) \in Seq(S) /\ Len(Front(s)) = Len(s) - 1
           /\ \A k \in 1..Len(s) - 1 : Front(s)[k] = s[k]
           /\ Last(s) = s[Len(s)]
<1>1. Len(s) \in Nat \ {0}
  OBVIOUS
<1>2. Front(s) = SubSeq(s, 1, Len(s) - 1) /\ Last(s) = s[Len(s)]
  BY DEF Front, Last
<1>3. \A k \in 1..Len(s) - 1 : s[k] \in S
  OBVIOUS
<1> DEFINE n == Len(s) - 1
           f == SubSeq(s, 1, n)
<1>4. 1 \in Int /\ n \in Int /\ (1 <= n \/ n = 0) /\ n - 1 + 1 = n /\ \A k \in 1..n : 1 + k - 1 = k
  BY <1>1
<1>5. \A k \in 1..n : s[k] \in S
  BY <1>3
<1> HIDE DEF n
<1>6. /\ f \in Seq(S)
      /\ Len(f) = IF 1 <= n THEN n - 1 + 1 ELSE 0
      /\ \A k \in 1..n - 1 + 1 : f[k] = s[1 + k - 1]
  BY <1>4, <1>5, SubSeqProperties
<1> HIDE DEF f
<1>7. Len(f) = n /\ \A k \in 1..n : f[k] = s[k]
  BY <1>4, <1>6
<1>8. Front(s) = f
  BY <1>2 DEF f, n
<1> QED
  BY <1>1, <1>2, <1>6, <1>7, <1>8 DEF n

-----------------------------------------------------------------------------
(* The recursive functions are what their equations say.                    *)

LEMMA OpenNamesDef ==
    ASSUME NEW doc, Len(doc) \in Nat
    PROVE  OpenNames(doc) =
             [i \in 0..Len(doc) |->
                IF i = 0 THEN <<>> ELSE Opened(OpenNames(doc)[i - 1], doc[i])]
<1> DEFINE Rec(f, n) == f = [i \in 0..n |-> IF i = 0 THEN <<>> ELSE Opened(f[i - 1], doc[i])]
           S == {n \in Nat : \E f : Rec(f, n)}
<1>1. 0 \in S
  <2>1. Rec([i \in 0..0 |-> <<>>], 0)
    OBVIOUS
  <2> QED
    BY <2>1
<1>2. ASSUME NEW n \in 1..Len(doc), n - 1 \in S PROVE n \in S
  <2>1. PICK f : Rec(f, n - 1)
    BY <1>2
  <2> DEFINE g == [i \in 0..n |-> IF i = n THEN Opened(f[n - 1], doc[n]) ELSE f[i]]
  <2>2. ASSUME NEW i \in 0..n
        PROVE  g[i] = IF i = 0 THEN <<>> ELSE Opened(g[i - 1], doc[i])
    BY <2>1
  <2>3. Rec(g, n) /\ n \in Nat
    BY <2>2
  <2> HIDE DEF Rec, g
  <2> QED
    BY <2>3
<1>3. Len(doc) \in S
  <2> HIDE DEF S
  <2>1. 0..Len(doc) \subseteq S
    BY <1>1, <1>2, Induction
  <2> QED
    BY <2>1
<1>4. \E f : Rec(f, Len(doc))
  BY <1>3
<1> QED
  BY <1>4 DEF OpenNames
LEMMA ElementStatesDef ==
    ASSUME NEW doc, NEW sel, Len(doc) \in Nat
    PROVE  ElementStates(doc, sel) =
             [i \in 0..Len(doc) |->
                IF i = 0 THEN StartDocument ELSE ElementEvents(ElementStates(doc, sel)[i - 1], sel, doc[i], i)]
<1> DEFINE Rec(f, n) ==
             f = [i \in 0..n |-> IF i = 0 THEN StartDocument ELSE ElementEvents(f[i - 1], sel, doc[i], i)]
           S == {n \in Nat : \E f : Rec(f, n)}
<1>1. 0 \in S
  <2>1. Rec([i \in 0..0 |-> StartDocument], 0)
    OBVIOUS
  <2> QED
    BY <2>1
<1>2. ASSUME NEW n \in 1..Len(doc), n - 1 \in S PROVE n \in S
  <2>1. PICK f : Rec(f, n - 1)
    BY <1>2
  <2> DEFINE g == [i \in 0..n |-> IF i = n THEN ElementEvents(f[n - 1], sel, doc[n], n) ELSE f[i]]
  <2>2. ASSUME NEW i \in 0..n
        PROVE  g[i] = IF i = 0 THEN StartDocument ELSE ElementEvents(g[i - 1], sel, doc[i], i)
    BY <2>1
  <2>3. Rec(g, n) /\ n \in Nat
    BY <2>2
  <2> HIDE DEF Rec, g
  <2> QED
    BY <2>3
<1>3. Len(doc) \in S
  <2> HIDE DEF S
  <2>1. 0..Len(doc) \subseteq S
    BY <1>1, <1>2, Induction
  <2> QED
    BY <2>1
<1>4. \E f : Rec(f, Len(doc))
  BY <1>3
<1> QED
  BY <1>4 DEF ElementStates

LEMMA SelectedUpToDef ==
    ASSUME NEW doc, NEW sel, Len(sel) \in Nat
    PROVE  SelectedUpTo(doc, sel) =
             [i \in 0..Len(sel) |->
                IF i = 0 THEN {0} ELSE Chosen(doc, SelectedUpTo(doc, sel)[i - 1], sel[i])]
<1> DEFINE Above == {0}
<1> HIDE DEF Above
<1> DEFINE Rec(f, n) ==
             f = [i \in 0..n |-> IF i = 0 THEN Above ELSE Chosen(doc, f[i - 1], sel[i])]
           S == {n \in Nat : \E f : Rec(f, n)}
<1>1. 0 \in S
  <2>1. Rec([i \in 0..0 |-> Above], 0)
    OBVIOUS
  <2> QED
    BY <2>1
<1>2. ASSUME NEW n \in 1..Len(sel), n - 1 \in S PROVE n \in S
  <2>1. PICK f : Rec(f, n - 1)
    BY <1>2
  <2> DEFINE g == [i \in 0..n |-> IF i = n THEN Chosen(doc, f[n - 1], sel[n]) ELSE f[i]]
  <2>2. ASSUME NEW i \in 0..n
        PROVE  g[i] = IF i = 0 THEN Above ELSE Chosen(doc, g[i - 1], sel[i])
    BY <2>1
  <2>3. Rec(g, n) /\ n \in Nat
    BY <2>2
  <2> HIDE DEF Rec, g
  <2> QED
    BY <2>3
<1>3. Len(sel) \in S
  <2> HIDE DEF S
  <2>1. 0..Len(sel) \subseteq S
    BY <1>1, <1>2, Induction
  <2> QED
    BY <2>1
<1>4. \E f : Rec(f, Len(sel))
  BY <1>3
<1> QED
  BY <1>4 DEF SelectedUpTo, Above

-----------------------------------------------------------------------------
(* The tree of a well-formed document. The level of a tag is how many       *)
(* elements are open after it; an element is still open as long as the      *)
(* level does not fall below its own.                                       *)

Parsed(doc) == doc \in Seq(Tag) /\ WellFormed(doc)

Level(doc, i) == Len(OpenNames(doc)[i])

IsOpen(doc, j, i) ==
    /\ j \in 1..i /\ doc[j].kind = "open"
    /\ \A h \in j..i : Level(doc, h) >= Level(doc, j)

(* What OpenNames may contain. (Opaque: the prover does not know that a      *)
(* string literal is in STRING.)                                            *)
Label == STRING \cup {NoTag}

LEMMA TagType ==
    ASSUME NEW doc \in Seq(Tag)
    PROVE  /\ Len(doc) \in Nat
           /\ NoTag \in Label
           /\ \A i \in 1..Len(doc) :
                /\ doc[i].kind \in {"open", "close", "empty"}
                /\ doc[i].name \in Label /\ doc[i].name # NoTag /\ doc[i].att \in Label
                /\ doc[i] = [kind |-> doc[i].kind, name |-> doc[i].name, att |-> doc[i].att]
                /\ doc[i].kind = "close" => doc[i].att = NoTag
<1>1. Len(doc) \in Nat /\ \A i \in 1..Len(doc) : doc[i] \in Tag
  OBVIOUS
<1>2. \A t \in Tag : /\ t.kind \in {"open", "close", "empty"}
                     /\ t.name \in Label /\ t.name # NoTag /\ t.att \in Label
                     /\ t = [kind |-> t.kind, name |-> t.name, att |-> t.att]
                     /\ t.kind = "close" => t.att = NoTag
  BY DEF Tag, Label
<1> QED
  BY <1>1, <1>2, Zenon DEF Label

LEMMA OpenNamesStep ==
    ASSUME NEW doc \in Seq(Tag)
    PROVE  /\ OpenNames(doc)[0] = <<>>
           /\ \A i \in 1..Len(doc) : OpenNames(doc)[i] = Opened(OpenNames(doc)[i - 1], doc[i])
<1> DEFINE open == OpenNames(doc)
<1>1. Len(doc) \in Nat
  BY TagType
<1>2. open = [i \in 0..Len(doc) |-> IF i = 0 THEN <<>> ELSE Opened(open[i - 1], doc[i])]
  BY <1>1, OpenNamesDef
<1> HIDE DEF open
<1>3. open[0] = <<>>
  BY <1>1, <1>2
<1>4. ASSUME NEW i \in 1..Len(doc) PROVE open[i] = Opened(open[i - 1], doc[i])
  <2>1. i \in 0..Len(doc) /\ i # 0
    BY <1>1
  <2>2. open[i] = IF i = 0 THEN <<>> ELSE Opened(open[i - 1], doc[i])
    BY <1>2, <2>1
  <2> QED
    BY <2>1, <2>2
<1> QED
  BY <1>3, <1>4 DEF open

(* Opened, kind by kind.                                                    *)
LEMMA OpenedCases ==
    ASSUME NEW doc \in Seq(Tag), NEW i \in 1..Len(doc)
    PROVE  LET was == OpenNames(doc)[i - 1]
               now == OpenNames(doc)[i]
           IN  /\ doc[i].kind = "open"  => now = Append(was, doc[i].name)
               /\ doc[i].kind = "empty" => now = was
               /\ doc[i].kind = "close" /\ was # <<>> /\ Last(was) = doc[i].name => now = Front(was)
               /\ doc[i].kind = "close" /\ ~(was # <<>> /\ Last(was) = doc[i].name) => now = Append(was, NoTag)
<1> DEFINE was == OpenNames(doc)[i - 1]
           now == OpenNames(doc)[i]
<1>1. now = Opened(was, doc[i])
  BY OpenNamesStep
<1> HIDE DEF was, now
<1>2. doc[i].kind = "open" => now = Append(was, doc[i].name)
  BY <1>1 DEF Opened
<1>3. doc[i].kind = "empty" => now = was
  BY <1>1 DEF Opened
<1>4. doc[i].kind = "close" /\ was # <<>> /\ Last(was) = doc[i].name => now = Front(was)
  BY <1>1 DEF Opened
<1>5. doc[i].kind = "close" /\ ~(was # <<>> /\ Last(was) = doc[i].name) => now = Append(was, NoTag)
  BY <1>1 DEF Opened
<1> QED
  BY <1>2, <1>3, <1>4, <1>5 DEF was, now

LEMMA OpenNamesType ==
    ASSUME NEW doc \in Seq(Tag)
    PROVE  \A i \in 0..Len(doc) : OpenNames(doc)[i] \in Seq(Label)
<1> DEFINE open == OpenNames(doc)
           S == {i \in 0..Len(doc) : open[i] \in Seq(Label)}
<1>1. 0 \in S
  <2>1. open[0] = <<>> /\ 0 \in 0..Len(doc)
    BY OpenNamesStep, TagType
  <2> HIDE DEF open
  <2>2. open[0] \in Seq(Label)
    BY <2>1
  <2> QED
    BY <2>1, <2>2
<1>2. ASSUME NEW i \in 1..Len(doc), i - 1 \in S PROVE i \in S
  <2>1. open[i - 1] \in Seq(Label)
    BY <1>2
  <2>2. doc[i].name \in Label /\ NoTag \in Label /\ doc[i].kind \in {"open", "close", "empty"}
    BY TagType
  <2>3. \/ open[i] = Append(open[i - 1], doc[i].name)
        \/ open[i] = open[i - 1]
        \/ open[i - 1] # <<>> /\ open[i] = Front(open[i - 1])
        \/ open[i] = Append(open[i - 1], NoTag)
    BY <2>2, OpenedCases
  <2> HIDE DEF open
  <2>4. open[i] \in Seq(Label)
    <3>1. \A x \in Label : Append(open[i - 1], x) \in Seq(Label)
      BY <2>1, AppendProperties
    <3>2. open[i - 1] # <<>> => Front(open[i - 1]) \in Seq(Label)
      BY <2>1, FrontOf
    <3> QED
      BY <2>1, <2>2, <2>3, <3>1, <3>2
  <2> QED
    BY <2>4, TagType
<1> QED
  <2> HIDE DEF S
  <2>1. 0..Len(doc) \subseteq S
    BY <1>1, <1>2, Induction, TagType
  <2> QED
    BY <2>1 DEF S

(* An end tag that ends nothing would be noticed at the end.                *)
LEMMA EndTagsMatch ==
    ASSUME NEW doc, Parsed(doc), NEW m \in 1..Len(doc), doc[m].kind = "close"
    PROVE  OpenNames(doc)[m - 1] # <<>> /\ Last(OpenNames(doc)[m - 1]) = doc[m].name
<1> DEFINE open == OpenNames(doc)
           bad  == Append(open[m - 1], NoTag)
           lost(i) == Len(open[i]) >= Len(bad) /\ open[i][Len(bad)] = NoTag
           S == {k \in 0..Len(doc) - m : lost(m + k)}
<1>0. /\ doc \in Seq(Tag) /\ Len(doc) \in Nat /\ open[Len(doc)] = <<>>
      /\ \A i \in 0..Len(doc) : open[i] \in Seq(Label)
  BY OpenNamesType, TagType DEF Parsed, WellFormed
<1> SUFFICES ASSUME open[m] = bad PROVE FALSE
  BY <1>0, OpenedCases
<1>1. bad \in Seq(Label) /\ Len(bad) \in Nat \ {0} /\ bad[Len(bad)] = NoTag
  <2>1. NoTag \in Label
    BY <1>0, TagType
  <2>2. open[m - 1] \in Seq(Label)
    BY <1>0
  <2> HIDE DEF open
  <2> QED
    BY <2>1, <2>2
<1>2. 0 \in S
  <2>1. m + 0 = m /\ Len(doc) - m \in Nat
    BY <1>0
  <2>2. lost(m)
    <3> HIDE DEF open, bad
    <3> QED
      BY <1>1
  <2> HIDE DEF lost
  <2> QED
    BY <2>1, <2>2
<1>3. ASSUME NEW k \in 1..Len(doc) - m, k - 1 \in S PROVE k \in S
  <2> DEFINE i == m + k
  <2>1. i \in 1..Len(doc) /\ i - 1 = m + (k - 1) /\ i - 1 \in 0..Len(doc)
    OBVIOUS
  <2>2. Len(open[i - 1]) >= Len(bad) /\ open[i - 1][Len(bad)] = NoTag
    BY <1>3, <2>1
  <2> HIDE DEF i
  <2>3. /\ doc[i].kind \in {"open", "close", "empty"} /\ doc[i].name # NoTag
        /\ doc[i].name \in Label /\ NoTag \in Label /\ open[i - 1] \in Seq(Label)
    BY <1>0, <2>1, TagType
  <2>4. \/ open[i] = Append(open[i - 1], doc[i].name)
        \/ open[i] = open[i - 1]
        \/ open[i - 1] # <<>> /\ Last(open[i - 1]) = doc[i].name /\ open[i] = Front(open[i - 1])
        \/ open[i] = Append(open[i - 1], NoTag)
    BY <1>0, <2>1, <2>3, OpenedCases
  <2> HIDE DEF open, bad
  <2>5. Len(open[i]) >= Len(bad) /\ open[i][Len(bad)] = NoTag
    <3>1. CASE open[i] = Append(open[i - 1], doc[i].name) \/ open[i] = Append(open[i - 1], NoTag)
      <4>1. \A x \in Label : /\ Len(Append(open[i - 1], x)) = Len(open[i - 1]) + 1
                              /\ \A k1 \in 1..Len(open[i - 1]) : Append(open[i - 1], x)[k1] = open[i - 1][k1]
        BY <2>3, AppendProperties
      <4> QED
        BY <1>1, <2>2, <2>3, <3>1, <4>1
    <3>2. CASE open[i - 1] # <<>> /\ Last(open[i - 1]) = doc[i].name /\ open[i] = Front(open[i - 1])
      <4>1. Len(open[i - 1]) # Len(bad)
        BY <2>2, <2>3, <3>2, FrontOf
      <4>2. /\ Len(open[i]) = Len(open[i - 1]) - 1 /\ Len(open[i - 1]) \in Nat
            /\ \A k1 \in 1..Len(open[i - 1]) - 1 : open[i][k1] = open[i - 1][k1]
        BY <2>3, <3>2, FrontOf
      <4> QED
        BY <1>1, <2>2, <4>1, <4>2
    <3> QED
      BY <2>2, <2>4, <3>1, <3>2
  <2> QED
    BY <2>5 DEF i
<1>4. 0..Len(doc) - m \subseteq S
  <2>1. Len(doc) - m \in Nat
    BY <1>0
  <2> HIDE DEF S
  <2> QED
    BY <1>2, <1>3, <2>1, Induction
<1>5. lost(Len(doc))
  <2>1. Len(doc) - m \in 0..Len(doc) - m /\ m + (Len(doc) - m) = Len(doc)
    BY <1>0
  <2> HIDE DEF lost
  <2> QED
    BY <1>4, <2>1
<1> HIDE DEF open, bad
<1>6. Len(open[Len(doc)]) = 0
  BY <1>0
<1> QED
  BY <1>1, <1>5, <1>6

(* How the level goes, tag by tag.                                          *)
LEMMA Levels ==
    ASSUME NEW doc, Parsed(doc)
    PROVE  /\ Len(doc) \in Nat \ {0}
           /\ \A i \in 0..Len(doc) : Level(doc, i) \in Nat
           /\ Level(doc, 0) = 0 /\ Level(doc, Len(doc)) = 0
           /\ \A i \in 1..Len(doc) - 1 : Level(doc, i) >= 1
           /\ \A i \in 1..Len(doc) :
                /\ doc[i].kind = "open"  => Level(doc, i) = Level(doc, i - 1) + 1
                /\ doc[i].kind = "empty" => Level(doc, i) = Level(doc, i - 1)
                /\ doc[i].kind = "close" => Level(doc, i) = Level(doc, i - 1) - 1 /\ Level(doc, i - 1) >= 1
<1> DEFINE open == OpenNames(doc)
<1>0. /\ doc \in Seq(Tag) /\ Len(doc) \in Nat \ {0} /\ open[0] = <<>> /\ open[Len(doc)] = <<>>
      /\ \A i \in 1..Len(doc) - 1 : open[i] # <<>>
      /\ \A i \in 0..Len(doc) : open[i] \in Seq(Label)
  BY OpenNamesType, OpenNamesStep, TagType DEF Parsed, WellFormed
<1>1. ASSUME NEW i \in 1..Len(doc)
      PROVE  /\ doc[i].kind = "open"  => Len(open[i]) = Len(open[i - 1]) + 1
             /\ doc[i].kind = "empty" => Len(open[i]) = Len(open[i - 1])
             /\ doc[i].kind = "close" => Len(open[i]) = Len(open[i - 1]) - 1 /\ Len(open[i - 1]) >= 1
  <2>1. open[i - 1] \in Seq(Label)
    BY <1>0
  <2>a. doc[i].name \in Label
    BY <1>0, TagType
  <2>2. /\ doc[i].kind = "close" => open[i - 1] # <<>> /\ open[i] = Front(open[i - 1])
        /\ doc[i].kind = "open" => open[i] = Append(open[i - 1], doc[i].name)
        /\ doc[i].kind = "empty" => open[i] = open[i - 1]
    BY <1>0, EndTagsMatch, OpenedCases
  <2> HIDE DEF open
  <2> QED
    BY <2>1, <2>a, <2>2, FrontOf
<1>2. \A i \in 0..Len(doc) : Len(open[i]) \in Nat /\ (Len(open[i]) = 0 <=> open[i] = <<>>)
  <2> HIDE DEF open
  <2> QED
    BY <1>0
<1> QED
  BY <1>0, <1>1, <1>2 DEF Level

(* The open elements: one at each level, and the names of OpenNames are     *)
(* theirs.                                                                  *)
LEMMA OpenAt ==
    ASSUME NEW doc, Parsed(doc), NEW i \in 0..Len(doc), NEW k \in 1..Level(doc, i)
    PROVE  \E j : IsOpen(doc, j, i) /\ Level(doc, j) = k
<1> DEFINE n == Len(doc)
           S == {h \in 0..n : \A l \in 1..Level(doc, h) : \E j : IsOpen(doc, j, h) /\ Level(doc, j) = l}
<1>0. /\ n \in Nat /\ Level(doc, 0) = 0 /\ \A h \in 0..n : Level(doc, h) \in Nat
      /\ \A h \in 1..n : /\ doc[h].kind \in {"open", "close", "empty"}
                         /\ doc[h].kind = "open"  => Level(doc, h) = Level(doc, h - 1) + 1
                         /\ doc[h].kind # "open"  => Level(doc, h) <= Level(doc, h - 1)
  <2>1. /\ n \in Nat /\ Level(doc, 0) = 0 /\ \A h \in 0..n : Level(doc, h) \in Nat
        /\ \A h \in 1..n : doc[h].kind \in {"open", "close", "empty"}
    BY Levels, TagType DEF Parsed
  <2>2. ASSUME NEW h \in 1..n
        PROVE  /\ doc[h].kind = "open"  => Level(doc, h) = Level(doc, h - 1) + 1
               /\ doc[h].kind # "open"  => Level(doc, h) <= Level(doc, h - 1)
    <3>1. Level(doc, h) \in Nat /\ Level(doc, h - 1) \in Nat
      BY <2>1
    <3> QED
      BY <2>1, <3>1, Levels
  <2> QED
    BY <2>1, <2>2
<1> HIDE DEF n
<1>1. 0 \in S
  BY <1>0
<1>2. ASSUME NEW h \in 1..n, h - 1 \in S PROVE h \in S
  <2> SUFFICES ASSUME NEW l \in 1..Level(doc, h) PROVE \E j : IsOpen(doc, j, h) /\ Level(doc, j) = l
    BY <1>0
  <2>1. CASE doc[h].kind = "open" /\ l = Level(doc, h)
    <3>1. IsOpen(doc, h, h)
      BY <1>0, <2>1 DEF IsOpen
    <3> QED
      BY <2>1, <3>1
  <2>2. CASE ~(doc[h].kind = "open" /\ l = Level(doc, h))
    <3>1. l \in 1..Level(doc, h - 1) /\ h - 1 \in 0..n /\ Level(doc, h) \in Nat
      BY <1>0, <2>2
    <3>2. PICK j : IsOpen(doc, j, h - 1) /\ Level(doc, j) = l
      BY <1>2, <3>1
    <3>3. j \in 1..h /\ doc[j].kind = "open" /\ \A g \in j..h : g = h \/ g \in j..h - 1
      BY <1>0, <3>2 DEF IsOpen
    <3>4. IsOpen(doc, j, h)
      BY <3>1, <3>2, <3>3 DEF IsOpen
    <3> QED
      BY <3>2, <3>4
  <2> QED
    BY <2>1, <2>2
<1>3. 0..n \subseteq S
  <2> HIDE DEF S
  <2> QED
    BY <1>0, <1>1, <1>2, Induction
<1> QED
  BY <1>3 DEF n

LEMMA OpenOnce ==
    ASSUME NEW doc, Parsed(doc), NEW i \in 0..Len(doc), NEW j, NEW k,
           IsOpen(doc, j, i), IsOpen(doc, k, i), j < k
    PROVE  Level(doc, j) < Level(doc, k)
<1>1. /\ Len(doc) \in Nat /\ j \in 1..i /\ k \in 1..i /\ k - 1 \in j..i /\ k \in 1..Len(doc)
      /\ doc[k].kind = "open" /\ Level(doc, k - 1) >= Level(doc, j)
  BY Levels DEF IsOpen
<1>2. Level(doc, k) = Level(doc, k - 1) + 1 /\ Level(doc, k - 1) \in Nat /\ Level(doc, j) \in Nat
  BY <1>1, Levels
<1> QED
  BY <1>1, <1>2

LEMMA OpenName ==
    ASSUME NEW doc, Parsed(doc), NEW i \in 0..Len(doc), NEW j, IsOpen(doc, j, i)
    PROVE  OpenNames(doc)[i][Level(doc, j)] = doc[j].name
<1> DEFINE n == Len(doc)
           open == OpenNames(doc)
           S == {h \in 0..n : \A g \in 1..h : IsOpen(doc, g, h) => open[h][Level(doc, g)] = doc[g].name}
<1>0. /\ doc \in Seq(Tag) /\ n \in Nat
      /\ \A h \in 0..n : Level(doc, h) \in Nat /\ Level(doc, h) = Len(open[h]) /\ open[h] \in Seq(Label)
      /\ \A h \in 1..n : /\ doc[h].kind \in {"open", "close", "empty"} /\ doc[h].name \in Label
                         /\ doc[h].kind = "open"  => Level(doc, h) = Level(doc, h - 1) + 1
  BY Levels, TagType, OpenNamesType DEF Parsed, Level
<1>1. 0 \in S
  BY <1>0
<1>2. ASSUME NEW h \in 1..n, h - 1 \in S PROVE h \in S
  <2> SUFFICES ASSUME NEW g \in 1..h, IsOpen(doc, g, h) PROVE open[h][Level(doc, g)] = doc[g].name
    BY <1>0
  <2>0. /\ h - 1 \in 0..n /\ h \in 0..n /\ g \in 0..n
        /\ open[h - 1] \in Seq(Label) /\ doc[h].name \in Label
        /\ Level(doc, h) = Len(open[h]) /\ Level(doc, h - 1) = Len(open[h - 1])
        /\ Level(doc, g) \in Nat /\ Level(doc, h) \in Nat /\ Level(doc, h - 1) \in Nat
    BY <1>0
  <2>1. doc[g].kind = "open" /\ Level(doc, h) >= Level(doc, g) /\ Level(doc, g) >= 1
    <3>1. g \in 1..n /\ g - 1 \in 0..n /\ doc[g].kind = "open"
      BY <1>0 DEF IsOpen
    <3>2. Level(doc, g) = Level(doc, g - 1) + 1 /\ Level(doc, g - 1) \in Nat
      BY <1>0, <3>1
    <3> QED
      BY <2>0, <3>2 DEF IsOpen
  <2>2. /\ doc[h].kind = "close" => open[h - 1] # <<>> /\ open[h] = Front(open[h - 1])
        /\ doc[h].kind = "open" => open[h] = Append(open[h - 1], doc[h].name)
        /\ doc[h].kind = "empty" => open[h] = open[h - 1]
    BY <1>0, EndTagsMatch, OpenedCases
  <2>3. CASE g = h
    <3>1. open[h] = Append(open[h - 1], doc[h].name)
      BY <2>1, <2>2, <2>3
    <3> HIDE DEF open
    <3>2. Len(open[h]) = Len(open[h - 1]) + 1 /\ open[h][Len(open[h - 1]) + 1] = doc[h].name
      BY <2>0, <3>1, AppendProperties
    <3> QED
      BY <2>0, <2>3, <3>2
  <2>4. CASE g # h
    <3>1. IsOpen(doc, g, h - 1)
      BY <2>0, <2>4 DEF IsOpen
    <3>2. open[h - 1][Level(doc, g)] = doc[g].name /\ Level(doc, h - 1) >= Level(doc, g)
      BY <1>2, <2>4, <3>1 DEF IsOpen
    <3> HIDE DEF open
    <3>3. CASE doc[h].kind = "open"
      <4>1. Append(open[h - 1], doc[h].name)[Level(doc, g)] = open[h - 1][Level(doc, g)]
        BY <2>0, <2>1, <3>2, AppendProperties
      <4> QED
        BY <2>2, <3>2, <3>3, <4>1
    <3>4. CASE doc[h].kind = "close"
      <4>1. /\ Len(Front(open[h - 1])) = Len(open[h - 1]) - 1
            /\ \A k \in 1..Len(open[h - 1]) - 1 : Front(open[h - 1])[k] = open[h - 1][k]
        BY <2>0, <2>2, <3>4, FrontOf
      <4> QED
        BY <2>0, <2>1, <2>2, <3>2, <3>4, <4>1
    <3> QED
      BY <1>0, <2>2, <3>2, <3>3, <3>4
  <2> QED
    BY <2>3, <2>4
<1>3. 0..n \subseteq S
  <2> HIDE DEF S
  <2> QED
    BY <1>0, <1>1, <1>2, Induction
<1>4. j \in 1..i
  BY DEF IsOpen
<1> QED
  BY <1>3, <1>4

(* What Depth counts.                                                       *)
LEMMA DepthIs ==
    ASSUME NEW doc, Parsed(doc), NEW i \in 1..Len(doc)
    PROVE  Depth(doc, i) = Level(doc, i - 1)
<1> DEFINE n == Len(doc)
           opens(h) == {j \in 1..h : doc[j].kind = "open"}
           closes(h) == {j \in 1..h : doc[j].kind = "close"}
           S == {h \in 0..n : Cardinality(opens(h)) - Cardinality(closes(h)) = Level(doc, h)}
<1>0. /\ n \in Nat /\ Level(doc, 0) = 0
      /\ \A h \in 0..n : Level(doc, h) \in Nat
      /\ \A h \in 1..n : /\ doc[h].kind \in {"open", "close", "empty"}
                         /\ doc[h].kind = "open"  => Level(doc, h) = Level(doc, h - 1) + 1
                         /\ doc[h].kind = "close" => Level(doc, h) = Level(doc, h - 1) - 1
                         /\ doc[h].kind = "empty" => Level(doc, h) = Level(doc, h - 1)
  BY Levels, TagType DEF Parsed
<1> HIDE DEF n
<1>1. 0 \in S
  <2>1. opens(0) = {} /\ closes(0) = {}
    OBVIOUS
  <2> QED
    BY <1>0, <2>1, FS_EmptySet
<1>2. ASSUME NEW h \in 1..n, h - 1 \in S PROVE h \in S
  <2>1. /\ IsFiniteSet(opens(h - 1)) /\ IsFiniteSet(closes(h - 1))
        /\ Cardinality(opens(h - 1)) \in Nat /\ Cardinality(closes(h - 1)) \in Nat
    <3>1. IsFiniteSet(1..h - 1)
      BY <1>0, FS_Interval
    <3>2. opens(h - 1) \subseteq 1..h - 1 /\ closes(h - 1) \subseteq 1..h - 1
      OBVIOUS
    <3> HIDE DEF opens, closes
    <3>3. IsFiniteSet(opens(h - 1)) /\ IsFiniteSet(closes(h - 1))
      BY <3>1, <3>2, FS_Subset
    <3> QED
      BY <3>3, FS_CardinalityType
  <2>2. /\ h \notin opens(h - 1) /\ h \notin closes(h - 1)
        /\ opens(h) = IF doc[h].kind = "open" THEN opens(h - 1) \cup {h} ELSE opens(h - 1)
        /\ closes(h) = IF doc[h].kind = "close" THEN closes(h - 1) \cup {h} ELSE closes(h - 1)
    BY <1>0
  <2>3. Cardinality(opens(h - 1)) - Cardinality(closes(h - 1)) = Level(doc, h - 1)
    BY <1>2
  <2> HIDE DEF opens, closes
  <2>4. /\ Cardinality(opens(h - 1) \cup {h}) = Cardinality(opens(h - 1)) + 1
        /\ Cardinality(closes(h - 1) \cup {h}) = Cardinality(closes(h - 1)) + 1
    BY <2>1, <2>2, FS_AddElement
  <2>5. Cardinality(opens(h)) - Cardinality(closes(h)) = Level(doc, h)
    <3>1. CASE doc[h].kind = "open"
      <4>1. opens(h) = opens(h - 1) \cup {h} /\ closes(h) = closes(h - 1)
        BY <2>2, <3>1
      <4> QED
        BY <1>0, <2>1, <2>3, <2>4, <3>1, <4>1
    <3>2. CASE doc[h].kind = "close"
      <4>1. opens(h) = opens(h - 1) /\ closes(h) = closes(h - 1) \cup {h}
        BY <2>2, <3>2
      <4> QED
        BY <1>0, <2>1, <2>3, <2>4, <3>2, <4>1
    <3>3. CASE doc[h].kind = "empty"
      <4>1. opens(h) = opens(h - 1) /\ closes(h) = closes(h - 1)
        BY <2>2, <3>3
      <4> QED
        BY <1>0, <2>3, <3>3, <4>1
    <3> QED
      BY <1>0, <3>1, <3>2, <3>3
  <2> QED
    BY <1>0, <2>5
<1>3. 0..n \subseteq S
  <2> HIDE DEF S
  <2> QED
    BY <1>0, <1>1, <1>2, Induction
<1>4. i - 1 \in 0..n
  BY <1>0 DEF n
<1>5. Cardinality(opens(i - 1)) - Cardinality(closes(i - 1)) = Level(doc, i - 1)
  <2> HIDE DEF opens, closes
  <2> QED
    BY <1>3, <1>4
<1> QED
  BY <1>5 DEF Depth

(* What Parent and EndOf choose.                                            *)
LEMMA ParentIs ==
    ASSUME NEW doc, Parsed(doc), NEW i \in 1..Len(doc), NEW j,
           IsOpen(doc, j, i - 1), Level(doc, j) = Level(doc, i - 1)
    PROVE  Parent(doc, i) = j
<1> DEFINE above == {k \in 1..i - 1 : doc[k].kind = "open" /\ Depth(doc, k) = Depth(doc, i) - 1}
<1>1. /\ i - 1 \in 0..Len(doc) /\ i - 1 \in Nat /\ j \in 1..i - 1 /\ doc[j].kind = "open"
      /\ \A h \in 0..Len(doc) : Level(doc, h) \in Nat
      /\ \A h \in 1..Len(doc) : doc[h].kind = "open" => Level(doc, h) = Level(doc, h - 1) + 1
      /\ \A h \in 1..Len(doc) : Depth(doc, h) = Level(doc, h - 1)
  BY Levels, DepthIs DEF IsOpen
<1>2. j \in above
  <2>1. j \in 1..Len(doc) /\ j - 1 \in 0..Len(doc)
    BY <1>1
  <2>2. /\ Depth(doc, j) = Level(doc, j - 1) /\ Depth(doc, i) = Level(doc, i - 1)
        /\ Level(doc, j) = Level(doc, j - 1) + 1 /\ Level(doc, j - 1) \in Nat
    BY <1>1, <2>1
  <2>3. Depth(doc, j) = Depth(doc, i) - 1
    BY <2>2
  <2> QED
    BY <1>1, <2>3
<1>3. ASSUME NEW k \in above PROVE k <= j
  <2> SUFFICES ASSUME j < k PROVE FALSE
    BY <1>1
  <2>1. k \in 1..Len(doc) /\ k - 1 \in j..i - 1 /\ k - 1 \in 0..Len(doc) /\ doc[k].kind = "open"
    BY <1>1
  <2>2. Depth(doc, k) = Depth(doc, i) - 1
    OBVIOUS
  <2>3. Level(doc, k - 1) >= Level(doc, j) /\ Level(doc, i - 1) \in Nat
    BY <1>1, <2>1 DEF IsOpen
  <2>4. Depth(doc, k) = Level(doc, k - 1) /\ Depth(doc, i) = Level(doc, i - 1)
    BY <1>1, <2>1
  <2> QED
    BY <2>2, <2>3, <2>4
<1>4. Parent(doc, i) = CHOOSE k \in above : \A l \in above : l <= k
  BY <1>2 DEF Parent
<1>5. \A k \in above : k \in Nat
  BY <1>1
<1> HIDE DEF above
<1>6. ASSUME NEW k \in above, \A l \in above : l <= k PROVE k = j
  BY <1>1, <1>2, <1>3, <1>5, <1>6
<1> QED
  BY <1>2, <1>3, <1>4, <1>6

LEMMA RootIs ==
    ASSUME NEW doc, Parsed(doc)
    PROVE  /\ 1 \in Elements(doc) /\ Parent(doc, 1) = 0
           /\ \A i \in 2..Len(doc) : Parent(doc, i) # 0
<1>1. /\ doc \in Seq(Tag) /\ Len(doc) \in Nat \ {0} /\ Level(doc, 0) = 0
      /\ \A i \in 1..Len(doc) - 1 : Level(doc, i) \in Nat /\ Level(doc, i) >= 1
      /\ doc[1].kind # "close"
  <2>1. 1 \in 1..Len(doc)
    BY Levels
  <2>2. doc[1].kind # "close"
    BY <2>1, Levels
  <2> QED
    BY <2>2, Levels DEF Parsed
<1>2. Parent(doc, 1) = 0
  BY DEF Parent
<1>3. ASSUME NEW i \in 2..Len(doc) PROVE Parent(doc, i) # 0
  <2>1. i \in 1..Len(doc) /\ i - 1 \in 0..Len(doc) /\ Level(doc, i - 1) \in 1..Level(doc, i - 1)
    BY <1>1
  <2>2. PICK j : IsOpen(doc, j, i - 1) /\ Level(doc, j) = Level(doc, i - 1)
    BY <2>1, OpenAt
  <2>3. Parent(doc, i) = j
    BY <2>1, <2>2, ParentIs
  <2> QED
    BY <1>1, <2>2, <2>3 DEF IsOpen
<1> QED
  BY <1>1, <1>2, <1>3 DEF Elements

(* The parent of an element: none for the root, else the innermost element  *)
(* open before it.                                                          *)
LEMMA ParentOf ==
    ASSUME NEW doc, Parsed(doc), NEW i \in 1..Len(doc)
    PROVE  \/ i = 1 /\ Parent(doc, i) = 0 /\ Level(doc, i - 1) = 0
           \/ /\ i > 1 /\ IsOpen(doc, Parent(doc, i), i - 1)
              /\ Level(doc, Parent(doc, i)) = Level(doc, i - 1)
              /\ Level(doc, i - 1) >= 1
<1>1. CASE i = 1
  BY <1>1, RootIs, Levels
<1>2. CASE i # 1
  <2>1. i - 1 \in 1..Len(doc) - 1 /\ i - 1 \in 0..Len(doc) /\ i > 1
    BY <1>2, Levels
  <2>2. Level(doc, i - 1) \in 1..Level(doc, i - 1) /\ Level(doc, i - 1) >= 1
    BY <2>1, Levels
  <2>3. PICK j : IsOpen(doc, j, i - 1) /\ Level(doc, j) = Level(doc, i - 1)
    BY <2>1, <2>2, OpenAt
  <2>4. Parent(doc, i) = j
    BY <2>3, ParentIs
  <2> QED
    BY <2>1, <2>2, <2>3, <2>4
<1> QED
  BY <1>1, <1>2

LEMMA EndIs ==
    ASSUME NEW doc, Parsed(doc), NEW e \in 1..Len(doc), NEW i,
           doc[e].kind = "close", IsOpen(doc, i, e - 1), Level(doc, e - 1) = Level(doc, i)
    PROVE  EndOf(doc, i) = e /\ doc[e] = Close(doc[i].name)
<1>1. /\ doc \in Seq(Tag) /\ Len(doc) \in Nat /\ e - 1 \in 0..Len(doc) /\ i \in 1..e - 1 /\ doc[i].kind = "open"
      /\ i \in 1..Len(doc) /\ e \in i + 1 .. Len(doc)
      /\ \A h \in 0..Len(doc) : Level(doc, h) \in Nat
      /\ \A h \in 1..Len(doc) : doc[h].kind = "close" => Level(doc, h) = Level(doc, h - 1) - 1
      /\ \A h \in 1..Len(doc) : Depth(doc, h) = Level(doc, h - 1)
      /\ Level(doc, i) = Level(doc, i - 1) + 1
  <2>1. i \in 1..e - 1 /\ doc[i].kind = "open"
    BY DEF IsOpen
  <2>2. doc \in Seq(Tag) /\ Len(doc) \in Nat
    BY DEF Parsed
  <2>3. /\ e - 1 \in 0..Len(doc) /\ i \in 1..Len(doc) /\ e \in i + 1 .. Len(doc)
    BY <2>1, <2>2
  <2>4. /\ \A h \in 0..Len(doc) : Level(doc, h) \in Nat
        /\ \A h \in 1..Len(doc) : doc[h].kind = "close" => Level(doc, h) = Level(doc, h - 1) - 1
        /\ \A h \in 1..Len(doc) : doc[h].kind = "open" => Level(doc, h) = Level(doc, h - 1) + 1
    BY Levels
  <2>5. \A h \in 1..Len(doc) : Depth(doc, h) = Level(doc, h - 1)
    BY DepthIs
  <2> QED
    BY <2>1, <2>2, <2>3, <2>4, <2>5
<1> DEFINE Ends(j) == doc[j].kind = "close" /\ Depth(doc, j) = Depth(doc, i) + 1
<1>2. Ends(e)
  BY <1>1
<1>3. ASSUME NEW k \in i + 1 .. e - 1 PROVE ~(doc[k].kind = "close" /\ Depth(doc, k) = Depth(doc, i) + 1)
  <2> SUFFICES ASSUME doc[k].kind = "close", Depth(doc, k) = Depth(doc, i) + 1 PROVE FALSE
    OBVIOUS
  <2>1. k \in 1..Len(doc) /\ k \in i..e - 1 /\ k \in 0..Len(doc) /\ k - 1 \in 0..Len(doc)
    BY <1>1
  <2>2. Level(doc, k) = Level(doc, i) - 1
    BY <1>1, <2>1
  <2>3. Level(doc, k) >= Level(doc, i)
    BY <2>1 DEF IsOpen
  <2>4. Level(doc, i) \in Nat
    BY <1>1
  <2> QED
    BY <2>2, <2>3, <2>4
<1> DEFINE Sought(j) == Ends(j) /\ \A k \in i + 1 .. j - 1 : doc[k].kind = "close" => Depth(doc, k) # Depth(doc, i) + 1
<1>4. Sought(e)
  BY <1>2, <1>3
<1>5. ASSUME NEW j \in i + 1 .. Len(doc), Sought(j) PROVE j = e
  <2>1. CASE j < e
    <3>1. j \in i + 1 .. e - 1
      BY <1>1, <2>1
    <3> QED
      BY <1>3, <1>5, <3>1
  <2>2. CASE e < j
    <3>1. e \in i + 1 .. j - 1
      BY <1>1, <2>2
    <3> QED
      BY <1>2, <1>5, <3>1
  <2> QED
    BY <1>1, <2>1, <2>2
<1>6. EndOf(doc, i) = CHOOSE j \in i + 1 .. Len(doc) : Sought(j)
  BY <1>1 DEF EndOf
<1>7. EndOf(doc, i) = e
  <2> HIDE DEF Sought
  <2> QED
    BY <1>1, <1>4, <1>5, <1>6
<1>8. doc[e] = Close(doc[i].name)
  <2> DEFINE open == OpenNames(doc)[e - 1]
  <2>1. open # <<>> /\ Last(open) = doc[e].name /\ open \in Seq(Label)
    BY <1>1, EndTagsMatch, OpenNamesType
  <2>2. Last(open) = open[Len(open)]
    <3> HIDE DEF open
    <3> QED
      BY <2>1, FrontOf
  <2>3. open[Level(doc, i)] = doc[i].name /\ Len(open) = Level(doc, i)
    BY <1>1, OpenName DEF Level
  <2>4. doc[e].name = doc[i].name
    <3> HIDE DEF open
    <3> QED
      BY <2>1, <2>2, <2>3
  <2>5. doc[e] = [kind |-> doc[e].kind, name |-> doc[e].name, att |-> doc[e].att] /\ doc[e].att = NoTag
    BY <1>1, TagType
  <2> QED
    BY <2>4, <2>5 DEF Close
<1> QED
  BY <1>7, <1>8

-----------------------------------------------------------------------------
(* The elements that the first steps of a selector select: all at one       *)
(* level, and below selected elements only.                                 *)

SelectorOf(sel) == sel \in Seq(StepOf) /\ Len(sel) > 0

LEMMA SelectedStep ==
    ASSUME NEW doc, NEW sel, SelectorOf(sel)
    PROVE  /\ Len(sel) \in Nat \ {0}
           /\ SelectedUpTo(doc, sel)[0] = {0}
           /\ \A k \in 1..Len(sel) :
                SelectedUpTo(doc, sel)[k] = Chosen(doc, SelectedUpTo(doc, sel)[k - 1], sel[k])
<1> DEFINE upTo == SelectedUpTo(doc, sel)
<1>1. Len(sel) \in Nat \ {0}
  BY DEF SelectorOf
<1>2. upTo = [k \in 0..Len(sel) |-> IF k = 0 THEN {0} ELSE Chosen(doc, upTo[k - 1], sel[k])]
  BY <1>1, SelectedUpToDef
<1> HIDE DEF upTo
<1>3. upTo[0] = {0}
  BY <1>1, <1>2
<1>4. ASSUME NEW k \in 1..Len(sel) PROVE upTo[k] = Chosen(doc, upTo[k - 1], sel[k])
  <2>1. k \in 0..Len(sel) /\ k # 0
    BY <1>1
  <2>2. upTo[k] = IF k = 0 THEN {0} ELSE Chosen(doc, upTo[k - 1], sel[k])
    BY <1>2, <2>1
  <2> QED
    BY <2>1, <2>2
<1> QED
  BY <1>1, <1>3, <1>4 DEF upTo

LEMMA SelectedIs ==
    ASSUME NEW doc, NEW sel, SelectorOf(sel), NEW k \in 1..Len(sel), NEW i
    PROVE  i \in SelectedUpTo(doc, sel)[k] <=>
             /\ i \in 1..Len(doc) /\ doc[i].kind # "close"
             /\ Parent(doc, i) \in SelectedUpTo(doc, sel)[k - 1]
             /\ NameMatches(sel[k], doc[i]) /\ AttMatches(sel[k], doc[i])
             /\ sel[k].position \in {Anywhere, RankOf(doc, i, sel[k])}
BY SelectedStep DEF Chosen, Elements

LEMMA LevelSelected ==
    ASSUME NEW doc, Parsed(doc), NEW sel, SelectorOf(sel),
           NEW k \in 1..Len(sel), NEW i \in SelectedUpTo(doc, sel)[k]
    PROVE  i \in 1..Len(doc) /\ Level(doc, i - 1) = k - 1
<1> DEFINE upTo == SelectedUpTo(doc, sel)
           S == {h \in 0..Len(sel) : h >= 1 => \A c \in upTo[h] : c \in 1..Len(doc) /\ Level(doc, c - 1) = h - 1}
<1>0. Len(sel) \in Nat /\ Len(doc) \in Nat /\ upTo[0] = {0}
  BY SelectedStep, Levels
<1>1. 0 \in S
  BY <1>0
<1>2. ASSUME NEW h \in 1..Len(sel), h - 1 \in S PROVE h \in S
  <2> SUFFICES ASSUME NEW c \in upTo[h] PROVE c \in 1..Len(doc) /\ Level(doc, c - 1) = h - 1
    BY <1>0
  <2>1. c \in 1..Len(doc) /\ Parent(doc, c) \in upTo[h - 1]
    BY SelectedIs
  <2> DEFINE p == Parent(doc, c)
  <2>2. CASE h = 1
    <3>1. p = 0
      BY <1>0, <2>1, <2>2
    <3>2. Level(doc, c - 1) = 0
      BY <2>1, <3>1, ParentOf DEF IsOpen
    <3> QED
      BY <2>1, <2>2, <3>2
  <2>3. CASE h > 1
    <3>1. p \in 1..Len(doc) /\ Level(doc, p - 1) = h - 2
      BY <1>2, <2>1, <2>3
    <3>2. doc[p].kind = "open" /\ Level(doc, p) = Level(doc, c - 1)
      BY <2>1, <3>1, ParentOf DEF IsOpen
    <3>3. Level(doc, p) = Level(doc, p - 1) + 1
      BY <3>1, <3>2, Levels
    <3> QED
      BY <2>1, <3>1, <3>2, <3>3
  <2> QED
    BY <2>2, <2>3
<1>3. 0..Len(sel) \subseteq S
  <2> HIDE DEF S
  <2> QED
    BY <1>0, <1>1, <1>2, Induction
<1>4. k \in S /\ k >= 1
  <2> HIDE DEF S
  <2> QED
    BY <1>0, <1>3
<1> QED
  BY <1>4

LEMMA AboveSelected ==
    ASSUME NEW doc, Parsed(doc), NEW sel, SelectorOf(sel),
           NEW k \in 1..Len(sel), NEW i \in SelectedUpTo(doc, sel)[k],
           NEW a, IsOpen(doc, a, i - 1)
    PROVE  a \in SelectedUpTo(doc, sel)[Level(doc, a)]
<1> DEFINE upTo == SelectedUpTo(doc, sel)
           S == {h \in 0..Len(sel) : h >= 1 =>
                   \A c \in upTo[h] : \A b \in 1..c - 1 : IsOpen(doc, b, c - 1) => b \in upTo[Level(doc, b)]}
<1>0. Len(sel) \in Nat /\ Len(doc) \in Nat /\ upTo[0] = {0}
  BY SelectedStep, Levels
<1>1. 0 \in S
  BY <1>0
<1>2. ASSUME NEW h \in 1..Len(sel), h - 1 \in S PROVE h \in S
  <2> SUFFICES ASSUME NEW c \in upTo[h], NEW b \in 1..c - 1, IsOpen(doc, b, c - 1)
               PROVE  b \in upTo[Level(doc, b)]
    BY <1>0
  <2> DEFINE p == Parent(doc, c)
  <2>1. c \in 1..Len(doc) /\ Level(doc, c - 1) = h - 1 /\ p \in upTo[h - 1]
    BY LevelSelected, SelectedIs
  <2>2. c > 1 /\ c - 1 \in 0..Len(doc)
    BY <2>1
  <2>3. IsOpen(doc, p, c - 1) /\ Level(doc, p) = h - 1 /\ h - 1 >= 1 /\ p \in 1..c - 1
    BY <2>1, <2>2, ParentOf DEF IsOpen
  <2>4. CASE b = p
    BY <2>1, <2>3, <2>4
  <2>5. CASE p < b
    <3>1. Level(doc, p) < Level(doc, b)
      BY <2>2, <2>3, <2>5, OpenOnce
    <3>2. Level(doc, c - 1) >= Level(doc, b) /\ Level(doc, b) \in Nat
      BY <2>1, Levels DEF IsOpen
    <3> QED
      BY <2>1, <2>3, <3>1, <3>2
  <2>6. CASE b < p
    <3>1. b \in 1..p - 1 /\ p - 1 \in Nat
      BY <2>1, <2>3, <2>6
    <3>2. IsOpen(doc, b, p - 1)
      BY <2>1, <2>3, <3>1 DEF IsOpen
    <3> QED
      BY <1>2, <2>3, <2>1, <3>1, <3>2
  <2> QED
    BY <2>1, <2>3, <2>4, <2>5, <2>6
<1>3. 0..Len(sel) \subseteq S
  <2> HIDE DEF S
  <2> QED
    BY <1>0, <1>1, <1>2, Induction
<1>4. k \in S /\ k >= 1
  <2> HIDE DEF S
  <2> QED
    BY <1>0, <1>3
<1>5. a \in 1..i - 1
  BY DEF IsOpen
<1> QED
  BY <1>4, <1>5

-----------------------------------------------------------------------------
(* ElementLocator keeps the chain of selected elements that are open.       *)

PathStep == [name : Label, position : Nat]

LocatorState ==
    [state : {"LOOKING", "FOUND", "DONE", "MANY"}, path : Seq(PathStep), skip : Nat,
     start : Int, end : Int, tag : Label, end2 : Int]

(* The children of element j among the first i tags, as far as the name     *)
(* test below j counts them.                                                *)
Children(doc, sel, j, i) ==
    {c \in Elements(doc) : /\ c <= i /\ Parent(doc, c) = j
                           /\ NameMatches(sel[Level(doc, j) + 1], doc[c])}

(* path and skip describe the elements open after tag o, with children      *)
(* counted up to tag i.                                                     *)
Chain(doc, sel, path, skip, o, i) ==
    /\ path \in Seq(PathStep) /\ skip \in Nat
    /\ Len(path) <= Len(sel) /\ Len(path) + skip = Level(doc, o)
    /\ \A j \in 1..o : IsOpen(doc, j, o) =>
         /\ Level(doc, j) <= Len(path) =>
              /\ j \in SelectedUpTo(doc, sel)[Level(doc, j)]
              /\ path[Level(doc, j)].name = doc[j].name
              /\ Level(doc, j) < Len(sel) =>
                   path[Level(doc, j)].position = Cardinality(Children(doc, sel, j, i))
         /\ Level(doc, j) = Len(path) + 1 /\ Len(path) < Len(sel) =>
              j \notin SelectedUpTo(doc, sel)[Level(doc, j)]

LEMMA ChildrenGrow ==
    ASSUME NEW doc, Parsed(doc), NEW sel, NEW j, NEW i \in 1..Len(doc)
    PROVE  LET new == doc[i].kind # "close" /\ Parent(doc, i) = j
                      /\ NameMatches(sel[Level(doc, j) + 1], doc[i])
           IN  /\ Cardinality(Children(doc, sel, j, i - 1)) \in Nat
               /\ ~new => Children(doc, sel, j, i) = Children(doc, sel, j, i - 1)
               /\ new => Cardinality(Children(doc, sel, j, i))
                           = Cardinality(Children(doc, sel, j, i - 1)) + 1
<1> DEFINE new == doc[i].kind # "close" /\ Parent(doc, i) = j
                  /\ NameMatches(sel[Level(doc, j) + 1], doc[i])
           was == Children(doc, sel, j, i - 1)
           now == Children(doc, sel, j, i)
<1>1. Len(doc) \in Nat
  BY Levels
<1>2. IsFiniteSet(was) /\ Cardinality(was) \in Nat
  <2>1. was \subseteq 1..i - 1
    BY <1>1 DEF Children, Elements
  <2>2. IsFiniteSet(1..i - 1)
    BY <1>1, FS_Interval
  <2> HIDE DEF was
  <2>3. IsFiniteSet(was)
    BY <2>1, <2>2, FS_Subset
  <2> QED
    BY <2>3, FS_CardinalityType
<1>3. ~new => now = was
  BY <1>1 DEF Children, Elements
<1>4. new => now = was \cup {i} /\ i \notin was
  BY <1>1 DEF Children, Elements
<1> HIDE DEF was, now
<1>5. new => Cardinality(now) = Cardinality(was) + 1
  BY <1>2, <1>4, FS_AddElement
<1> HIDE DEF new
<1> QED
  BY <1>2, <1>3, <1>5 DEF was, now, new

LEMMA RankIs ==
    ASSUME NEW doc, Parsed(doc), NEW sel, NEW i \in 1..Len(doc), doc[i].kind # "close",
           NameMatches(sel[Level(doc, i - 1) + 1], doc[i])
    PROVE  RankOf(doc, i, sel[Level(doc, i - 1) + 1]) =
             IF i = 1 THEN 1 ELSE Cardinality(Children(doc, sel, Parent(doc, i), i))
<1> DEFINE step == sel[Level(doc, i - 1) + 1]
           upToI == {j \in Alike(doc, i, step) : j <= i}
<1>1. CASE i = 1
  <2>1. \A j \in Elements(doc) : j <= 1 => j = 1
    BY Levels DEF Elements
  <2>2. 1 \in Alike(doc, i, step)
    BY <1>1 DEF Alike, Elements
  <2>3. upToI = {1}
    BY <1>1, <2>1, <2>2 DEF Alike
  <2>4. Cardinality({1}) = 1
    BY FS_Singleton
  <2> QED
    BY <1>1, <2>3, <2>4 DEF RankOf
<1>2. CASE i # 1
  <2>1. Level(doc, Parent(doc, i)) = Level(doc, i - 1)
    BY <1>2, ParentOf
  <2>2. upToI = Children(doc, sel, Parent(doc, i), i)
    BY <2>1 DEF Alike, Children
  <2> QED
    BY <1>2, <2>2 DEF RankOf
<1> QED
  BY <1>1, <1>2

(* An open element and the ones open before it.                             *)
LEMMA StillOpen ==
    ASSUME NEW doc, Parsed(doc), NEW i \in 1..Len(doc), NEW j \in 1..i, IsOpen(doc, j, i)
    PROVE  \/ j = i /\ doc[i].kind = "open" /\ Level(doc, j) = Level(doc, i)
           \/ j \in 1..i - 1 /\ IsOpen(doc, j, i - 1) /\ Level(doc, j) <= Level(doc, i)
              /\ (doc[i].kind = "open" => Level(doc, j) < Level(doc, i))
<1>1. Len(doc) \in Nat /\ Level(doc, i) \in Nat /\ Level(doc, i - 1) \in Nat /\ Level(doc, j) \in Nat
  BY Levels
<1>2. CASE j = i
  BY <1>2 DEF IsOpen
<1>3. CASE j # i
  <2>1. j \in 1..i - 1 /\ IsOpen(doc, j, i - 1) /\ Level(doc, i) >= Level(doc, j) /\ Level(doc, i - 1) >= Level(doc, j)
    BY <1>1, <1>3 DEF IsOpen
  <2> QED
    BY <1>1, <2>1, Levels
<1> QED
  BY <1>2, <1>3

LEMMA ChainEmpty ==
    ASSUME NEW doc, Parsed(doc), NEW sel, NEW i \in 1..Len(doc), doc[i].kind = "empty",
           NEW path, NEW skip, Chain(doc, sel, path, skip, i - 1, i)
    PROVE  Chain(doc, sel, path, skip, i, i)
<1>1. Level(doc, i) = Level(doc, i - 1)
  BY Levels
<1>2. \A j \in 1..i : IsOpen(doc, j, i) => j \in 1..i - 1 /\ IsOpen(doc, j, i - 1)
  BY StillOpen
<1> QED
  BY <1>1, <1>2 DEF Chain

LEMMA ChainSkip ==
    ASSUME NEW doc, Parsed(doc), NEW sel, NEW i \in 1..Len(doc), doc[i].kind = "open",
           NEW path, NEW skip, Chain(doc, sel, path, skip, i - 1, i),
           skip > 0 \/ Len(path) = Len(sel) \/ i \notin SelectedUpTo(doc, sel)[Len(path) + 1]
    PROVE  Chain(doc, sel, path, skip + 1, i, i)
<1>1. Level(doc, i) = Level(doc, i - 1) + 1 /\ Level(doc, i - 1) \in Nat
  BY Levels
<1>2. /\ path \in Seq(PathStep) /\ skip \in Nat /\ Len(path) \in Nat
      /\ Len(path) <= Len(sel) /\ Len(path) + skip = Level(doc, i - 1)
  BY DEF Chain
<1>3. ASSUME NEW j \in 1..i, IsOpen(doc, j, i)
      PROVE  /\ Level(doc, j) <= Len(path) =>
                  /\ j \in SelectedUpTo(doc, sel)[Level(doc, j)]
                  /\ path[Level(doc, j)].name = doc[j].name
                  /\ Level(doc, j) < Len(sel) =>
                       path[Level(doc, j)].position = Cardinality(Children(doc, sel, j, i))
             /\ Level(doc, j) = Len(path) + 1 /\ Len(path) < Len(sel) =>
                  j \notin SelectedUpTo(doc, sel)[Level(doc, j)]
  <2>1. CASE j = i /\ Level(doc, j) = Level(doc, i)
    BY <1>1, <1>2, <2>1
  <2>2. CASE j \in 1..i - 1 /\ IsOpen(doc, j, i - 1)
    BY <2>2 DEF Chain
  <2> QED
    BY <1>3, <2>1, <2>2, StillOpen
<1> QED
  BY <1>1, <1>2, <1>3 DEF Chain

LEMMA ChainEnter ==
    ASSUME NEW doc, Parsed(doc), NEW sel, NEW i \in 1..Len(doc), doc[i].kind = "open",
           NEW path, Chain(doc, sel, path, 0, i - 1, i),
           Len(path) < Len(sel), Len(sel) \in Nat, i \in SelectedUpTo(doc, sel)[Len(path) + 1]
    PROVE  Chain(doc, sel, Append(path, [name |-> doc[i].name, position |-> 0]), 0, i, i)
<1> DEFINE new == [name |-> doc[i].name, position |-> 0]
           longer == Append(path, new)
<1>1. Level(doc, i) = Level(doc, i - 1) + 1 /\ Level(doc, i - 1) \in Nat
  BY Levels
<1>2. path \in Seq(PathStep) /\ Len(path) \in Nat /\ Len(path) = Level(doc, i - 1)
  BY DEF Chain
<1>3. new \in PathStep /\ new.name = doc[i].name /\ new.position = 0
  BY TagType DEF PathStep, Parsed
<1>4. /\ longer \in Seq(PathStep) /\ Len(longer) = Len(path) + 1 /\ longer[Len(path) + 1] = new
      /\ \A k \in 1..Len(path) : longer[k] = path[k]
  <2> HIDE DEF new
  <2> QED
    BY <1>2, <1>3, AppendProperties
<1> HIDE DEF longer, new
<1>5. Cardinality(Children(doc, sel, i, i)) = 0
  <2>1. ASSUME NEW c \in Elements(doc), c <= i PROVE Parent(doc, c) # i
    <3>1. c \in 1..Len(doc) /\ Len(doc) \in Nat
      BY Levels DEF Elements
    <3> QED
      BY <2>1, <3>1, ParentOf DEF IsOpen
  <2>2. Children(doc, sel, i, i) = {}
    BY <2>1 DEF Children
  <2> QED
    BY <2>2, FS_EmptySet
<1>6. ASSUME NEW j \in 1..i, IsOpen(doc, j, i)
      PROVE  /\ Level(doc, j) <= Len(longer) =>
                  /\ j \in SelectedUpTo(doc, sel)[Level(doc, j)]
                  /\ longer[Level(doc, j)].name = doc[j].name
                  /\ Level(doc, j) < Len(sel) =>
                       longer[Level(doc, j)].position = Cardinality(Children(doc, sel, j, i))
             /\ Level(doc, j) <= Len(longer)
  <2>1. CASE j = i
    BY <1>1, <1>2, <1>3, <1>4, <1>5, <2>1
  <2>2. CASE j \in 1..i - 1 /\ IsOpen(doc, j, i - 1) /\ Level(doc, j) <= Level(doc, i - 1)
    <3>1. Level(doc, j) \in 1..Len(path)
      <4>1. j \in 1..Len(doc) /\ doc[j].kind = "open" /\ j - 1 \in 0..Len(doc)
        BY <2>2, Levels DEF IsOpen
      <4>2. Level(doc, j) = Level(doc, j - 1) + 1 /\ Level(doc, j - 1) \in Nat
        BY <4>1, Levels
      <4> QED
        BY <1>2, <2>2, <4>2
    <3>2. longer[Level(doc, j)] = path[Level(doc, j)] /\ Level(doc, j) <= Len(longer)
      BY <1>2, <1>4, <3>1
    <3> QED
      BY <1>2, <2>2, <3>1, <3>2 DEF Chain
  <2>3. Level(doc, j) \in Nat
    BY Levels
  <2> QED
    BY <1>1, <1>6, <2>1, <2>2, <2>3, StillOpen
<1>7. Len(longer) <= Len(sel) /\ Len(longer) + 0 = Level(doc, i) /\ Len(longer) \in Nat
  BY <1>1, <1>2, <1>4
<1>8. \A j \in 1..i : Level(doc, j) \in Nat
  BY Levels
<1>9. \A j \in 1..i : IsOpen(doc, j, i) => Level(doc, j) # Len(longer) + 1
  BY <1>6, <1>7, <1>8
<1>10. Chain(doc, sel, longer, 0, i, i)
  BY <1>4, <1>6, <1>7, <1>9 DEF Chain
<1> QED
  BY <1>10 DEF longer, new

LEMMA ChainLeave ==
    ASSUME NEW doc, Parsed(doc), NEW sel, NEW i \in 1..Len(doc), doc[i].kind = "close",
           NEW path, NEW skip, Chain(doc, sel, path, skip, i - 1, i - 1)
    PROVE  /\ skip > 0 => Chain(doc, sel, path, skip - 1, i, i)
           /\ skip = 0 => path # <<>> /\ Chain(doc, sel, Front(path), 0, i, i)
<1>1. Level(doc, i) = Level(doc, i - 1) - 1 /\ Level(doc, i - 1) \in Nat /\ Level(doc, i - 1) >= 1
  BY Levels
<1>2. /\ path \in Seq(PathStep) /\ skip \in Nat /\ Len(path) \in Nat
      /\ Len(path) <= Len(sel) /\ Len(path) + skip = Level(doc, i - 1)
  BY DEF Chain
<1>3. \A j \in 1..i : IsOpen(doc, j, i) =>
        /\ j \in 1..i - 1 /\ IsOpen(doc, j, i - 1) /\ Level(doc, j) <= Level(doc, i)
        /\ Level(doc, j) >= 1
  <2>1. ASSUME NEW j \in 1..i, IsOpen(doc, j, i) PROVE Level(doc, j) >= 1
    <3>1. Len(doc) \in Nat
      BY Levels
    <3>2. j \in 1..Len(doc) /\ doc[j].kind = "open"
      BY <2>1, <3>1 DEF IsOpen
    <3>3. Level(doc, j) = Level(doc, j - 1) + 1 /\ Level(doc, j - 1) \in Nat
      BY <3>1, <3>2, Levels
    <3> QED
      BY <3>3
  <2> QED
    BY <2>1, StillOpen
<1>4. \A j : Children(doc, sel, j, i) = Children(doc, sel, j, i - 1)
  BY ChildrenGrow
<1>5. \A j \in 1..i : Level(doc, j) \in Nat
  BY Levels
<1>6. ASSUME skip > 0 PROVE Chain(doc, sel, path, skip - 1, i, i)
  <2>1. skip - 1 \in Nat /\ Len(path) + (skip - 1) = Level(doc, i)
    BY <1>1, <1>2, <1>6
  <2>2. ASSUME NEW j \in 1..i, IsOpen(doc, j, i)
        PROVE  /\ Level(doc, j) <= Len(path) =>
                    /\ j \in SelectedUpTo(doc, sel)[Level(doc, j)]
                    /\ path[Level(doc, j)].name = doc[j].name
                    /\ Level(doc, j) < Len(sel) =>
                         path[Level(doc, j)].position = Cardinality(Children(doc, sel, j, i))
               /\ Level(doc, j) = Len(path) + 1 /\ Len(path) < Len(sel) =>
                    j \notin SelectedUpTo(doc, sel)[Level(doc, j)]
    BY <1>3, <1>4, <2>2 DEF Chain
  <2> QED
    BY <1>2, <2>1, <2>2 DEF Chain
<1>7. ASSUME skip = 0 PROVE path # <<>> /\ Chain(doc, sel, Front(path), 0, i, i)
  <2>1. path # <<>>
    BY <1>1, <1>2, <1>7
  <2>2. /\ Front(path) \in Seq(PathStep) /\ Len(Front(path)) = Len(path) - 1
        /\ \A k \in 1..Len(path) - 1 : Front(path)[k] = path[k]
    BY <1>2, <2>1, FrontOf
  <2>3. ASSUME NEW j \in 1..i, IsOpen(doc, j, i)
        PROVE  /\ Level(doc, j) \in 1..Len(path) - 1
               /\ j \in SelectedUpTo(doc, sel)[Level(doc, j)]
               /\ Front(path)[Level(doc, j)].name = doc[j].name
               /\ Level(doc, j) < Len(sel) =>
                       Front(path)[Level(doc, j)].position = Cardinality(Children(doc, sel, j, i))
    <3>1. Level(doc, j) \in 1..Len(path) - 1
      BY <1>1, <1>2, <1>3, <1>5, <1>7, <2>3
    <3>2. Front(path)[Level(doc, j)] = path[Level(doc, j)] /\ Level(doc, j) <= Len(path)
      BY <1>2, <2>2, <3>1
    <3> QED
      BY <1>3, <1>4, <2>3, <3>1, <3>2 DEF Chain
  <2>4. Len(Front(path)) <= Len(sel) /\ Len(Front(path)) + 0 = Level(doc, i)
    BY <1>1, <1>2, <1>7, <2>2
  <2>5. \A j \in 1..i : IsOpen(doc, j, i) => Level(doc, j) # Len(Front(path)) + 1
    BY <1>2, <2>2, <2>3
  <2> QED
    BY <2>1, <2>2, <2>3, <2>4, <2>5 DEF Chain
<1> QED
  BY <1>6, <1>7

(* Counting a child changes the last position of the path only.             *)
LEMMA CountedPath ==
    ASSUME NEW s \in LocatorState, NEW q, q = CountedChild(s).path
    PROVE  /\ CountedChild(s) = [s EXCEPT !.path = q]
           /\ q \in Seq(PathStep) /\ Len(q) = Len(s.path)
           /\ \A k \in 1..Len(q) : q[k].name = s.path[k].name
           /\ \A k \in 1..Len(q) - 1 : q[k] = s.path[k]
           /\ Len(q) > 0 => q[Len(q)].position = s.path[Len(q)].position + 1
           /\ Rank(CountedChild(s)) = IF q = <<>> THEN 1 ELSE q[Len(q)].position
<1> DEFINE p == s.path
           r == [p EXCEPT ![Len(p)].position = @ + 1]
<1>1. s = [s EXCEPT !.path = p] /\ p \in Seq(PathStep) /\ DOMAIN p = 1..Len(p) /\ Len(p) \in Nat
  BY DEF LocatorState
<1>2. CASE p = <<>>
  <2>1. CountedChild(s) = s /\ q = p
    BY <1>2 DEF CountedChild
  <2>2. Rank(CountedChild(s)) = 1
    BY <1>2, <2>1 DEF Rank
  <2> HIDE DEF p
  <2>3. CountedChild(s) = [s EXCEPT !.path = q]
    BY <1>1, <2>1
  <2>4. Len(q) = 0 /\ q = <<>> /\ q \in Seq(PathStep)
    <3>1. q = <<>> /\ Len(<<>>) = 0 /\ q \in Seq(PathStep)
      BY ONLY <1>1, <1>2, <2>1
    <3> QED
      BY ONLY <3>1
  <2> QED
    BY <1>1, <2>1, <2>2, <2>3, <2>4 DEF p
<1>3. CASE p # <<>>
  <2>1. CountedChild(s) = [s EXCEPT !.path = r]
    BY <1>1, <1>3 DEF CountedChild, LocatorState
  <2>2. q = r /\ CountedChild(s) = [s EXCEPT !.path = q] /\ CountedChild(s).path = r
    BY <2>1 DEF LocatorState
  <2> HIDE DEF p
  <2>3. Len(p) \in 1..Len(p) /\ \A k \in 1..Len(p) : p[k] \in PathStep
    BY <1>1, <1>3
  <2>4. /\ DOMAIN r = 1..Len(p)
        /\ r[Len(p)] = [p[Len(p)] EXCEPT !.position = p[Len(p)].position + 1]
        /\ \A k \in 1..Len(p) : k # Len(p) => r[k] = p[k]
    BY <1>1, <2>3
  <2>5. /\ r[Len(p)] \in PathStep /\ r[Len(p)].name = p[Len(p)].name
        /\ r[Len(p)].position = p[Len(p)].position + 1
    BY <2>3, <2>4 DEF PathStep
  <2>6. \A k \in 1..Len(p) : r[k] \in PathStep /\ r[k].name = p[k].name
    BY <2>3, <2>4, <2>5
  <2>7. r = [k \in 1..Len(p) |-> r[k]]
    BY <1>1
  <2> HIDE DEF r
  <2>8. r \in Seq(PathStep) /\ Len(r) = Len(p) /\ r # <<>>
    BY <1>1, <2>3, <2>6, <2>7
  <2>9. Rank(CountedChild(s)) = r[Len(r)].position
    <3>1. Last(r) = r[Len(r)]
      BY <2>8, FrontOf
    <3> QED
      BY <2>2, <2>8, <3>1 DEF Rank
  <2>10. \A k \in 1..Len(r) - 1 : r[k] = p[k]
    BY <1>1, <2>4, <2>8
  <2>11. Len(q) = Len(p) /\ q # <<>> /\ q \in Seq(PathStep)
    BY <2>2, <2>8
  <2> QED
    BY <1>1, <2>2, <2>5, <2>6, <2>8, <2>9, <2>10, <2>11 DEF p
<1> QED
  BY <1>2, <1>3

LEMMA ChainCount ==
    ASSUME NEW doc, Parsed(doc), NEW sel, SelectorOf(sel), NEW i \in 1..Len(doc), doc[i].kind # "close",
           NEW s \in LocatorState, Chain(doc, sel, s.path, s.skip, i - 1, i - 1),
           NEW q, q = IF Irrelevant(s, sel, doc[i]) THEN s.path ELSE CountedChild(s).path
    PROVE  /\ Chain(doc, sel, q, s.skip, i - 1, i) /\ Len(q) = Len(s.path)
           /\ ~Irrelevant(s, sel, doc[i]) => Rank(CountedChild(s)) = RankOf(doc, i, sel[Len(q) + 1])
<1> DEFINE p == s.path
           irrelevant == Irrelevant(s, sel, doc[i])
<1>1. /\ p \in Seq(PathStep) /\ Len(p) \in Nat /\ s.skip \in Nat /\ Len(sel) \in Nat
      /\ Len(p) <= Len(sel) /\ Len(p) + s.skip = Level(doc, i - 1)
  BY SelectedStep DEF Chain, LocatorState
<1>2. irrelevant <=> \/ s.skip > 0 \/ Len(p) >= Len(sel)
                     \/ ~NameMatches(sel[Len(p) + 1], doc[i])
  BY DEF Irrelevant
<1>3. q \in Seq(PathStep) /\ Len(q) = Len(p)
      /\ (\A k \in 1..Len(q) : q[k].name = p[k].name)
      /\ (\A k \in 1..Len(q) - 1 : q[k] = p[k])
      /\ (irrelevant => q = p)
      /\ (~irrelevant /\ Len(q) > 0 => q[Len(q)].position = p[Len(q)].position + 1)
  <2> HIDE DEF irrelevant
  <2> QED
    BY <1>1, CountedPath DEF irrelevant
<1>4. ASSUME NEW j \in 1..i - 1, IsOpen(doc, j, i - 1)
      PROVE  /\ j \in 1..Len(doc) /\ Level(doc, j) \in Nat /\ Level(doc, j) >= 1
             /\ Parent(doc, i) = j <=> Level(doc, j) = Level(doc, i - 1)
  <2>0. Len(doc) \in Nat
    BY Levels
  <2>1. j \in 1..Len(doc) /\ doc[j].kind = "open"
    BY <1>4, <2>0 DEF IsOpen
  <2>2. Level(doc, j) = Level(doc, j - 1) + 1 /\ Level(doc, j - 1) \in Nat
    BY <2>1, Levels
  <2>3. Level(doc, j) = Level(doc, i - 1) => Parent(doc, i) = j
    BY <1>4, ParentIs
  <2>4. Parent(doc, i) = j => Level(doc, j) = Level(doc, i - 1)
    BY <2>1, ParentOf
  <2> QED
    BY <2>1, <2>2, <2>3, <2>4
<1>5. ASSUME NEW j \in 1..i - 1, IsOpen(doc, j, i - 1), Level(doc, j) <= Len(p)
      PROVE  /\ j \in SelectedUpTo(doc, sel)[Level(doc, j)]
             /\ q[Level(doc, j)].name = doc[j].name
             /\ Level(doc, j) < Len(sel) =>
                    q[Level(doc, j)].position = Cardinality(Children(doc, sel, j, i))
  <2>1. /\ j \in SelectedUpTo(doc, sel)[Level(doc, j)]
        /\ p[Level(doc, j)].name = doc[j].name
        /\ Level(doc, j) < Len(sel) =>
               p[Level(doc, j)].position = Cardinality(Children(doc, sel, j, i - 1))
    BY <1>5 DEF Chain
  <2>2. Level(doc, j) \in 1..Len(q) /\ Level(doc, j) \in Nat
    BY <1>1, <1>3, <1>4, <1>5
  <2>3. ASSUME Level(doc, j) < Len(sel)
        PROVE  q[Level(doc, j)].position = Cardinality(Children(doc, sel, j, i))
    <3>1. CASE Level(doc, j) = Level(doc, i - 1) /\ NameMatches(sel[Level(doc, j) + 1], doc[i])
      <4>1. s.skip = 0 /\ Len(p) = Level(doc, j)
        BY <1>1, <1>5, <3>1
      <4>2. ~irrelevant
        BY <1>1, <1>2, <2>3, <3>1, <4>1
      <4>3. Parent(doc, i) = j
        BY <1>4, <1>5, <3>1
      <4>4. Cardinality(Children(doc, sel, j, i)) = Cardinality(Children(doc, sel, j, i - 1)) + 1
        BY <3>1, <4>3, ChildrenGrow
      <4>5. q[Len(q)].position = p[Len(q)].position + 1 /\ Len(q) = Level(doc, j)
        BY <1>3, <2>2, <4>1, <4>2
      <4> QED
        BY <2>1, <2>3, <4>4, <4>5
    <3>2. CASE ~(Level(doc, j) = Level(doc, i - 1) /\ NameMatches(sel[Level(doc, j) + 1], doc[i]))
      <4>1. Children(doc, sel, j, i) = Children(doc, sel, j, i - 1)
        BY <1>4, <1>5, <3>2, ChildrenGrow
      <4>2. q[Level(doc, j)] = p[Level(doc, j)]
        <5>1. CASE irrelevant
          BY <1>3, <5>1
        <5>2. CASE ~irrelevant
          <6>1. Len(p) = Level(doc, i - 1) /\ NameMatches(sel[Len(p) + 1], doc[i])
            BY <1>1, <1>2, <5>2
          <6>2. Level(doc, j) # Len(p)
            BY <3>2, <6>1
          <6>3. Level(doc, j) \in 1..Len(q) - 1
            <7>1. Len(q) = Len(p) /\ Len(p) \in Nat
              BY <1>1, <1>3
            <7> QED
              BY ONLY <2>2, <6>2, <7>1
          <6>4. \A k \in 1..Len(q) - 1 : q[k] = p[k]
            BY <1>3
          <6> QED
            BY ONLY <6>3, <6>4
        <5> QED
          BY <5>1, <5>2
      <4> QED
        BY <2>1, <2>3, <4>1, <4>2
    <3> QED
      BY <3>1, <3>2
  <2> QED
    BY <1>3, <2>1, <2>2, <2>3
<1>6. Chain(doc, sel, q, s.skip, i - 1, i)
  <2>1. \A j \in 1..i - 1 : IsOpen(doc, j, i - 1) =>
          (Level(doc, j) = Len(p) + 1 /\ Len(p) < Len(sel) => j \notin SelectedUpTo(doc, sel)[Level(doc, j)])
    BY DEF Chain
  <2> HIDE DEF p
  <2> QED
    BY <1>1, <1>3, <1>5, <2>1 DEF Chain
<1>7. ASSUME ~irrelevant PROVE Rank(CountedChild(s)) = RankOf(doc, i, sel[Len(q) + 1])
  <2>1. s.skip = 0 /\ Len(p) < Len(sel) /\ NameMatches(sel[Len(p) + 1], doc[i]) /\ Len(p) = Level(doc, i - 1)
    BY <1>1, <1>2, <1>7
  <2>2. q = CountedChild(s).path
    BY <1>7
  <2>3. Rank(CountedChild(s)) = IF q = <<>> THEN 1 ELSE q[Len(q)].position
    BY <2>2, CountedPath
  <2>4. RankOf(doc, i, sel[Len(q) + 1]) = IF i = 1 THEN 1 ELSE Cardinality(Children(doc, sel, Parent(doc, i), i))
    <3>1. sel[Len(q) + 1] = sel[Level(doc, i - 1) + 1] /\ NameMatches(sel[Level(doc, i - 1) + 1], doc[i])
      BY <1>3, <2>1
    <3>2. RankOf(doc, i, sel[Level(doc, i - 1) + 1]) =
            IF i = 1 THEN 1 ELSE Cardinality(Children(doc, sel, Parent(doc, i), i))
      BY <3>1, RankIs
    <3> QED
      BY ONLY <3>1, <3>2
  <2>5. CASE i = 1
    <3>1. Len(q) = 0 /\ q = <<>>
      <4>1. Level(doc, i - 1) = 0
        BY <2>5, Levels
      <4> HIDE DEF p
      <4> QED
        BY <1>3, <2>1, <4>1
    <3> QED
      BY <2>3, <2>4, <2>5, <3>1
  <2>6. CASE i # 1
    <3> DEFINE j == Parent(doc, i)
    <3>1. j \in 1..i - 1 /\ IsOpen(doc, j, i - 1) /\ Level(doc, j) = Len(p) /\ Len(p) >= 1
      BY <2>1, <2>6, ParentOf DEF IsOpen
    <3>2. q[Len(q)].position = Cardinality(Children(doc, sel, j, i)) /\ q # <<>>
      BY <1>1, <1>3, <1>5, <2>1, <3>1
    <3> QED
      BY <2>3, <2>4, <2>6, <3>2
  <2> QED
    BY <2>5, <2>6
<1> QED
  BY <1>3, <1>6, <1>7

(* An element that begins, and what has been found so far.                  *)
SameFind(r, s) ==
    r.state = s.state /\ r.start = s.start /\ r.end = s.end /\ r.tag = s.tag /\ r.end2 = s.end2

NewFind(r, s, pos) ==
    /\ r.end = s.end /\ r.tag = s.tag /\ r.end2 = s.end2
    /\ s.state = "LOOKING" => r.state = "FOUND" /\ r.start = pos
    /\ s.state = "DONE" => r.state = "MANY"
    /\ s.state \in {"FOUND", "MANY"} => r.state = s.state /\ r.start = s.start

LEMMA MatchedIs ==
    ASSUME NEW s \in LocatorState, NEW pos \in Int
    PROVE  LET r == Matched(s, pos)
           IN  r \in LocatorState /\ NewFind(r, s, pos) /\ r.path = s.path /\ r.skip = s.skip
<1> DEFINE r == Matched(s, pos)
<1>1. CASE s.state = "LOOKING"
  <2>1. r = [s EXCEPT !.state = "FOUND", !.start = pos]
    BY <1>1 DEF Matched
  <2> HIDE DEF r
  <2> QED
    BY <1>1, <2>1 DEF LocatorState, NewFind, r
<1>2. CASE s.state = "DONE"
  <2>1. r = [s EXCEPT !.state = "MANY"]
    BY <1>2 DEF Matched
  <2> HIDE DEF r
  <2> QED
    BY <1>2, <2>1 DEF LocatorState, NewFind, r
<1>3. CASE s.state \in {"FOUND", "MANY"}
  <2>1. r = s
    BY <1>3 DEF Matched
  <2> HIDE DEF r
  <2> QED
    BY <1>3, <2>1 DEF LocatorState, NewFind, r
<1> QED
  BY <1>1, <1>2, <1>3 DEF LocatorState

LEMMA SkippedIs ==
    ASSUME NEW s \in LocatorState, NEW q \in Seq(PathStep)
    PROVE  LET r == Skipped([s EXCEPT !.path = q])
           IN  r \in LocatorState /\ SameFind(r, s) /\ r.path = q /\ r.skip = s.skip + 1
<1> DEFINE r == Skipped([s EXCEPT !.path = q])
           more == s.skip + 1
<1>1. more \in Nat
  BY DEF LocatorState
<1>2. r = [s EXCEPT !.path = q, !.skip = more]
  BY DEF Skipped, LocatorState
<1> HIDE DEF r, more
<1>3. r.path = q /\ r.skip = more /\ SameFind(r, s)
  BY <1>2 DEF LocatorState, SameFind
<1>4. r \in LocatorState
  BY <1>1, <1>2 DEF LocatorState
<1> QED
  BY <1>3, <1>4 DEF r, more

LEMMA EnteredIs ==
    ASSUME NEW s \in LocatorState, NEW q \in Seq(PathStep), NEW t, t.name \in Label
    PROVE  LET r == Entered([s EXCEPT !.path = q], t)
           IN  /\ r \in LocatorState /\ SameFind(r, s) /\ r.skip = s.skip
               /\ r.path = Append(q, [name |-> t.name, position |-> 0])
<1> DEFINE new == [name |-> t.name, position |-> 0]
           r == Entered([s EXCEPT !.path = q], t)
<1>1. new \in PathStep
  BY DEF PathStep
<1> HIDE DEF new
<1>2. Append(q, new) \in Seq(PathStep)
  BY <1>1, AppendProperties
<1>3. r = [s EXCEPT !.path = Append(q, new)]
  BY DEF Entered, LocatorState, new
<1> HIDE DEF r
<1> QED
  BY <1>2, <1>3 DEF LocatorState, SameFind, r, new

LEMMA Arrival ==
    ASSUME NEW doc, Parsed(doc), NEW sel, SelectorOf(sel), NEW i \in 1..Len(doc), doc[i].kind # "close",
           NEW s \in LocatorState, Chain(doc, sel, s.path, s.skip, i - 1, i - 1),
           NEW r, r = StartElement(s, sel, doc[i], i - 1)
    PROVE  /\ r \in LocatorState
           /\ \E q \in Seq(PathStep) :
                /\ Chain(doc, sel, q, s.skip, i - 1, i) /\ Len(q) = Len(s.path)
                /\ \/ /\ r.path = q /\ r.skip = s.skip + 1 /\ SameFind(r, s)
                      /\ s.skip > 0 \/ Len(q) = Len(sel) \/ i \notin SelectedUpTo(doc, sel)[Len(q) + 1]
                      /\ i \notin SelectedUpTo(doc, sel)[Len(sel)]
                   \/ /\ r.path = Append(q, [name |-> doc[i].name, position |-> 0])
                      /\ r.skip = 0 /\ s.skip = 0
                      /\ Len(q) < Len(sel) /\ i \in SelectedUpTo(doc, sel)[Len(q) + 1]
                      /\ \/ Len(q) + 1 = Len(sel) /\ NewFind(r, s, i - 1)
                         \/ Len(q) + 1 # Len(sel) /\ i \notin SelectedUpTo(doc, sel)[Len(sel)] /\ SameFind(r, s)
<1> DEFINE t == doc[i]
           m == Len(sel)
           irrelevant == Irrelevant(s, sel, t)
           c == CountedChild(s)
           p == s.path
           q == IF irrelevant THEN p ELSE c.path
           step == sel[Len(p) + 1]
           mismatch == Mismatch(c, step, t)
           U(k) == SelectedUpTo(doc, sel)[k]
<1>1. /\ p \in Seq(PathStep) /\ Len(p) \in Nat /\ s.skip \in Nat /\ m \in Nat \ {0}
      /\ Len(p) <= m /\ Len(p) + s.skip = Level(doc, i - 1)
  BY SelectedStep DEF Chain, LocatorState
<1>2. /\ Chain(doc, sel, q, s.skip, i - 1, i) /\ Len(q) = Len(p)
      /\ ~irrelevant => Rank(c) = RankOf(doc, i, sel[Len(q) + 1])
  BY ChainCount
<1>3. q \in Seq(PathStep)
  BY <1>2 DEF Chain
<1>4. ~irrelevant => c = [s EXCEPT !.path = q] /\ q = c.path
  BY CountedPath
<1>5. irrelevant <=> s.skip > 0 \/ Len(p) >= m \/ ~NameMatches(step, t)
  BY DEF Irrelevant
<1>6. ~irrelevant /\ step = sel[Len(q) + 1] => (mismatch <=>
          ~(step.position \in {Anywhere, RankOf(doc, i, step)} /\ AttMatches(step, t)))
  BY <1>2 DEF Mismatch
<1>7. ASSUME Len(p) < m
      PROVE  i \in U(Len(p) + 1) <=>
               /\ Parent(doc, i) \in U(Len(p)) /\ NameMatches(step, t) /\ AttMatches(step, t)
               /\ step.position \in {Anywhere, RankOf(doc, i, step)}
  <2>1. Len(p) + 1 \in 1..Len(sel) /\ (Len(p) + 1) - 1 = Len(p)
    BY <1>1, <1>7
  <2> QED
    BY <2>1, SelectedIs
<1>8. i \in U(m) => Len(p) + s.skip = m - 1
  BY <1>1, LevelSelected
<1>9. CASE irrelevant \/ mismatch
  <2>1. r = Skipped([s EXCEPT !.path = q])
    <3>1. CASE irrelevant
      <4>1. r = Skipped(s) /\ q = p
        BY <3>1 DEF StartElement
      <4>2. s = [s EXCEPT !.path = p]
        BY DEF LocatorState
      <4> QED
        BY <4>1, <4>2
    <3>2. CASE ~irrelevant
      <4>1. r = Skipped(c)
        BY <1>9, <3>2 DEF StartElement, Counted
      <4> QED
        BY <1>4, <3>2, <4>1
    <3> QED
      BY <3>1, <3>2
  <2>2. r \in LocatorState /\ SameFind(r, s) /\ r.path = q /\ r.skip = s.skip + 1
    BY <1>3, <2>1, SkippedIs
  <2>3. s.skip > 0 \/ Len(q) = m \/ i \notin U(Len(q) + 1)
    <3> SUFFICES ASSUME s.skip = 0, Len(p) < m PROVE i \notin U(Len(p) + 1)
      BY <1>1, <1>2
    <3>1. CASE irrelevant
      BY <1>1, <1>5, <1>7, <3>1
    <3>2. CASE ~irrelevant
      BY <1>2, <1>6, <1>7, <1>9, <3>2
    <3> QED
      BY <3>1, <3>2
  <2>4. i \notin U(m)
    <3> SUFFICES ASSUME i \in U(m) PROVE FALSE
      OBVIOUS
    <3>1. Len(p) + s.skip = m - 1 /\ Len(q) = Len(p)
      BY <1>2, <1>8
    <3>2. CASE s.skip = 0
      <4>1. Len(q) + 1 = m
        BY <1>1, <3>1, <3>2
      <4> QED
        BY <1>1, <2>3, <3>2, <4>1
    <3>3. CASE s.skip > 0
      <4>1. Len(p) + 1 \in 1..Level(doc, i - 1) /\ i - 1 \in 0..Len(doc) /\ Len(p) < m
        BY <1>1, <3>1, <3>3, Levels
      <4>2. PICK a : IsOpen(doc, a, i - 1) /\ Level(doc, a) = Len(p) + 1
        BY <4>1, OpenAt
      <4>3. a \in 1..i - 1
        BY <4>2 DEF IsOpen
      <4>4. a \notin U(Len(p) + 1)
        BY <4>1, <4>2, <4>3 DEF Chain
      <4>5. m \in 1..Len(sel)
        BY <1>1
      <4>6. a \in U(Level(doc, a))
        BY <4>2, <4>5, AboveSelected
      <4> QED
        BY <4>2, <4>4, <4>6
    <3> QED
      BY <1>1, <3>2, <3>3
  <2> HIDE DEF q, U, m
  <2> QED
    BY <1>2, <1>3, <2>2, <2>3, <2>4 DEF U, m
<1>10. CASE ~irrelevant /\ ~mismatch
  <2>1. s.skip = 0 /\ Len(p) < m /\ NameMatches(step, t) /\ step = sel[Len(q) + 1]
    <3>1. step = sel[Len(q) + 1]
      BY <1>2
    <3> HIDE DEF irrelevant, p, step, m, q
    <3>2. s.skip = 0 /\ Len(p) < m /\ NameMatches(step, t)
      BY <1>1, <1>5, <1>10
    <3> QED
      BY <3>1, <3>2
  <2>2. step.position \in {Anywhere, RankOf(doc, i, step)} /\ AttMatches(step, t)
    BY <1>6, <1>10, <2>1
  <2>3. Parent(doc, i) \in U(Len(p))
    <3>1. CASE i = 1
      BY <1>1, <2>1, <3>1, ParentOf, SelectedStep, Levels
    <3>2. CASE i # 1
      <4>1. /\ IsOpen(doc, Parent(doc, i), i - 1) /\ Parent(doc, i) \in 1..i - 1
            /\ Level(doc, Parent(doc, i)) = Len(p) /\ Len(p) <= Len(p)
        BY <1>1, <2>1, <3>2, ParentOf DEF IsOpen
      <4> QED
        BY <4>1 DEF Chain
    <3> QED
      BY <3>1, <3>2
  <2>4. i \in U(Len(q) + 1) /\ Len(q) < m
    BY <1>2, <1>7, <2>1, <2>2, <2>3
  <2> DEFINE e == Entered([s EXCEPT !.path = q], t)
  <2>5. t.name \in Label
    BY TagType DEF Parsed
  <2>6. /\ e \in LocatorState /\ SameFind(e, s) /\ e.skip = s.skip
        /\ e.path = Append(q, [name |-> t.name, position |-> 0])
    BY <1>3, <2>5, EnteredIs
  <2>7. r = IF Len(p) + 1 = m THEN Matched(e, i - 1) ELSE e
    <3>1. r = Counted(c, step, sel, t, i - 1)
      BY <1>10 DEF StartElement
    <3>2. Counted(c, step, sel, t, i - 1) = IF Len(c.path) + 1 = Len(sel) THEN Matched(Entered(c, t), i - 1) ELSE Entered(c, t)
      BY <1>10 DEF Counted
    <3>3. c = [s EXCEPT !.path = q] /\ Len(c.path) = Len(p)
      BY <1>2, <1>4, <1>10
    <3> QED
      BY <3>1, <3>2, <3>3
  <2>8. CASE Len(p) + 1 = m
    <3>1. i - 1 \in Int
      OBVIOUS
    <3> HIDE DEF e
    <3>2. r \in LocatorState /\ NewFind(r, e, i - 1) /\ r.path = e.path /\ r.skip = e.skip
      BY <2>6, <2>7, <2>8, <3>1, MatchedIs
    <3>3. NewFind(r, s, i - 1)
      BY <2>6, <3>2 DEF NewFind, SameFind
    <3> HIDE DEF q, U, m
    <3> QED
      BY <1>2, <1>3, <2>1, <2>4, <2>6, <2>8, <3>2, <3>3 DEF U, m
  <2>9. CASE Len(p) + 1 # m
    <3>1. r = e
      BY <2>7, <2>9
    <3>2. i \notin U(m)
      BY <1>1, <1>8, <2>1, <2>9
    <3> HIDE DEF e, q, U, m
    <3> QED
      BY <1>2, <1>3, <2>1, <2>4, <2>6, <2>9, <3>1, <3>2 DEF U, m
  <2> QED
    BY <2>8, <2>9
<1> QED
  BY <1>9, <1>10

(* The matches among the first h tags.                                      *)
Hits(doc, sel, h) == {c \in SelectedUpTo(doc, sel)[Len(sel)] : c <= h}

(* What the locator says of element c once it has ended; end2 is that end   *)
(* too, unless it is tag now.                                               *)
EndedAt(doc, s, c, now) ==
    /\ s.start = c - 1 /\ s.tag = doc[c].name
    /\ s.end2 = IF EndOf(doc, c) = now THEN Unset ELSE EndOf(doc, c)
    /\ \/ doc[c].kind = "open" /\ s.end = EndOf(doc, c) - 1
          /\ doc[EndOf(doc, c)] = Close(doc[c].name)
       \/ doc[c].kind = "empty" /\ s.end = EndOf(doc, c)

Finding(doc, sel, s, h, now) ==
    /\ s.state = "LOOKING" => Hits(doc, sel, h) = {}
    /\ s.state = "FOUND" =>
         \E c \in Hits(doc, sel, h) :
            /\ Hits(doc, sel, h) = {c} /\ IsOpen(doc, c, h)
            /\ s.start = c - 1 /\ Len(s.path) = Len(sel)
    /\ s.state = "DONE" =>
         \E c \in Hits(doc, sel, h) :
            /\ Hits(doc, sel, h) = {c} /\ EndOf(doc, c) \in c..h /\ EndedAt(doc, s, c, now)
    /\ s.state = "MANY" => \E c, d \in Hits(doc, sel, h) : c # d

Locating(doc, sel, s, i) ==
    s \in LocatorState /\ Chain(doc, sel, s.path, s.skip, i, i) /\ Finding(doc, sel, s, i, i)

LEMMA SelectedOpen ==
    ASSUME NEW doc, Parsed(doc), NEW sel, SelectorOf(sel), NEW c \in SelectedUpTo(doc, sel)[Len(sel)]
    PROVE  /\ c \in 1..Len(doc) /\ doc[c].kind \in {"open", "empty"}
           /\ doc[c].kind = "open" => Level(doc, c) = Len(sel)
<1>1. Len(sel) \in 1..Len(sel) /\ Len(sel) \in Nat
  BY SelectedStep
<1>2. c \in 1..Len(doc) /\ Level(doc, c - 1) = Len(sel) - 1 /\ doc[c].kind # "close"
  BY <1>1, LevelSelected, SelectedIs
<1>3. doc[c].kind \in {"open", "close", "empty"}
  BY <1>2, TagType DEF Parsed
<1>4. doc[c].kind = "open" => Level(doc, c) = Level(doc, c - 1) + 1
  BY <1>2, Levels
<1> QED
  BY <1>1, <1>2, <1>3, <1>4

LEMMA HitsStep ==
    ASSUME NEW doc, Parsed(doc), NEW sel, SelectorOf(sel), NEW i \in 1..Len(doc)
    PROVE  /\ \A c \in Hits(doc, sel, i - 1) :
                /\ c \in 1..Len(doc) /\ c \in 1..i - 1
                /\ doc[c].kind = "open" => Level(doc, c) = Len(sel)
           /\ i \notin SelectedUpTo(doc, sel)[Len(sel)] => Hits(doc, sel, i) = Hits(doc, sel, i - 1)
           /\ i \in SelectedUpTo(doc, sel)[Len(sel)] =>
                Hits(doc, sel, i) = Hits(doc, sel, i - 1) \cup {i} /\ i \notin Hits(doc, sel, i - 1)
BY SelectedOpen DEF Hits

LEMMA FindingSame ==
    ASSUME NEW doc, Parsed(doc), NEW sel, SelectorOf(sel), NEW i \in 1..Len(doc),
           NEW s \in LocatorState, NEW r \in LocatorState, SameFind(r, s),
           Finding(doc, sel, s, i - 1, i), i \notin SelectedUpTo(doc, sel)[Len(sel)],
           s.state = "FOUND" => Len(r.path) = Len(sel) /\ Level(doc, i) >= Len(sel)
    PROVE  Finding(doc, sel, r, i, i)
<1> DEFINE C == Hits(doc, sel, i)
<1>1. C = Hits(doc, sel, i - 1)
  BY HitsStep
<1>2. ASSUME NEW c \in C, s.state = "FOUND", IsOpen(doc, c, i - 1) PROVE IsOpen(doc, c, i)
  <2>1. c \in 1..i - 1 /\ doc[c].kind = "open" /\ Level(doc, c) = Len(sel)
    BY <1>1, <1>2, HitsStep DEF IsOpen
  <2>2. c \in 1..i /\ Level(doc, i) >= Level(doc, c) /\ \A h \in c..i : h = i \/ h \in c..i - 1
    BY <1>2, <2>1
  <2> QED
    BY <1>2, <2>1, <2>2 DEF IsOpen
<1>3. ASSUME NEW c \in C, EndOf(doc, c) \in c..i - 1 PROVE EndOf(doc, c) \in c..i
  <2>1. c \in 1..i - 1
    BY <1>1, HitsStep
  <2> QED
    BY <1>3, <2>1
<1>4. \A c : EndedAt(doc, s, c, i) => EndedAt(doc, r, c, i)
  BY DEF EndedAt, SameFind
<1>5. r.state = s.state /\ r.start = s.start
  BY DEF SameFind
<1> HIDE DEF C
<1>6. /\ s.state = "LOOKING" => C = {}
      /\ s.state = "FOUND" =>
           \E c \in C : C = {c} /\ IsOpen(doc, c, i - 1) /\ s.start = c - 1 /\ Len(s.path) = Len(sel)
      /\ s.state = "DONE" =>
           \E c \in C : C = {c} /\ EndOf(doc, c) \in c..i - 1 /\ EndedAt(doc, s, c, i)
      /\ s.state = "MANY" => \E c, d \in C : c # d
  BY <1>1 DEF Finding
<1>7. r.state = "FOUND" => \E c \in C : C = {c} /\ IsOpen(doc, c, i) /\ r.start = c - 1 /\ Len(r.path) = Len(sel)
  BY <1>2, <1>5, <1>6
<1>8. r.state = "DONE" => \E c \in C : C = {c} /\ EndOf(doc, c) \in c..i /\ EndedAt(doc, r, c, i)
  BY <1>3, <1>4, <1>5, <1>6
<1> QED
  BY <1>5, <1>6, <1>7, <1>8 DEF Finding, C

LEMMA FindingNew ==
    ASSUME NEW doc, Parsed(doc), NEW sel, SelectorOf(sel), NEW i \in 1..Len(doc),
           NEW s \in LocatorState, NEW r \in LocatorState, NewFind(r, s, i - 1),
           Finding(doc, sel, s, i - 1, i), i \in SelectedUpTo(doc, sel)[Len(sel)],
           s.state # "FOUND"
    PROVE  \/ s.state = "LOOKING" /\ r.state = "FOUND" /\ Hits(doc, sel, i) = {i} /\ r.start = i - 1
           \/ /\ s.state # "LOOKING" /\ r.state = "MANY"
              /\ \E c, d \in Hits(doc, sel, i) : c # d
<1> DEFINE was == Hits(doc, sel, i - 1)
           C == Hits(doc, sel, i)
<1>1. C = was \cup {i} /\ i \notin was
  BY HitsStep
<1>2. CASE s.state = "LOOKING"
  <2>1. was = {}
    BY <1>2 DEF Finding
  <2>2. r.state = "FOUND" /\ r.start = i - 1
    BY <1>2 DEF NewFind
  <2> QED
    BY <1>1, <1>2, <2>1, <2>2
<1>3. CASE s.state \in {"DONE", "MANY"}
  <2>1. \E c \in was : TRUE
    BY <1>3 DEF Finding
  <2>2. r.state = "MANY"
    BY <1>3 DEF NewFind
  <2> QED
    BY <1>1, <1>3, <2>1, <2>2
<1> QED
  BY <1>2, <1>3 DEF LocatorState

LEMMA NextTagIs ==
    ASSUME NEW doc, Parsed(doc), NEW sel, SelectorOf(sel), NEW i \in 1..Len(doc),
           NEW s, Locating(doc, sel, s, i - 1), NEW r, r = NextTagSeen(s, i - 1)
    PROVE  /\ r \in LocatorState /\ Chain(doc, sel, r.path, r.skip, i - 1, i - 1)
           /\ Finding(doc, sel, r, i - 1, i)
           /\ r.state = "DONE" => r.end2 # Unset
<1> DEFINE was == Hits(doc, sel, i - 1)
<1>0. s \in LocatorState /\ i - 1 \in Int /\ i \in Nat
  BY DEF Locating
<1>1. /\ r \in LocatorState /\ r.path = s.path /\ r.skip = s.skip /\ r.state = s.state
      /\ r.start = s.start /\ r.end = s.end /\ r.tag = s.tag
      /\ r.end2 = IF s.state = "DONE" /\ s.end2 = Unset THEN i - 1 ELSE s.end2
  <2>1. CASE s.state = "DONE" /\ s.end2 = Unset
    <3>1. r = [s EXCEPT !.end2 = i - 1]
      BY <2>1 DEF NextTagSeen
    <3> QED
      BY <1>0, <2>1, <3>1 DEF LocatorState
  <2>2. CASE ~(s.state = "DONE" /\ s.end2 = Unset)
    BY <1>0, <2>2 DEF NextTagSeen
  <2> QED
    BY <2>1, <2>2
<1>2. Chain(doc, sel, r.path, r.skip, i - 1, i - 1)
  BY <1>1 DEF Locating
<1>3. ASSUME NEW c \in was, s.state = "DONE", EndOf(doc, c) \in c..i - 1, EndedAt(doc, s, c, i - 1)
      PROVE  EndedAt(doc, r, c, i) /\ r.end2 # Unset
  <2>1. c \in 1..i - 1
    BY HitsStep
  <2>2. EndOf(doc, c) # i /\ EndOf(doc, c) # Unset
    BY <1>0, <1>3, <2>1 DEF Unset
  <2>3. s.end2 = IF EndOf(doc, c) = i - 1 THEN Unset ELSE EndOf(doc, c)
    BY <1>3 DEF EndedAt
  <2>4. r.end2 = EndOf(doc, c)
    BY <1>1, <1>3, <2>2, <2>3
  <2> QED
    BY <1>1, <1>3, <2>2, <2>4 DEF EndedAt
<1> HIDE DEF was
<1>4. /\ s.state = "LOOKING" => was = {}
      /\ s.state = "FOUND" => \E c \in was : was = {c} /\ IsOpen(doc, c, i - 1) /\ s.start = c - 1 /\ Len(s.path) = Len(sel)
      /\ s.state = "DONE" =>
           \E c \in was : was = {c} /\ EndOf(doc, c) \in c..i - 1 /\ EndedAt(doc, s, c, i - 1)
      /\ s.state = "MANY" => \E c, d \in was : c # d
  BY DEF Locating, Finding, was
<1>5. r.state = "DONE" =>
        \E c \in was : was = {c} /\ EndOf(doc, c) \in c..i - 1 /\ EndedAt(doc, r, c, i) /\ r.end2 # Unset
  BY <1>1, <1>3, <1>4
<1>6. Finding(doc, sel, r, i - 1, i)
  BY <1>1, <1>4, <1>5 DEF Finding, was
<1> QED
  BY <1>1, <1>2, <1>5, <1>6

(* Leaving a matched element.                                               *)
LEMMA LeftIs ==
    ASSUME NEW s \in LocatorState, s.path # <<>>
    PROVE  /\ Left(s) \in LocatorState /\ SameFind(Left(s), s)
           /\ Left(s).path = Front(s.path) /\ Left(s).skip = s.skip
<1> DEFINE r == Left(s)
           p == Front(s.path)
<1>1. p \in Seq(PathStep)
  BY FrontOf DEF LocatorState
<1>2. r = [s EXCEPT !.path = p]
  BY DEF Left
<1> HIDE DEF r, p
<1>3. r \in LocatorState /\ SameFind(r, s) /\ r.path = p /\ r.skip = s.skip
  BY <1>1, <1>2 DEF LocatorState, SameFind
<1> QED
  BY <1>3 DEF r, p

LEMMA UnskippedIs ==
    ASSUME NEW s \in LocatorState, s.skip > 0, NEW r, r = [s EXCEPT !.skip = @ - 1]
    PROVE  r \in LocatorState /\ SameFind(r, s) /\ r.path = s.path /\ r.skip = s.skip - 1
<1> DEFINE less == s.skip - 1
<1>1. less \in Nat
  BY DEF LocatorState
<1>2. r = [s EXCEPT !.skip = less]
  OBVIOUS
<1> HIDE DEF less
<1>3. r \in LocatorState /\ SameFind(r, s) /\ r.path = s.path /\ r.skip = less
  BY <1>1, <1>2 DEF LocatorState, SameFind
<1> QED
  BY <1>3 DEF less

(* The end of the element that was found.                                   *)
LEMMA FoundEnds ==
    ASSUME NEW s \in LocatorState, s.path # <<>>, NEW pos \in Int, NEW r,
           r = Left(EndAt([s EXCEPT !.state = "DONE"], pos, Last(s.path).name, Unset))
    PROVE  /\ r \in LocatorState /\ r.path = Front(s.path) /\ r.skip = s.skip
           /\ r.state = "DONE" /\ r.start = s.start /\ r.end = pos /\ r.end2 = Unset
           /\ r.tag = s.path[Len(s.path)].name
<1> DEFINE tag == Last(s.path).name
           e == [s EXCEPT !.state = "DONE", !.end = pos, !.tag = tag, !.end2 = Unset]
<1>1. tag = s.path[Len(s.path)].name /\ tag \in Label
  <2> DEFINE p == s.path
  <2>1. p \in Seq(PathStep) /\ p # <<>>
    BY DEF LocatorState
  <2> HIDE DEF p
  <2>2. Last(p) = p[Len(p)] /\ Len(p) \in 1..Len(p)
    <3>1. Last(p) = p[Len(p)] /\ Len(p) \in Nat \ {0}
      BY <2>1, FrontOf
    <3> QED
      BY ONLY <3>1
  <2>3. Last(p) \in PathStep
    BY <2>1, <2>2
  <2> QED
    BY <2>2, <2>3 DEF PathStep, p
<1>2. r = Left(e)
  BY DEF EndAt, LocatorState
<1> HIDE DEF tag
<1>3. Unset \in Int
  BY DEF Unset
<1>4. /\ e.path = s.path /\ e.skip = s.skip /\ e.state = "DONE"
      /\ e.start = s.start /\ e.end = pos /\ e.end2 = Unset /\ e.tag = tag
  BY DEF LocatorState
<1>5. e \in LocatorState
  BY <1>1, <1>3 DEF LocatorState
<1> HIDE DEF e
<1>6. Left(e) \in LocatorState /\ SameFind(Left(e), e) /\ Left(e).path = Front(e.path) /\ Left(e).skip = e.skip
  BY <1>4, <1>5, LeftIs
<1> QED
  BY <1>1, <1>2, <1>4, <1>6 DEF SameFind

LEMMA EndCases ==
    ASSUME NEW s \in LocatorState, NEW sel, NEW pos, NEW r, r = EndElement(s, sel, pos)
    PROVE  /\ s.skip > 0 => r = [s EXCEPT !.skip = @ - 1]
           /\ s.skip = 0 /\ Len(s.path) = Len(sel) /\ s.state = "FOUND" =>
                r = Left(EndAt([s EXCEPT !.state = "DONE"], pos, Last(s.path).name, Unset))
           /\ s.skip = 0 /\ ~(Len(s.path) = Len(sel) /\ s.state = "FOUND") => r = Left(s)
BY DEF EndElement, LocatorState

LEMMA LocatingOpen ==
    ASSUME NEW doc, Parsed(doc), NEW sel, SelectorOf(sel), NEW i \in 1..Len(doc), doc[i].kind = "open",
           NEW s \in LocatorState, Chain(doc, sel, s.path, s.skip, i - 1, i - 1), Finding(doc, sel, s, i - 1, i)
    PROVE  Locating(doc, sel, StartElement(s, sel, doc[i], i - 1), i)
<1> DEFINE U(k) == SelectedUpTo(doc, sel)[k]
           m == Len(sel)
           new == [name |-> doc[i].name, position |-> 0]
<1> DEFINE r == StartElement(s, sel, doc[i], i - 1)
<1> HIDE DEF r
<1>1. /\ r \in LocatorState
      /\ \E q \in Seq(PathStep) :
           /\ Chain(doc, sel, q, s.skip, i - 1, i) /\ Len(q) = Len(s.path)
           /\ \/ /\ r.path = q /\ r.skip = s.skip + 1 /\ SameFind(r, s)
                 /\ s.skip > 0 \/ Len(q) = m \/ i \notin U(Len(q) + 1)
                 /\ i \notin U(m)
              \/ /\ r.path = Append(q, new) /\ r.skip = 0 /\ s.skip = 0
                 /\ Len(q) < m /\ i \in U(Len(q) + 1)
                 /\ \/ Len(q) + 1 = m /\ NewFind(r, s, i - 1)
                    \/ Len(q) + 1 # m /\ i \notin U(m) /\ SameFind(r, s)
  BY Arrival DEF r
<1>2. PICK q \in Seq(PathStep) :
           /\ Chain(doc, sel, q, s.skip, i - 1, i) /\ Len(q) = Len(s.path)
           /\ \/ /\ r.path = q /\ r.skip = s.skip + 1 /\ SameFind(r, s)
                 /\ s.skip > 0 \/ Len(q) = m \/ i \notin U(Len(q) + 1)
                 /\ i \notin U(m)
              \/ /\ r.path = Append(q, new) /\ r.skip = 0 /\ s.skip = 0
                 /\ Len(q) < m /\ i \in U(Len(q) + 1)
                 /\ \/ Len(q) + 1 = m /\ NewFind(r, s, i - 1)
                    \/ Len(q) + 1 # m /\ i \notin U(m) /\ SameFind(r, s)
  BY <1>1
<1>3. /\ m \in Nat \ {0} /\ Len(q) \in Nat /\ s.skip \in Nat /\ Len(q) + s.skip = Level(doc, i - 1)
      /\ Level(doc, i) = Level(doc, i - 1) + 1
  BY <1>2, SelectedStep, Levels DEF LocatorState, Chain
<1>4. s.state = "FOUND" => Len(q) = m
  BY <1>2 DEF Finding
<1>5. CASE /\ r.path = q /\ r.skip = s.skip + 1 /\ SameFind(r, s)
           /\ s.skip > 0 \/ Len(q) = m \/ i \notin U(Len(q) + 1)
           /\ i \notin U(m)
  <2>1. Chain(doc, sel, r.path, r.skip, i, i)
    BY <1>2, <1>5, ChainSkip
  <2>2. s.state = "FOUND" => Len(r.path) = m /\ Level(doc, i) >= m
    BY <1>3, <1>4, <1>5
  <2>3. Finding(doc, sel, r, i, i)
    BY <1>1, <1>5, <2>2, FindingSame
  <2> QED
    BY <1>1, <2>1, <2>3 DEF Locating, r
<1>6. CASE /\ r.path = Append(q, new) /\ r.skip = 0 /\ s.skip = 0
           /\ Len(q) < m /\ i \in U(Len(q) + 1)
           /\ \/ Len(q) + 1 = m /\ NewFind(r, s, i - 1)
              \/ Len(q) + 1 # m /\ i \notin U(m) /\ SameFind(r, s)
  <2>1. Chain(doc, sel, r.path, r.skip, i, i)
    <3>1. Chain(doc, sel, q, 0, i - 1, i) /\ i \in SelectedUpTo(doc, sel)[Len(q) + 1] /\ Len(q) < Len(sel) /\ Len(sel) \in Nat
      BY <1>2, <1>3, <1>6
    <3>2. Chain(doc, sel, Append(q, new), 0, i, i)
      BY <3>1, ChainEnter
    <3> QED
      BY <1>6, <3>2
  <2>2. s.state # "FOUND"
    BY <1>3, <1>4, <1>6
  <2>3. CASE Len(q) + 1 # m /\ i \notin U(m) /\ SameFind(r, s)
    <3>1. Finding(doc, sel, r, i, i)
      BY <1>1, <2>2, <2>3, FindingSame
    <3> QED
      BY <1>1, <2>1, <3>1 DEF Locating, r
  <2>4. CASE Len(q) + 1 = m /\ NewFind(r, s, i - 1)
    <3>1. i \in SelectedUpTo(doc, sel)[Len(sel)]
      BY <1>6, <2>4
    <3>2. \/ r.state = "FOUND" /\ Hits(doc, sel, i) = {i} /\ r.start = i - 1
          \/ r.state = "MANY" /\ \E c, d \in Hits(doc, sel, i) : c # d
      BY <1>1, <2>2, <2>4, <3>1, FindingNew
    <3>3. IsOpen(doc, i, i)
      <4>1. Level(doc, i) \in Nat /\ i \in Nat
        BY Levels
      <4> QED
        BY <4>1 DEF IsOpen
    <3>4. Len(r.path) = m
      <4>1. new \in PathStep
        BY TagType DEF PathStep, Parsed
      <4> HIDE DEF new
      <4>2. Len(Append(q, new)) = Len(q) + 1
        BY <4>1, AppendProperties
      <4> QED
        BY <1>6, <2>4, <4>2
    <3>5. Finding(doc, sel, r, i, i)
      BY <3>2, <3>3, <3>4 DEF Finding
    <3> QED
      BY <1>1, <2>1, <3>5 DEF Locating, r
  <2> QED
    BY <1>6, <2>3, <2>4
<1> QED
  BY <1>2, <1>5, <1>6

LEMMA LocatingEmpty ==
    ASSUME NEW doc, Parsed(doc), NEW sel, SelectorOf(sel), NEW i \in 1..Len(doc), doc[i].kind = "empty",
           NEW s \in LocatorState, Chain(doc, sel, s.path, s.skip, i - 1, i - 1), Finding(doc, sel, s, i - 1, i),
           s.state = "DONE" => s.end2 # Unset
    PROVE  Locating(doc, sel, EndElement(NextTagSeen(StartElement(s, sel, doc[i], i - 1), i), sel, i), i)
<1> DEFINE U(k) == SelectedUpTo(doc, sel)[k]
           m == Len(sel)
           new == [name |-> doc[i].name, position |-> 0]
           r == StartElement(s, sel, doc[i], i - 1)
           e == EndElement(r, sel, i)
<1> HIDE DEF r, e
<1>1. /\ r \in LocatorState
      /\ \E q \in Seq(PathStep) :
           /\ Chain(doc, sel, q, s.skip, i - 1, i) /\ Len(q) = Len(s.path)
           /\ \/ /\ r.path = q /\ r.skip = s.skip + 1 /\ SameFind(r, s)
                 /\ s.skip > 0 \/ Len(q) = m \/ i \notin U(Len(q) + 1)
                 /\ i \notin U(m)
              \/ /\ r.path = Append(q, new) /\ r.skip = 0 /\ s.skip = 0
                 /\ Len(q) < m /\ i \in U(Len(q) + 1)
                 /\ \/ Len(q) + 1 = m /\ NewFind(r, s, i - 1)
                    \/ Len(q) + 1 # m /\ i \notin U(m) /\ SameFind(r, s)
  BY Arrival DEF r
<1>2. PICK q \in Seq(PathStep) :
           /\ Chain(doc, sel, q, s.skip, i - 1, i) /\ Len(q) = Len(s.path)
           /\ \/ /\ r.path = q /\ r.skip = s.skip + 1 /\ SameFind(r, s)
                 /\ s.skip > 0 \/ Len(q) = m \/ i \notin U(Len(q) + 1)
                 /\ i \notin U(m)
              \/ /\ r.path = Append(q, new) /\ r.skip = 0 /\ s.skip = 0
                 /\ Len(q) < m /\ i \in U(Len(q) + 1)
                 /\ \/ Len(q) + 1 = m /\ NewFind(r, s, i - 1)
                    \/ Len(q) + 1 # m /\ i \notin U(m) /\ SameFind(r, s)
  BY <1>1
<1>3. /\ m \in Nat \ {0} /\ Len(q) \in Nat /\ s.skip \in Nat /\ Len(q) + s.skip = Level(doc, i - 1)
      /\ Level(doc, i) = Level(doc, i - 1)
  BY <1>2, SelectedStep, Levels DEF LocatorState, Chain
<1>4. s.state = "FOUND" => Len(q) = m
  BY <1>2 DEF Finding
<1>5. Chain(doc, sel, q, s.skip, i, i)
  BY <1>2, ChainEmpty
<1>6. NextTagSeen(r, i) = r
  <2>1. r.state = "DONE" => s.state = "DONE" /\ r.end2 = s.end2
    BY <1>2 DEF SameFind, NewFind, LocatorState
  <2> QED
    BY <2>1 DEF NextTagSeen
<1>7. SUFFICES Locating(doc, sel, e, i)
  BY <1>6 DEF r, e
<1>8. /\ r.skip > 0 => e = [r EXCEPT !.skip = @ - 1]
      /\ r.skip = 0 /\ Len(r.path) = m /\ r.state = "FOUND" =>
           e = Left(EndAt([r EXCEPT !.state = "DONE"], i, Last(r.path).name, Unset))
      /\ r.skip = 0 /\ ~(Len(r.path) = m /\ r.state = "FOUND") => e = Left(r)
  BY <1>1, EndCases DEF e
<1>9. CASE /\ r.path = q /\ r.skip = s.skip + 1 /\ SameFind(r, s)
           /\ i \notin U(m)
  <2>1. r.skip > 0
    BY <1>3, <1>9
  <2>2. e \in LocatorState /\ SameFind(e, r) /\ e.path = q /\ e.skip = s.skip
    <3>1. e \in LocatorState /\ SameFind(e, r) /\ e.path = r.path /\ e.skip = r.skip - 1
      BY <1>1, <1>8, <2>1, UnskippedIs
    <3> QED
      BY <1>3, <1>9, <3>1
  <2>3. SameFind(e, s)
    BY <1>9, <2>2 DEF SameFind
  <2>4. s.state = "FOUND" => Len(e.path) = m /\ Level(doc, i) >= m
    BY <1>3, <1>4, <2>2
  <2>5. Finding(doc, sel, e, i, i)
    BY <1>9, <2>2, <2>3, <2>4, FindingSame
  <2> QED
    BY <1>5, <2>2, <2>5 DEF Locating
<1>10. CASE /\ r.path = Append(q, new) /\ r.skip = 0 /\ s.skip = 0
            /\ Len(q) < m /\ i \in U(Len(q) + 1)
            /\ \/ Len(q) + 1 = m /\ NewFind(r, s, i - 1)
               \/ Len(q) + 1 # m /\ i \notin U(m) /\ SameFind(r, s)
  <2>1. s.state # "FOUND"
    BY <1>3, <1>4, <1>10
  <2>2. /\ r.path # <<>> /\ Len(r.path) = Len(q) + 1 /\ Front(r.path) = q
        /\ r.path[Len(r.path)].name = doc[i].name
    <3>1. new \in PathStep /\ new.name = doc[i].name
      BY TagType DEF PathStep, Parsed
    <3> HIDE DEF new
    <3>2. /\ Append(q, new) \in Seq(PathStep) /\ Append(q, new) # <<>>
          /\ Len(Append(q, new)) = Len(q) + 1 /\ Append(q, new)[Len(q) + 1] = new
          /\ \A k \in 1..Len(q) : Append(q, new)[k] = q[k]
      BY <3>1, AppendProperties
    <3>3. /\ Front(Append(q, new)) \in Seq(PathStep) /\ Len(Front(Append(q, new))) = Len(q)
          /\ \A k \in 1..Len(q) : Front(Append(q, new))[k] = q[k]
      <4> DEFINE l == Append(q, new)
      <4> HIDE DEF l
      <4>1. l \in Seq(PathStep) /\ l # <<>> /\ Len(l) = Len(q) + 1 /\ \A k \in 1..Len(q) : l[k] = q[k]
        BY <3>2 DEF l
      <4>2. /\ Front(l) \in Seq(PathStep) /\ Len(Front(l)) = Len(l) - 1
            /\ \A k \in 1..Len(l) - 1 : Front(l)[k] = l[k]
        BY <4>1, FrontOf
      <4>3. Len(l) - 1 = Len(q)
        BY <1>3, <4>1
      <4> QED
        BY <4>1, <4>2, <4>3 DEF l
    <3>4. Front(Append(q, new)) = q
      BY <3>3
    <3> QED
      BY <1>10, <3>1, <3>2, <3>4
  <2>3. CASE ~(Len(r.path) = m /\ r.state = "FOUND")
    <3>1. e \in LocatorState /\ SameFind(e, r) /\ e.path = q /\ e.skip = 0
      BY <1>1, <1>8, <1>10, <2>2, <2>3, LeftIs
    <3>2. Chain(doc, sel, e.path, e.skip, i, i)
      BY <1>5, <1>10, <3>1
    <3>3. CASE Len(q) + 1 # m /\ i \notin U(m) /\ SameFind(r, s)
      <4>1. SameFind(e, s)
        BY <3>1, <3>3 DEF SameFind
      <4>2. Finding(doc, sel, e, i, i)
        BY <2>1, <3>1, <3>3, <4>1, FindingSame
      <4> QED
        BY <3>1, <3>2, <4>2 DEF Locating
    <3>4. CASE Len(q) + 1 = m /\ NewFind(r, s, i - 1)
      <4>1. i \in SelectedUpTo(doc, sel)[Len(sel)]
        BY <1>10, <3>4
      <4>2. r.state = "MANY" /\ \E c, d \in Hits(doc, sel, i) : c # d
        BY <1>1, <2>1, <2>2, <2>3, <3>4, <4>1, FindingNew
      <4>3. Finding(doc, sel, e, i, i)
        BY <3>1, <4>2 DEF Finding, SameFind
      <4> QED
        BY <3>1, <3>2, <4>3 DEF Locating
    <3> QED
      BY <1>10, <3>3, <3>4
  <2>4. CASE Len(r.path) = m /\ r.state = "FOUND"
    <3>1. NewFind(r, s, i - 1) /\ i \in SelectedUpTo(doc, sel)[Len(sel)]
      BY <1>3, <1>10, <2>2, <2>4
    <3>2. Hits(doc, sel, i) = {i} /\ r.start = i - 1
      BY <1>1, <2>1, <2>4, <3>1, FindingNew
    <3>3. i \in Int
      OBVIOUS
    <3>4. /\ e \in LocatorState /\ e.path = q /\ e.skip = 0 /\ e.state = "DONE"
          /\ e.start = i - 1 /\ e.end = i /\ e.end2 = Unset /\ e.tag = doc[i].name
      <4>1. e = Left(EndAt([r EXCEPT !.state = "DONE"], i, Last(r.path).name, Unset))
        BY <1>8, <1>10, <2>4
      <4>2. /\ e \in LocatorState /\ e.path = Front(r.path) /\ e.skip = r.skip
            /\ e.state = "DONE" /\ e.start = r.start /\ e.end = i /\ e.end2 = Unset
            /\ e.tag = r.path[Len(r.path)].name
        BY <1>1, <2>2, <3>3, <4>1, FoundEnds
      <4> QED
        BY <1>10, <2>2, <3>2, <4>2
    <3>5. EndOf(doc, i) = i
      BY DEF EndOf
    <3>6. EndedAt(doc, e, i, i) /\ EndOf(doc, i) \in i..i
      BY <3>4, <3>5 DEF EndedAt
    <3>7. Finding(doc, sel, e, i, i)
      BY <3>2, <3>4, <3>6 DEF Finding
    <3> QED
      BY <1>5, <1>10, <3>4, <3>7 DEF Locating
  <2> QED
    BY <2>3, <2>4
<1> QED
  BY <1>2, <1>9, <1>10

LEMMA LocatingClose ==
    ASSUME NEW doc, Parsed(doc), NEW sel, SelectorOf(sel), NEW i \in 1..Len(doc), doc[i].kind = "close",
           NEW s \in LocatorState, Chain(doc, sel, s.path, s.skip, i - 1, i - 1), Finding(doc, sel, s, i - 1, i)
    PROVE  Locating(doc, sel, EndElement(s, sel, i - 1), i)
<1> DEFINE m == Len(sel)
           e == EndElement(s, sel, i - 1)
<1> HIDE DEF e
<1>1. /\ m \in Nat \ {0} /\ Len(s.path) \in Nat /\ s.skip \in Nat /\ Len(s.path) + s.skip = Level(doc, i - 1)
      /\ s.path \in Seq(PathStep) /\ Level(doc, i) = Level(doc, i - 1) - 1
  <2>1. s.path \in Seq(PathStep) /\ s.skip \in Nat /\ Len(s.path) + s.skip = Level(doc, i - 1)
    BY DEF Chain
  <2>2. Len(s.path) \in Nat
    BY <2>1
  <2>3. Level(doc, i) = Level(doc, i - 1) - 1 /\ m \in Nat \ {0}
    BY SelectedStep, Levels
  <2> QED
    BY <2>1, <2>2, <2>3
<1>2. i \notin SelectedUpTo(doc, sel)[m]
  BY SelectedOpen
<1>3. /\ s.skip > 0 => e = [s EXCEPT !.skip = @ - 1]
      /\ s.skip = 0 /\ Len(s.path) = Len(sel) /\ s.state = "FOUND" =>
           e = Left(EndAt([s EXCEPT !.state = "DONE"], i - 1, Last(s.path).name, Unset))
      /\ s.skip = 0 /\ ~(Len(s.path) = Len(sel) /\ s.state = "FOUND") => e = Left(s)
  BY EndCases DEF e
<1>4. CASE s.skip > 0
  <2>1. e \in LocatorState /\ SameFind(e, s) /\ e.path = s.path /\ e.skip = s.skip - 1
    BY <1>3, <1>4, UnskippedIs
  <2>2. Chain(doc, sel, e.path, e.skip, i, i)
    BY <1>4, <2>1, ChainLeave
  <2>3. s.state = "FOUND" => Len(e.path) = m /\ Level(doc, i) >= m
    BY <1>1, <1>4, <2>1 DEF Finding
  <2>4. Finding(doc, sel, e, i, i)
    BY <1>2, <2>1, <2>3, FindingSame
  <2> QED
    BY <2>1, <2>2, <2>4 DEF Locating, e
<1>5. CASE s.skip = 0 /\ s.state # "FOUND"
  <2>1. s.path # <<>> /\ Chain(doc, sel, Front(s.path), 0, i, i)
    BY <1>5, ChainLeave
  <2>2. e \in LocatorState /\ SameFind(e, s) /\ e.path = Front(s.path) /\ e.skip = 0
    BY <1>3, <1>5, <2>1, LeftIs
  <2>3. Finding(doc, sel, e, i, i)
    BY <1>2, <1>5, <2>2, FindingSame
  <2> QED
    BY <2>1, <2>2, <2>3 DEF Locating, e
<1>6. CASE s.skip = 0 /\ s.state = "FOUND"
  <2>1. s.path # <<>> /\ Chain(doc, sel, Front(s.path), 0, i, i)
    BY <1>6, ChainLeave
  <2>2. PICK c \in Hits(doc, sel, i - 1) :
          /\ Hits(doc, sel, i - 1) = {c} /\ IsOpen(doc, c, i - 1)
          /\ s.start = c - 1 /\ Len(s.path) = m
    BY <1>6 DEF Finding
  <2>3. /\ e \in LocatorState /\ e.path = Front(s.path) /\ e.skip = 0 /\ e.state = "DONE"
        /\ e.start = c - 1 /\ e.end = i - 1 /\ e.end2 = Unset
        /\ e.tag = s.path[Len(s.path)].name
    <3>1. e = Left(EndAt([s EXCEPT !.state = "DONE"], i - 1, Last(s.path).name, Unset)) /\ i - 1 \in Int
      BY <1>3, <1>6, <2>2
    <3>2. /\ e \in LocatorState /\ e.path = Front(s.path) /\ e.skip = s.skip
          /\ e.state = "DONE" /\ e.start = s.start /\ e.end = i - 1 /\ e.end2 = Unset
          /\ e.tag = s.path[Len(s.path)].name
      BY <2>1, <3>1, FoundEnds
    <3> QED
      BY <1>6, <2>2, <3>2
  <2>4. c \in 1..i - 1 /\ Level(doc, c) = m /\ doc[c].kind = "open"
    BY <2>2, HitsStep DEF IsOpen
  <2>5. EndOf(doc, c) = i /\ doc[i] = Close(doc[c].name)
    BY <1>1, <1>6, <2>2, <2>4, EndIs
  <2>6. s.path[Len(s.path)].name = doc[c].name
    BY <1>1, <2>2, <2>4 DEF Chain
  <2>7. EndedAt(doc, e, c, i) /\ EndOf(doc, c) \in c..i
    BY <2>3, <2>4, <2>5, <2>6 DEF EndedAt
  <2>8. Hits(doc, sel, i) = {c}
    BY <1>2, <2>2, HitsStep
  <2>9. Finding(doc, sel, e, i, i)
    BY <2>3, <2>7, <2>8 DEF Finding
  <2> QED
    BY <2>1, <2>3, <2>9 DEF Locating, e
<1> QED
  BY <1>1, <1>4, <1>5, <1>6

LEMMA StatesStep ==
    ASSUME NEW doc, Parsed(doc), NEW sel
    PROVE  /\ ElementStates(doc, sel)[0] = StartDocument
           /\ \A i \in 1..Len(doc) :
                ElementStates(doc, sel)[i] = ElementEvents(ElementStates(doc, sel)[i - 1], sel, doc[i], i)
<1> DEFINE states == ElementStates(doc, sel)
<1>1. Len(doc) \in Nat
  BY Levels
<1>2. states = [i \in 0..Len(doc) |-> IF i = 0 THEN StartDocument
                                      ELSE ElementEvents(states[i - 1], sel, doc[i], i)]
  BY <1>1, ElementStatesDef
<1> HIDE DEF states
<1>3. states[0] = StartDocument
  BY <1>1, <1>2
<1>4. ASSUME NEW i \in 1..Len(doc) PROVE states[i] = ElementEvents(states[i - 1], sel, doc[i], i)
  <2>1. i \in 0..Len(doc) /\ i # 0
    BY <1>1
  <2>2. states[i] = IF i = 0 THEN StartDocument ELSE ElementEvents(states[i - 1], sel, doc[i], i)
    BY <1>2, <2>1
  <2> QED
    BY <2>1, <2>2
<1> QED
  BY <1>3, <1>4 DEF states

LEMMA LocatingStart ==
    ASSUME NEW doc, Parsed(doc), NEW sel, SelectorOf(sel)
    PROVE  Locating(doc, sel, StartDocument, 0)
<1>1. /\ StartDocument.path = <<>> /\ StartDocument.skip = 0 /\ StartDocument.state = "LOOKING"
  BY DEF StartDocument
<1>2. StartDocument \in LocatorState
  <2>1. Unset \in Int /\ NoTag \in Label /\ <<>> \in Seq(PathStep) /\ 0 \in Nat
    <3>1. Unset \in Int
      BY DEF Unset
    <3>2. NoTag \in Label
      BY Zenon DEF Label
    <3> QED
      BY <3>1, <3>2
  <2> QED
    BY <2>1 DEF StartDocument, LocatorState
<1>3. Chain(doc, sel, <<>>, 0, 0, 0)
  <2>1. Level(doc, 0) = 0 /\ Len(sel) \in Nat
    BY Levels, SelectedStep
  <2> QED
    BY <2>1 DEF Chain
<1>4. Hits(doc, sel, 0) = {}
  BY SelectedOpen DEF Hits
<1> QED
  BY <1>1, <1>2, <1>3, <1>4 DEF Locating, Finding

LEMMA EventCases ==
    ASSUME NEW s, NEW sel, NEW t, NEW i
    PROVE  /\ t.kind = "open" =>
                ElementEvents(s, sel, t, i) = StartElement(NextTagSeen(s, i - 1), sel, t, i - 1)
           /\ t.kind = "close" =>
                ElementEvents(s, sel, t, i) = EndElement(NextTagSeen(s, i - 1), sel, i - 1)
           /\ t.kind = "empty" =>
                ElementEvents(s, sel, t, i) =
                  EndElement(NextTagSeen(StartElement(NextTagSeen(s, i - 1), sel, t, i - 1), i), sel, i)
<1>1. t.kind = "open" =>
        ElementEvents(s, sel, t, i) = StartElement(NextTagSeen(s, i - 1), sel, t, i - 1)
  BY DEF ElementEvents
<1>2. t.kind = "close" =>
        ElementEvents(s, sel, t, i) = EndElement(NextTagSeen(s, i - 1), sel, i - 1)
  BY DEF ElementEvents
<1>3. t.kind = "empty" =>
        ElementEvents(s, sel, t, i) =
          EndElement(NextTagSeen(StartElement(NextTagSeen(s, i - 1), sel, t, i - 1), i), sel, i)
  BY DEF ElementEvents
<1> QED
  BY <1>1, <1>2, <1>3

(* The locator is right after every tag.                                    *)
LEMMA LocatorIsRight ==
    ASSUME NEW doc, Parsed(doc), NEW sel, SelectorOf(sel)
    PROVE  \A i \in 0..Len(doc) : Locating(doc, sel, ElementStates(doc, sel)[i], i)
<1> DEFINE states == ElementStates(doc, sel)
           S == {i \in 0..Len(doc) : Locating(doc, sel, states[i], i)}
<1>0. Len(doc) \in Nat /\ doc \in Seq(Tag)
  BY Levels DEF Parsed
<1>1. 0 \in S
  BY <1>0, StatesStep, LocatingStart
<1>2. ASSUME NEW i \in 1..Len(doc), i - 1 \in S PROVE i \in S
  <2> DEFINE s == states[i - 1]
             r == NextTagSeen(s, i - 1)
  <2>1. /\ r \in LocatorState /\ Chain(doc, sel, r.path, r.skip, i - 1, i - 1)
        /\ Finding(doc, sel, r, i - 1, i)
        /\ r.state = "DONE" => r.end2 # Unset
    BY <1>2, NextTagIs
  <2>2. states[i] = ElementEvents(s, sel, doc[i], i)
    BY StatesStep
  <2>3. doc[i].kind \in {"open", "close", "empty"}
    BY <1>0, TagType
  <2> HIDE DEF r, states
  <2>4. CASE doc[i].kind = "open"
    <3>1. Locating(doc, sel, StartElement(r, sel, doc[i], i - 1), i)
      BY <2>1, <2>4, LocatingOpen
    <3> QED
      BY <1>0, <2>2, <2>4, <3>1, EventCases DEF r
  <2>5. CASE doc[i].kind = "close"
    <3>1. Locating(doc, sel, EndElement(r, sel, i - 1), i)
      BY <2>1, <2>5, LocatingClose
    <3> QED
      BY <1>0, <2>2, <2>5, <3>1, EventCases DEF r
  <2>6. CASE doc[i].kind = "empty"
    <3>1. Locating(doc, sel, EndElement(NextTagSeen(StartElement(r, sel, doc[i], i - 1), i), sel, i), i)
      BY <2>1, <2>6, LocatingEmpty
    <3> QED
      BY <1>0, <2>2, <2>6, <3>1, EventCases DEF r
  <2> QED
    BY <2>3, <2>4, <2>5, <2>6
<1>3. 0..Len(doc) \subseteq S
  <2> HIDE DEF S
  <2> QED
    BY <1>0, <1>1, <1>2, Induction
<1> QED
  BY <1>3

-----------------------------------------------------------------------------
(* find, of a well-formed document: the match if there is one and only one,  *)
(* without its end tag if fix_end_pos does not see that.                     *)

\* Where find takes element c to end.
EndSeen(doc, c) == IF EndIsSeen(doc, c) THEN EndOf(doc, c) ELSE EndOf(doc, c) - 1

LEMMA EndsWithin ==
    ASSUME NEW doc, Parsed(doc), NEW sel, SelectorOf(sel), NEW s \in LocatorState,
           NEW c \in 1..Len(doc), EndOf(doc, c) \in c..Len(doc), EndedAt(doc, s, c, Len(doc))
    PROVE  /\ s.start = c - 1 /\ FixedEnd(doc, s) = EndSeen(doc, c)
           /\ doc[c].kind = "open" => doc[EndOf(doc, c)].kind = "close"
<1> DEFINE e == EndOf(doc, c)
           upTo == IF s.end2 = Unset THEN Len(doc) ELSE s.end2
<1>0. Len(doc) \in Nat /\ e \in 1..Len(doc) /\ e \in Nat /\ e # Unset
  BY Levels DEF Unset
<1>1. upTo = e
  BY <1>0 DEF EndedAt
<1>2. s.tag # NoTag /\ s.tag = doc[c].name /\ s.start = c - 1
  BY TagType DEF EndedAt, Parsed
<1>3. FixedEnd(doc, s) = IF /\ EndTagShows(doc, doc[c].name, s.end)
                            /\ \E i \in s.end + 1 .. e : doc[i] = Close(doc[c].name)
                         THEN s.end + 1 ELSE s.end
  BY <1>1, <1>2 DEF FixedEnd
<1> HIDE DEF e
<1>4. CASE doc[c].kind = "open" /\ s.end = e - 1 /\ doc[e] = Close(doc[c].name)
  <2>1. e \in s.end + 1 .. e /\ s.end + 1 = e
    BY <1>0, <1>4
  <2>2. FixedEnd(doc, s) = IF EndTagShows(doc, doc[c].name, e - 1) THEN e ELSE e - 1
    BY <1>3, <1>4, <2>1
  <2>3. EndIsSeen(doc, c) <=> EndTagShows(doc, doc[c].name, e - 1)
    BY <1>4 DEF EndIsSeen, EndTagShows, e
  <2>4. doc[e].kind = "close"
    BY <1>4 DEF Close
  <2> QED
    BY <1>2, <2>2, <2>3, <2>4 DEF e, EndSeen
<1>5. CASE doc[c].kind = "empty" /\ s.end = e
  <2>1. ~\E i \in s.end + 1 .. e : doc[i] = Close(doc[c].name)
    BY <1>0, <1>5
  <2>2. FixedEnd(doc, s) = s.end
    BY <1>3, <2>1
  <2>3. EndIsSeen(doc, c)
    BY <1>5 DEF EndIsSeen
  <2> QED
    BY <1>2, <1>5, <2>2, <2>3 DEF e, EndSeen
<1> QED
  BY <1>4, <1>5 DEF EndedAt, e

LEMMA FindIs ==
    ASSUME NEW doc, Parsed(doc), NEW sel, SelectorOf(sel)
    PROVE  LET found == Selected(doc, sel)
               f == Find(doc, sel)
           IN  /\ found \subseteq 1..Len(doc)
               /\ \/ f = [is |-> "none"] /\ found = {}
                  \/ \E c \in found : /\ found = {c} /\ EndOf(doc, c) \in c..Len(doc)
                                      /\ EndSeen(doc, c) \in c..Len(doc)
                                      /\ f = [is |-> "one", start |-> c - 1, end |-> EndSeen(doc, c)]
                  \/ f = [is |-> "many"] /\ \E c, d \in found : c # d
<1> DEFINE found == Selected(doc, sel)
           s == ElementLocator(doc, sel)
           n == Len(doc)
           f == Find(doc, sel)
<1>0. n \in Nat /\ n \in 0..n /\ WellFormed(doc)
  BY Levels DEF Parsed
<1>1. s \in LocatorState /\ Finding(doc, sel, s, n, n)
  BY <1>0, LocatorIsRight DEF ElementLocator, Locating
<1>2. found \subseteq 1..n /\ Hits(doc, sel, n) = found
  BY SelectedOpen DEF Hits, Selected
<1>3. s.state \in {"LOOKING", "FOUND", "DONE", "MANY"}
  BY <1>1 DEF LocatorState
<1>4. f = Verdict(doc, s)
  BY DEF Find
<1> HIDE DEF s, f, found
<1>5. CASE s.state = "LOOKING"
  <2>1. f = [is |-> "none"]
    BY <1>0, <1>4, <1>5 DEF Verdict
  <2>2. found = {}
    BY <1>1, <1>2, <1>5 DEF Finding
  <2> QED
    BY <1>2, <2>1, <2>2 DEF f, found
<1>6. CASE s.state = "FOUND"
  <2>1. PICK c \in found : IsOpen(doc, c, n)
    BY <1>1, <1>2, <1>6 DEF Finding
  <2>2. c \in 1..n /\ doc[c].kind = "open" /\ Level(doc, n) >= Level(doc, c) /\ Level(doc, n) = 0
    BY <1>0, <1>2, <2>1, Levels DEF IsOpen
  <2>3. Level(doc, c) = Len(sel) /\ Len(sel) \in Nat \ {0}
    BY <2>1, <2>2, SelectedOpen, SelectedStep DEF found, Selected
  <2> QED
    BY <2>2, <2>3
<1>7. CASE s.state = "DONE"
  <2>1. PICK c \in found : found = {c} /\ EndOf(doc, c) \in c..n /\ EndedAt(doc, s, c, n)
    BY <1>1, <1>2, <1>7 DEF Finding
  <2>2. /\ s.start = c - 1 /\ FixedEnd(doc, s) = EndSeen(doc, c)
        /\ doc[c].kind = "open" => doc[EndOf(doc, c)].kind = "close"
    BY <1>1, <1>2, <2>1, EndsWithin
  <2>3. f = [is |-> "one", start |-> s.start, end |-> FixedEnd(doc, s)]
    BY <1>0, <1>4, <1>7 DEF Verdict
  <2>4. EndSeen(doc, c) \in c..n
    <3>1. c \in 1..n /\ doc[c].kind \in {"open", "close", "empty"} /\ doc[c].kind # "close"
      BY <1>0, <1>2, <2>1, SelectedOpen, TagType DEF Parsed, found, Selected
    <3>2. EndIsSeen(doc, c) => EndSeen(doc, c) = EndOf(doc, c)
      BY DEF EndSeen
    <3>3. ~EndIsSeen(doc, c) => doc[c].kind = "open" /\ EndSeen(doc, c) = EndOf(doc, c) - 1
      BY <3>1 DEF EndSeen, EndIsSeen
    <3>4. doc[c].kind = "open" => EndOf(doc, c) # c
      BY <2>2
    <3> QED
      BY <1>0, <2>1, <3>1, <3>2, <3>3, <3>4
  <2> QED
    BY <1>2, <2>1, <2>2, <2>3, <2>4 DEF f, found
<1>8. CASE s.state = "MANY"
  <2>1. f = [is |-> "many"]
    BY <1>0, <1>4, <1>8 DEF Verdict
  <2>2. \E c, d \in found : c # d
    BY <1>1, <1>2, <1>8 DEF Finding
  <2> QED
    BY <1>2, <2>1, <2>2 DEF f, found
<1> QED
  BY <1>3, <1>5, <1>6, <1>7, <1>8

(* Any other text is a parse error.                                         *)
LEMMA FindOfOther ==
    ASSUME NEW doc, ~WellFormed(doc), NEW sel
    PROVE  Find(doc, sel) = [is |-> "parse_error"]
BY DEF Find, Verdict

-----------------------------------------------------------------------------
(* Cutting and splicing.                                                    *)

LEMMA SplicedType ==
    ASSUME NEW doc \in Seq(Tag), NEW body \in Seq(Tag),
           NEW start \in 0..Len(doc), NEW end \in 0..Len(doc)
    PROVE  Spliced(doc, start, end, body) \in Seq(Tag)
<1> DEFINE n == Len(doc)
<1>1. n \in Nat /\ \A i \in 1..n : doc[i] \in Tag
  BY TagType
<1>2. SubSeq(doc, 1, start) \in Seq(Tag)
  <2>1. 1 \in Int /\ start \in Int /\ \A i \in 1..start : doc[i] \in Tag
    BY <1>1
  <2> QED
    BY <2>1, SubSeqProperties
<1>3. SubSeq(doc, end + 1, n) \in Seq(Tag)
  <2>1. end + 1 \in Int /\ n \in Int /\ \A i \in end + 1 .. n : doc[i] \in Tag
    BY <1>1
  <2> QED
    BY <2>1, SubSeqProperties
<1>4. (SubSeq(doc, 1, start) \o body) \o SubSeq(doc, end + 1, n) \in Seq(Tag)
  <2>1. SubSeq(doc, 1, start) \o body \in Seq(Tag)
    BY <1>2, ConcatProperties
  <2> QED
    BY <1>3, <2>1, ConcatProperties
<1> QED
  BY <1>4 DEF Spliced

(* Text that takes its own place changes nothing.                           *)
LEMMA SplicedSame ==
    ASSUME NEW doc \in Seq(Tag), NEW start \in 0..Len(doc), NEW end \in start..Len(doc)
    PROVE  Spliced(doc, start, end, SubSeq(doc, start + 1, end)) = doc
<1>0. Len(doc) \in Nat /\ 1 \in 1..Len(doc) + 1 /\ start \in 1 - 1 .. Len(doc)
      /\ end \in 1 - 1 .. Len(doc) /\ end \in start..Len(doc) /\ Len(doc) \in end..Len(doc)
  BY TagType
<1>1. SubSeq(doc, 1, start) \o SubSeq(doc, start + 1, end) = SubSeq(doc, 1, end)
  BY <1>0, ConcatAdjacentSubSeq
<1>2. SubSeq(doc, 1, end) \o SubSeq(doc, end + 1, Len(doc)) = SubSeq(doc, 1, Len(doc))
  BY <1>0, ConcatAdjacentSubSeq
<1>3. SubSeq(doc, 1, Len(doc)) = doc
  BY SubSeqFull
<1> QED
  BY <1>1, <1>2, <1>3 DEF Spliced

(* OpenNames looks at kinds and names only, and never ahead.                *)
LEMMA OpenNamesSame ==
    ASSUME NEW a \in Seq(Tag), NEW b \in Seq(Tag), NEW n \in Nat, n <= Len(a), n <= Len(b),
           \A i \in 1..n : a[i].kind = b[i].kind /\ a[i].name = b[i].name
    PROVE  \A i \in 0..n : OpenNames(a)[i] = OpenNames(b)[i]
<1> DEFINE S == {i \in 0..n : OpenNames(a)[i] = OpenNames(b)[i]}
<1>1. 0 \in S
  BY OpenNamesStep
<1>2. ASSUME NEW i \in 1..n, i - 1 \in S PROVE i \in S
  <2>1. OpenNames(a)[i - 1] = OpenNames(b)[i - 1]
    BY <1>2
  <2>2. i \in 1..Len(a) /\ i \in 1..Len(b) /\ a[i].kind = b[i].kind /\ a[i].name = b[i].name
    BY TagType
  <2>3. OpenNames(a)[i] = Opened(OpenNames(a)[i - 1], a[i]) /\ OpenNames(b)[i] = Opened(OpenNames(b)[i - 1], b[i])
    BY <2>2, OpenNamesStep
  <2>4. \A open : Opened(open, a[i]) = Opened(open, b[i])
    <3> DEFINE x == a[i]
               y == b[i]
    <3>1. x.kind = y.kind /\ x.name = y.name
      BY <2>2
    <3> HIDE DEF x, y
    <3>2. \A open : Opened(open, x) = Opened(open, y)
      BY <3>1, Zenon DEF Opened
    <3> QED
      BY <3>2 DEF x, y
  <2>5. OpenNames(a)[i] = OpenNames(b)[i]
    BY <2>1, <2>3, <2>4
  <2> QED
    BY <2>5
<1> QED
  <2> HIDE DEF S
  <2>1. 0..n \subseteq S
    BY <1>1, <1>2, Induction
  <2> QED
    BY <2>1 DEF S

-----------------------------------------------------------------------------
(* The place InsertPointLocator gives is in the document.                   *)

LEMMA SiblingStatesDef ==
    ASSUME NEW doc, NEW sel, Len(doc) \in Nat
    PROVE  SiblingStates(doc, sel) =
             [i \in 0..Len(doc) |->
                IF i = 0 THEN StartDocument ELSE SiblingEvents(SiblingStates(doc, sel)[i - 1], sel, doc[i], i)]
<1> DEFINE Rec(f, n) ==
             f = [i \in 0..n |-> IF i = 0 THEN StartDocument ELSE SiblingEvents(f[i - 1], sel, doc[i], i)]
           S == {n \in Nat : \E f : Rec(f, n)}
<1>1. 0 \in S
  <2>1. Rec([i \in 0..0 |-> StartDocument], 0)
    OBVIOUS
  <2> QED
    BY <2>1
<1>2. ASSUME NEW n \in 1..Len(doc), n - 1 \in S PROVE n \in S
  <2>1. PICK f : Rec(f, n - 1)
    BY <1>2
  <2> DEFINE g == [i \in 0..n |-> IF i = n THEN SiblingEvents(f[n - 1], sel, doc[n], n) ELSE f[i]]
  <2>2. ASSUME NEW i \in 0..n
        PROVE  g[i] = IF i = 0 THEN StartDocument ELSE SiblingEvents(g[i - 1], sel, doc[i], i)
    BY <2>1
  <2>3. Rec(g, n) /\ n \in Nat
    BY <2>2
  <2> HIDE DEF Rec, g
  <2> QED
    BY <2>3
<1>3. Len(doc) \in S
  <2> HIDE DEF S
  <2>1. 0..Len(doc) \subseteq S
    BY <1>1, <1>2, Induction
  <2> QED
    BY <2>1
<1>4. \E f : Rec(f, Len(doc))
  BY <1>3
<1> QED
  BY <1>4 DEF SiblingStates

Placing(s, i) ==
    /\ s = [state |-> s.state, path |-> s.path, skip |-> s.skip,
            start |-> s.start, end |-> s.end, tag |-> s.tag, end2 |-> s.end2]
    /\ s.end \in Unset..i /\ s.end2 \in Unset..i
    /\ s.state \in {"DONE", "CLOSED"} => s.end # Unset

(* What an event may do to it.                                              *)
LEMMA PlacingEnd ==
    ASSUME NEW i \in Nat, NEW s, Placing(s, i), NEW pos \in 0..i, NEW tag,
           NEW state, NEW end2, end2 \in {Unset, pos},
           NEW r, r = EndAt([s EXCEPT !.state = state], pos, tag, end2)
    PROVE  Placing(r, i)
<1> DEFINE e == [state |-> state, path |-> s.path, skip |-> s.skip,
                 start |-> s.start, end |-> pos, tag |-> tag, end2 |-> end2]
<1>1. r = e
  BY DEF Placing, EndAt
<1>2. pos \in Unset..i /\ end2 \in Unset..i /\ pos # Unset
  BY DEF Unset
<1> QED
  BY <1>1, <1>2 DEF Placing

LEMMA PlacingSame ==
    ASSUME NEW i, NEW s, Placing(s, i), NEW path, NEW skip
    PROVE  Placing([s EXCEPT !.path = path], i) /\ Placing([s EXCEPT !.skip = skip], i)
<1> DEFINE a == [state |-> s.state, path |-> path, skip |-> s.skip,
                 start |-> s.start, end |-> s.end, tag |-> s.tag, end2 |-> s.end2]
           b == [state |-> s.state, path |-> s.path, skip |-> skip,
                 start |-> s.start, end |-> s.end, tag |-> s.tag, end2 |-> s.end2]
<1>1. [s EXCEPT !.path = path] = a /\ [s EXCEPT !.skip = skip] = b
  BY DEF Placing
<1> QED
  BY <1>1 DEF Placing

LEMMA PlacingState ==
    ASSUME NEW i, NEW s, Placing(s, i), NEW state,
           s.end = Unset => state \notin {"DONE", "CLOSED"}
    PROVE  Placing([s EXCEPT !.state = state], i)
<1> DEFINE a == [state |-> state, path |-> s.path, skip |-> s.skip,
                 start |-> s.start, end |-> s.end, tag |-> s.tag, end2 |-> s.end2]
<1>1. [s EXCEPT !.state = state] = a
  BY DEF Placing
<1> QED
  BY <1>1 DEF Placing

LEMMA PlacingNextTag ==
    ASSUME NEW i \in Nat, NEW s, Placing(s, i), NEW pos \in 0..i
    PROVE  Placing(NextTagSeen(s, pos), i)
<1> DEFINE a == [state |-> s.state, path |-> s.path, skip |-> s.skip,
                 start |-> s.start, end |-> s.end, tag |-> s.tag, end2 |-> pos]
<1>1. CASE s.state = "DONE" /\ s.end2 = Unset
  <2>1. NextTagSeen(s, pos) = a /\ pos \in Unset..i
    BY <1>1 DEF NextTagSeen, Placing, Unset
  <2> QED
    BY <2>1 DEF Placing
<1>2. CASE ~(s.state = "DONE" /\ s.end2 = Unset)
  BY <1>2 DEF NextTagSeen
<1> QED
  BY <1>1, <1>2

LEMMA PlacingCount ==
    ASSUME NEW i, NEW s, Placing(s, i), NEW t
    PROVE  /\ Placing(CountedChild(s), i) /\ Placing(Skipped(s), i) /\ Placing(Left(s), i)
           /\ Placing(Entered(s, t), i)
<1>1. \E path : CountedChild(s) = [s EXCEPT !.path = path]
  <2>1. s = [s EXCEPT !.path = s.path]
    BY DEF Placing
  <2> QED
    BY <2>1 DEF CountedChild
<1> QED
  BY <1>1, PlacingSame DEF Skipped, Left, Entered

LEMMA PlacingStart ==
    ASSUME NEW i \in Nat, NEW s, Placing(s, i), NEW sel, NEW t, NEW pos \in 0..i
    PROVE  Placing(StartSibling(s, sel, t, pos), i)
<1> DEFINE step == sel[Len(s.path) + 1]
<1>1. Placing(Raised(s), i) /\ Placing(Skipped(s), i)
      /\ Placing(CountedChild(s), i) /\ Placing(Skipped(CountedChild(s)), i)
      /\ Placing(Entered(CountedChild(s), t), i)
  <2>1. Placing(Raised(s), i)
    BY PlacingState DEF Raised
  <2> QED
    BY <2>1, PlacingCount
<1>2. Placing(Entered(InsertBefore(CountedChild(s), step, pos), t), i)
  <2> DEFINE c == CountedChild(s)
  <2>1. Placing(EndAt([c EXCEPT !.state = "DONE"], pos, NoTag, pos), i)
    BY <1>1, PlacingEnd
  <2>2. Placing(InsertBefore(c, step, pos), i)
    BY <1>1, <2>1 DEF InsertBefore
  <2> QED
    BY <2>2, PlacingCount
<1> QED
  BY <1>1, <1>2 DEF StartSibling

LEMMA PlacingAfter ==
    ASSUME NEW i \in Nat, NEW s, Placing(s, i), NEW step, NEW pos \in 0..i
    PROVE  Placing(InsertAfter(s, step, pos), i)
<1> DEFINE done(state) == EndAt([s EXCEPT !.state = IF @ = "DONE" THEN "MANY" ELSE state],
                                pos, Last(s.path).name, Unset)
<1>1. ASSUME NEW state PROVE Placing(done(state), i)
  <2> DEFINE next == IF s.state = "DONE" THEN "MANY" ELSE state
  <2>1. done(state) = EndAt([s EXCEPT !.state = next], pos, Last(s.path).name, Unset)
    OBVIOUS
  <2> QED
    BY <2>1, PlacingEnd
<1> HIDE DEF done
<1>2. InsertAfter(s, step, pos) \in {done("CLOSED"), done("DONE"), s}
  BY DEF InsertAfter, done
<1> QED
  BY <1>1, <1>2

LEMMA PlacingLast ==
    ASSUME NEW i \in Nat, NEW s, Placing(s, i), NEW step, NEW pos \in 0..i
    PROVE  Placing(InsertLast(s, step, pos), i)
<1> DEFINE here == EndAt([s EXCEPT !.state = "DONE"], pos, NoTag, pos)
           r == InsertLast(s, step, pos)
<1>1. Placing(here, i)
  BY PlacingEnd
<1>2. s.state = "CLOSED" => Placing([s EXCEPT !.state = "DONE"], i)
  <2>1. s.state = "CLOSED" => s.end # Unset
    BY DEF Placing
  <2> QED
    BY <2>1, PlacingState
<1>3. /\ s.state = "CLOSED" =>
           r = IF step.name = Star /\ step.position = Anywhere THEN here ELSE [s EXCEPT !.state = "DONE"]
      /\ s.state = "LOOKING" => r = here
      /\ s.state # "CLOSED" /\ s.state # "LOOKING" => r = s
  BY Zenon DEF InsertLast
<1> HIDE DEF here, r
<1>4. Placing(r, i)
  BY <1>1, <1>2, <1>3
<1> QED
  BY <1>4 DEF r

LEMMA PlacingClose ==
    ASSUME NEW i \in Nat, NEW s, Placing(s, i), NEW sel, NEW pos \in 0..i
    PROVE  Placing(EndSibling(s, sel, pos), i)
<1>1. Placing(Raised(s), i) /\ Placing([s EXCEPT !.skip = @ - 1], i) /\ Placing(Left(s), i)
  <2>1. Placing(Raised(s), i)
    BY PlacingState DEF Raised
  <2>2. Placing([s EXCEPT !.skip = s.skip - 1], i)
    BY PlacingSame
  <2> QED
    BY <2>1, <2>2, PlacingCount
<1>2. Placing(Left(InsertAfter(s, Last(sel), pos)), i) /\ Placing(Left(InsertLast(s, Last(sel), pos)), i)
  BY PlacingAfter, PlacingLast, PlacingCount
<1> QED
  BY <1>1, <1>2 DEF EndSibling

LEMMA SiblingCases ==
    ASSUME NEW s, NEW sel, NEW t, NEW i
    PROVE  /\ t.kind = "open" =>
                SiblingEvents(s, sel, t, i) = StartSibling(NextTagSeen(s, i - 1), sel, t, i - 1)
           /\ t.kind = "close" =>
                SiblingEvents(s, sel, t, i) = EndSibling(NextTagSeen(s, i - 1), sel, i - 1)
           /\ t.kind = "empty" =>
                SiblingEvents(s, sel, t, i) =
                  EndSibling(NextTagSeen(StartSibling(NextTagSeen(s, i - 1), sel, t, i - 1), i), sel, i)
<1>1. "open" # "close" /\ "open" # "empty" /\ "close" # "empty"
  OBVIOUS
<1>2. t.kind = "open" =>
        SiblingEvents(s, sel, t, i) = StartSibling(NextTagSeen(s, i - 1), sel, t, i - 1)
  BY <1>1, Zenon DEF SiblingEvents
<1>3. t.kind = "close" =>
        SiblingEvents(s, sel, t, i) = EndSibling(NextTagSeen(s, i - 1), sel, i - 1)
  BY <1>1, Zenon DEF SiblingEvents
<1>4. t.kind = "empty" =>
        SiblingEvents(s, sel, t, i) =
          EndSibling(NextTagSeen(StartSibling(NextTagSeen(s, i - 1), sel, t, i - 1), i), sel, i)
  BY <1>1, Zenon DEF SiblingEvents
<1> QED
  BY <1>2, <1>3, <1>4

LEMMA PlacingStep ==
    ASSUME NEW i \in Nat \ {0}, NEW s, Placing(s, i - 1), NEW sel, NEW t,
           t.kind \in {"open", "close", "empty"}
    PROVE  Placing(SiblingEvents(s, sel, t, i), i)
<1>1. Placing(s, i)
  BY DEF Placing, Unset
<1>2. i - 1 \in 0..i /\ i \in 0..i
  OBVIOUS
<1> DEFINE p == NextTagSeen(s, i - 1)
           b == StartSibling(p, sel, t, i - 1)
<1>3. Placing(p, i)
  BY <1>1, <1>2, PlacingNextTag
<1>4. Placing(b, i)
  BY <1>2, <1>3, PlacingStart
<1>5. Placing(EndSibling(p, sel, i - 1), i)
  BY <1>2, <1>3, PlacingClose
<1>6. Placing(NextTagSeen(b, i), i)
  BY <1>2, <1>4, PlacingNextTag
<1>7. Placing(EndSibling(NextTagSeen(b, i), sel, i), i)
  BY <1>2, <1>6, PlacingClose
<1> QED
  BY <1>4, <1>5, <1>7, SiblingCases

(* Where InsertPointLocator is done, the place is in the document.          *)
LEMMA PlaceIsInside ==
    ASSUME NEW doc \in Seq(Tag), NEW sel, NEW s, s = InsertPointLocator(doc, sel)
    PROVE  s.state = "DONE" => FixedEnd(doc, s) \in 0..Len(doc)
<1> DEFINE n == Len(doc)
           S == {i \in 0..n : Placing(SiblingStates(doc, sel)[i], i)}
<1>0. n \in Nat
  BY TagType
<1>1. 0 \in S
  <2>1. SiblingStates(doc, sel)[0] = StartDocument
    BY <1>0, SiblingStatesDef
  <2>2. Placing(StartDocument, 0)
    BY DEF Placing, StartDocument, Unset
  <2> QED
    BY <1>0, <2>1, <2>2
<1>2. ASSUME NEW i \in 1..n, i - 1 \in S PROVE i \in S
  <2>1. SiblingStates(doc, sel)[i] = SiblingEvents(SiblingStates(doc, sel)[i - 1], sel, doc[i], i)
    BY <1>0, SiblingStatesDef
  <2>2. i \in 1..Len(doc) /\ i \in Nat \ {0}
    BY <1>0
  <2>5. doc[i].kind \in {"open", "close", "empty"}
    BY <2>2, TagType
  <2>3. Placing(SiblingStates(doc, sel)[i - 1], i - 1)
    BY <1>2
  <2>4. Placing(SiblingStates(doc, sel)[i], i)
    BY <2>1, <2>2, <2>3, <2>5, PlacingStep
  <2> QED
    BY <2>4
<1>3. Placing(s, n)
  <2> HIDE DEF S
  <2>1. 0..n \subseteq S
    BY <1>0, <1>1, <1>2, Induction
  <2> QED
    BY <1>0, <2>1 DEF S, InsertPointLocator
<1>4. ASSUME s.state = "DONE" PROVE FixedEnd(doc, s) \in 0..n
  <2>1. s.end \in 0..n /\ s.end2 \in Unset..n
    BY <1>0, <1>3, <1>4 DEF Placing, Unset
  <2> DEFINE upTo == IF s.end2 = Unset THEN n ELSE s.end2
  <2>2. upTo <= n /\ upTo \in Int
    BY <1>0, <2>1 DEF Unset
  <2>3. FixedEnd(doc, s) = s.end \/ (FixedEnd(doc, s) = s.end + 1 /\ \E i \in s.end + 1 .. upTo : TRUE)
    BY DEF FixedEnd
  <2> QED
    BY <1>0, <2>1, <2>2, <2>3
<1> QED
  BY <1>4

-----------------------------------------------------------------------------
(* Where InsertPointLocator puts an element that find has not found. Above   *)
(* the last step its path is the chain that ElementLocator keeps; at the     *)
(* last one it goes by the name alone.                                       *)

SiblingState ==
    [state : {"LOOKING", "CLOSED", "DONE", "MANY", "RAISED"}, path : Seq(PathStep), skip : Nat,
     start : Int, end : Int, tag : Label, end2 : Int]

LEMMA SiblingCount ==
    ASSUME NEW s \in SiblingState, NEW e, e = [s EXCEPT !.state = "LOOKING"]
    PROVE  /\ e \in LocatorState /\ e.path = s.path /\ e.skip = s.skip
           /\ CountedChild(e).path \in Seq(PathStep) /\ Len(CountedChild(e).path) = Len(s.path)
           /\ CountedChild(s) = [s EXCEPT !.path = CountedChild(e).path]
           /\ Rank(CountedChild(s)) = Rank(CountedChild(e))
<1> DEFINE p == s.path
           r == [p EXCEPT ![Len(p)].position = @ + 1]
<1>1. e \in LocatorState /\ e.path = s.path /\ e.skip = s.skip
  <2>1. e = [state |-> "LOOKING", path |-> s.path, skip |-> s.skip, start |-> s.start,
             end |-> s.end, tag |-> s.tag, end2 |-> s.end2]
    BY DEF SiblingState
  <2> QED
    BY <2>1 DEF SiblingState, LocatorState
<1>2. CountedChild(e).path \in Seq(PathStep) /\ Len(CountedChild(e).path) = Len(s.path)
  <2> DEFINE q == CountedChild(e).path
  <2>1. q = CountedChild(e).path
    OBVIOUS
  <2> HIDE DEF q, p, r
  <2>2. q \in Seq(PathStep) /\ Len(q) = Len(e.path)
    BY ONLY <1>1, <2>1, CountedPath
  <2> QED
    BY ONLY <1>1, <2>1, <2>2
<1>3. CASE p = <<>>
  <2>1. CountedChild(s) = s /\ CountedChild(e) = e
    BY <1>1, <1>3 DEF CountedChild
  <2>2. s = [s EXCEPT !.path = s.path]
    BY DEF SiblingState
  <2>3. Rank(s) = 1 /\ Rank(e) = 1
    BY <1>1, <1>3 DEF Rank
  <2> QED
    BY <1>1, <1>2, <2>1, <2>2, <2>3
<1>4. CASE p # <<>>
  <2>1. CountedChild(s) = [s EXCEPT !.path = r]
    BY <1>4 DEF CountedChild, SiblingState
  <2>2. CountedChild(e) = [e EXCEPT !.path = r]
    BY <1>1, <1>4 DEF CountedChild, LocatorState
  <2> HIDE DEF p, r
  <2>3. CountedChild(s).path = r /\ CountedChild(e).path = r
    BY <1>1, <2>1, <2>2 DEF SiblingState, LocatorState
  <2> QED
    BY <1>1, <1>2, <2>1, <2>3 DEF Rank
<1> QED
  BY <1>3, <1>4

Trunk(doc, sel, path, skip, o, i) ==
    /\ path \in Seq(PathStep) /\ skip \in Nat /\ Len(path) <= Len(sel)
    /\ Len(path) < Len(sel) => Chain(doc, sel, path, skip, o, i)
    /\ Len(path) = Len(sel) =>
         /\ Chain(doc, sel, Front(path), skip + 1, o, i)
         /\ \E c : IsOpen(doc, c, o) /\ Level(doc, c) = Len(sel) /\ path[Len(sel)].name = doc[c].name

LEMMA SiblingPath ==
    ASSUME NEW s \in SiblingState, NEW q \in Seq(PathStep), NEW r, r = [s EXCEPT !.path = q]
    PROVE  r \in SiblingState /\ SameFind(r, s) /\ r.path = q /\ r.skip = s.skip
BY DEF SiblingState, SameFind

LEMMA TrunkCount ==
    ASSUME NEW doc, Parsed(doc), NEW sel, SelectorOf(sel), NEW i \in 1..Len(doc), doc[i].kind # "close",
           NEW s \in SiblingState, Trunk(doc, sel, s.path, s.skip, i - 1, i - 1),
           NEW c, c = IF Irrelevant(s, sel, doc[i]) THEN s ELSE CountedChild(s)
    PROVE  /\ c \in SiblingState /\ SameFind(c, s) /\ c.skip = s.skip
           /\ c.path \in Seq(PathStep) /\ Len(c.path) = Len(s.path)
           /\ Trunk(doc, sel, c.path, s.skip, i - 1, i)
           /\ Irrelevant(s, sel, doc[i]) => c.path = s.path
           /\ ~Irrelevant(s, sel, doc[i]) => Rank(c) = RankOf(doc, i, sel[Len(c.path) + 1])
<1> DEFINE p == s.path
           n == Len(sel)
           e == [s EXCEPT !.state = "LOOKING"]
<1>1. n \in Nat \ {0} /\ p \in Seq(PathStep) /\ Len(p) \in Nat /\ s.skip \in Nat /\ Len(p) <= n
  <2>1. p \in Seq(PathStep) /\ s.skip \in Nat /\ Len(p) <= n
    BY DEF SiblingState, Trunk
  <2>2. n \in Nat \ {0}
    BY SelectedStep
  <2>3. Len(p) \in Nat
    BY <2>1
  <2> QED
    BY <2>1, <2>2, <2>3
<1>2. /\ e \in LocatorState /\ e.path = s.path /\ e.skip = s.skip
      /\ CountedChild(e).path \in Seq(PathStep) /\ Len(CountedChild(e).path) = Len(s.path)
      /\ CountedChild(s) = [s EXCEPT !.path = CountedChild(e).path]
      /\ Rank(CountedChild(s)) = Rank(CountedChild(e))
  BY SiblingCount
<1>3. s = [s EXCEPT !.path = s.path]
  BY DEF SiblingState
<1> HIDE DEF e
<1>4. Irrelevant(e, sel, doc[i]) <=> Irrelevant(s, sel, doc[i])
  BY <1>2 DEF Irrelevant
<1>5. CASE Len(p) < n
  <2> DEFINE q == IF Irrelevant(e, sel, doc[i]) THEN e.path ELSE CountedChild(e).path
  <2>1. Chain(doc, sel, e.path, e.skip, i - 1, i - 1)
    BY <1>2, <1>5 DEF Trunk
  <2>2. /\ Chain(doc, sel, q, e.skip, i - 1, i) /\ Len(q) = Len(e.path)
        /\ ~Irrelevant(e, sel, doc[i]) => Rank(CountedChild(e)) = RankOf(doc, i, sel[Len(q) + 1])
    <3>1. q = IF Irrelevant(e, sel, doc[i]) THEN e.path ELSE CountedChild(e).path
      OBVIOUS
    <3> HIDE DEF q
    <3> QED
      BY <1>2, <2>1, <3>1, ChainCount
  <2>3. q \in Seq(PathStep) /\ c = [s EXCEPT !.path = q]
    BY <1>1, <1>2, <1>3, <1>4
  <2>4. (Irrelevant(s, sel, doc[i]) => q = s.path) /\ (~Irrelevant(s, sel, doc[i]) => c = CountedChild(s))
    BY <1>2, <1>4
  <2> HIDE DEF q
  <2>5. Trunk(doc, sel, q, s.skip, i - 1, i)
    BY <1>1, <1>2, <1>5, <2>2, <2>3 DEF Trunk
  <2>6. Len(q) = Len(s.path) /\ (~Irrelevant(s, sel, doc[i]) => Rank(c) = RankOf(doc, i, sel[Len(q) + 1]))
    BY <1>2, <1>4, <2>2, <2>4
  <2>7. c \in SiblingState /\ SameFind(c, s) /\ c.path = q /\ c.skip = s.skip
    BY <2>3, SiblingPath
  <2> QED
    BY ONLY <2>3, <2>4, <2>5, <2>6, <2>7
<1>6. CASE Len(p) = n
  <2>1. Irrelevant(s, sel, doc[i]) /\ c = s
    BY <1>6 DEF Irrelevant
  <2> DEFINE f == [e EXCEPT !.path = Front(p), !.skip = s.skip + 1]
  <2>2. Chain(doc, sel, Front(p), s.skip + 1, i - 1, i - 1) /\ Front(p) \in Seq(PathStep) /\ s.skip + 1 \in Nat
    BY <1>1, <1>6 DEF Trunk, Chain
  <2>3. f \in LocatorState /\ f.path = Front(p) /\ f.skip = s.skip + 1
    <3> DEFINE x == Front(p)
               y == s.skip + 1
    <3>1. f = [e EXCEPT !.path = x, !.skip = y] /\ x \in Seq(PathStep) /\ y \in Nat
      BY <2>2
    <3> HIDE DEF x, y
    <3> QED
      BY <1>2, <3>1 DEF LocatorState, x, y
  <2> HIDE DEF f
  <2>4. Irrelevant(f, sel, doc[i])
    BY <1>1, <2>3 DEF Irrelevant
  <2>5. Chain(doc, sel, Front(p), s.skip + 1, i - 1, i)
    BY <2>2, <2>3, <2>4, ChainCount
  <2>6. Trunk(doc, sel, p, s.skip, i - 1, i)
    BY <1>6, <2>5 DEF Trunk
  <2> QED
    BY <1>1, <2>1, <2>6 DEF SameFind
<1>7. Len(p) < n \/ Len(p) = n
  <2> HIDE DEF p
  <2> QED
    BY <1>1
<1> QED
  BY ONLY <1>5, <1>6, <1>7

(* An element that is open stays open as long as the level does not fall    *)
(* below its own.                                                           *)
LEMMA OpenLonger ==
    ASSUME NEW doc, Parsed(doc), NEW i \in 1..Len(doc), NEW c, IsOpen(doc, c, i - 1), Level(doc, i) >= Level(doc, c)
    PROVE  IsOpen(doc, c, i)
<1>1. Len(doc) \in Nat
  BY Levels
<1>2. c \in 1..i /\ \A h \in c..i : h = i \/ h \in c..i - 1
  BY <1>1 DEF IsOpen
<1> QED
  BY <1>2 DEF IsOpen

LEMMA TrunkLevel ==
    ASSUME NEW doc, Parsed(doc), NEW sel, SelectorOf(sel), NEW o \in 0..Len(doc), NEW i,
           NEW path, NEW skip, Trunk(doc, sel, path, skip, o, i)
    PROVE  /\ Len(path) \in Nat /\ skip \in Nat /\ Len(sel) \in Nat \ {0} /\ Len(path) <= Len(sel)
           /\ Len(path) + skip = Level(doc, o)
<1>1. path \in Seq(PathStep) /\ skip \in Nat /\ Len(path) <= Len(sel)
  BY DEF Trunk
<1>2. Len(sel) \in Nat \ {0} /\ Len(path) \in Nat
  <2>1. Len(path) \in Nat
    BY <1>1
  <2> QED
    BY <2>1, SelectedStep
<1>3. CASE Len(path) < Len(sel)
  <2>1. Len(path) + skip = Level(doc, o)
    BY <1>3 DEF Trunk, Chain
  <2> QED
    BY <1>1, <1>2, <2>1
<1>4. CASE Len(path) = Len(sel)
  <2>1. Len(Front(path)) + (skip + 1) = Level(doc, o)
    BY <1>4 DEF Trunk, Chain
  <2>2. Len(Front(path)) = Len(path) - 1
    <3>1. path # <<>>
      BY <1>2, <1>4
    <3> QED
      BY <1>1, <3>1, FrontOf
  <2> QED
    BY <1>1, <1>2, <2>1, <2>2
<1> QED
  BY <1>1, <1>2, <1>3, <1>4

LEMMA TrunkSkip ==
    ASSUME NEW doc, Parsed(doc), NEW sel, SelectorOf(sel), SelectedUpTo(doc, sel)[Len(sel)] = {},
           NEW i \in 1..Len(doc), doc[i].kind = "open",
           NEW path, NEW skip, Trunk(doc, sel, path, skip, i - 1, i),
           skip > 0 \/ Len(path) = Len(sel) \/ i \notin SelectedUpTo(doc, sel)[Len(path) + 1]
    PROVE  Trunk(doc, sel, path, skip + 1, i, i)
<1> DEFINE n == Len(sel)
<1>0. i - 1 \in 0..Len(doc)
  BY Levels
<1>1. /\ Len(path) \in Nat /\ skip \in Nat /\ n \in Nat \ {0} /\ Len(path) <= n
      /\ Len(path) + skip = Level(doc, i - 1)
  BY <1>0, TrunkLevel
<1>2. CASE Len(path) < n
  <2>1. Chain(doc, sel, path, skip + 1, i, i)
    <3>1. Chain(doc, sel, path, skip, i - 1, i)
      BY <1>2 DEF Trunk
    <3> QED
      BY <3>1, ChainSkip
  <2> QED
    BY <1>1, <1>2, <2>1 DEF Trunk
<1>3. CASE Len(path) = n
  <2> DEFINE f == Front(path)
             j == skip + 1
  <2>1. Chain(doc, sel, f, j, i - 1, i) /\ j \in Nat /\ j > 0
    BY <1>1, <1>3 DEF Trunk
  <2> HIDE DEF f, j
  <2>2. Chain(doc, sel, f, j + 1, i, i)
    BY <2>1, ChainSkip
  <2>3. PICK c : IsOpen(doc, c, i - 1) /\ Level(doc, c) = n /\ path[n].name = doc[c].name
    BY <1>3 DEF Trunk
  <2>4. Level(doc, i) >= Level(doc, c)
    <3>1. Level(doc, i) = Level(doc, i - 1) + 1
      BY Levels
    <3> QED
      BY <1>1, <1>3, <2>3, <3>1
  <2>5. IsOpen(doc, c, i)
    BY <2>3, <2>4, OpenLonger
  <2>6. path \in Seq(PathStep) /\ skip + 1 \in Nat
    BY <1>1 DEF Trunk
  <2> QED
    BY <1>1, <1>3, <2>2, <2>3, <2>5, <2>6 DEF Trunk, f, j
<1>4. Len(path) < n \/ Len(path) = n
  BY <1>1
<1> QED
  BY ONLY <1>2, <1>3, <1>4

LEMMA TrunkEnter ==
    ASSUME NEW doc, Parsed(doc), NEW sel, SelectorOf(sel), SelectedUpTo(doc, sel)[Len(sel)] = {},
           NEW i \in 1..Len(doc), doc[i].kind = "open",
           NEW path, Trunk(doc, sel, path, 0, i - 1, i), Len(path) < Len(sel),
           Len(path) + 1 = Len(sel) \/ i \in SelectedUpTo(doc, sel)[Len(path) + 1],
           NEW longer, longer = Append(path, [name |-> doc[i].name, position |-> 0])
    PROVE  Trunk(doc, sel, longer, 0, i, i)
<1> DEFINE n == Len(sel)
           new == [name |-> doc[i].name, position |-> 0]
<1>0. i - 1 \in 0..Len(doc)
  BY Levels
<1>1. /\ Len(path) \in Nat /\ n \in Nat \ {0}
      /\ Len(path) = Level(doc, i - 1) /\ path \in Seq(PathStep)
      /\ Chain(doc, sel, path, 0, i - 1, i)
  <2>1. Len(path) \in Nat /\ n \in Nat \ {0} /\ Len(path) + 0 = Level(doc, i - 1)
    BY <1>0, TrunkLevel
  <2>2. path \in Seq(PathStep) /\ Chain(doc, sel, path, 0, i - 1, i)
    BY DEF Trunk
  <2> QED
    BY <2>1, <2>2
<1>2. new \in PathStep /\ new.name = doc[i].name
  BY TagType DEF PathStep, Parsed
<1> HIDE DEF new
<1>3. /\ longer \in Seq(PathStep) /\ Len(longer) = Len(path) + 1 /\ longer[Len(path) + 1] = new
      /\ \A k \in 1..Len(path) : longer[k] = path[k]
  BY <1>1, <1>2, AppendProperties DEF new
<1>4. CASE Len(path) + 1 = n
  <2>1. i \notin SelectedUpTo(doc, sel)[Len(path) + 1]
    BY <1>4
  <2>2. Chain(doc, sel, path, 0 + 1, i, i)
    BY <1>1, <2>1, ChainSkip
  <2>3. Front(longer) = path
    <3>1. longer # <<>>
      BY <1>1, <1>3
    <3>2. Len(longer) - 1 = Len(path)
      BY <1>1, <1>3
    <3>3. Front(longer) \in Seq(PathStep) /\ Len(Front(longer)) = Len(longer) - 1
          /\ \A k \in 1..Len(longer) - 1 : Front(longer)[k] = longer[k]
      BY <1>3, <3>1, FrontOf
    <3>4. Front(longer) \in Seq(PathStep) /\ Len(Front(longer)) = Len(path)
          /\ \A k \in 1..Len(path) : Front(longer)[k] = path[k]
      BY <1>3, <3>2, <3>3
    <3> QED
      BY <1>1, <3>4
  <2>4. IsOpen(doc, i, i) /\ Level(doc, i) = n
    <3>1. Level(doc, i) = Level(doc, i - 1) + 1 /\ i \in Nat
      BY Levels
    <3> QED
      BY <1>1, <1>4, <3>1 DEF IsOpen
  <2>5. longer[n].name = doc[i].name /\ Len(longer) = n
    BY <1>2, <1>3, <1>4
  <2> QED
    BY <1>1, <1>3, <2>2, <2>3, <2>4, <2>5 DEF Trunk
<1>5. CASE Len(path) + 1 # n
  <2>1. i \in SelectedUpTo(doc, sel)[Len(path) + 1]
    BY <1>5
  <2>2. Chain(doc, sel, longer, 0, i, i)
    BY <1>1, <2>1, ChainEnter
  <2>3. Len(longer) < n /\ Len(longer) <= n
    BY <1>1, <1>3, <1>5
  <2> QED
    BY <1>1, <1>3, <2>2, <2>3 DEF Trunk
<1> QED
  BY <1>4, <1>5

LEMMA TrunkEmpty ==
    ASSUME NEW doc, Parsed(doc), NEW sel, SelectorOf(sel), NEW i \in 1..Len(doc), doc[i].kind = "empty",
           NEW path, NEW skip, Trunk(doc, sel, path, skip, i - 1, i)
    PROVE  Trunk(doc, sel, path, skip, i, i)
<1>1. \A p, k : Chain(doc, sel, p, k, i - 1, i) => Chain(doc, sel, p, k, i, i)
  BY ChainEmpty
<1>2. ASSUME NEW c, IsOpen(doc, c, i - 1) PROVE IsOpen(doc, c, i)
  <2>1. Level(doc, i) = Level(doc, i - 1) /\ Level(doc, i - 1) >= Level(doc, c)
    <3>1. i - 1 \in c..i - 1
      BY <1>2 DEF IsOpen
    <3> QED
      BY <1>2, <3>1, Levels DEF IsOpen
  <2> QED
    BY <1>2, <2>1, OpenLonger
<1> QED
  BY <1>1, <1>2 DEF Trunk

LEMMA TrunkLeave ==
    ASSUME NEW doc, Parsed(doc), NEW sel, SelectorOf(sel), NEW i \in 1..Len(doc), doc[i].kind = "close",
           NEW path, NEW skip, Trunk(doc, sel, path, skip, i - 1, i - 1)
    PROVE  /\ skip > 0 => Trunk(doc, sel, path, skip - 1, i, i)
           /\ skip = 0 => path # <<>> /\ Trunk(doc, sel, Front(path), 0, i, i)
<1> DEFINE n == Len(sel)
           f == Front(path)
<1>0. i - 1 \in 0..Len(doc)
  BY Levels
<1>1. /\ Len(path) \in Nat /\ skip \in Nat /\ n \in Nat \ {0} /\ Len(path) <= n
      /\ Len(path) + skip = Level(doc, i - 1) /\ path \in Seq(PathStep)
  <2>1. path \in Seq(PathStep)
    BY DEF Trunk
  <2> QED
    BY <1>0, <2>1, TrunkLevel
<1>2. Level(doc, i) = Level(doc, i - 1) - 1 /\ Level(doc, i - 1) >= 1
  BY Levels
<1>3. path # <<>> => f \in Seq(PathStep) /\ Len(f) = Len(path) - 1
  BY <1>1, FrontOf
<1> HIDE DEF f
<1>4. CASE Len(path) < n
  <2>1. Chain(doc, sel, path, skip, i - 1, i - 1)
    BY <1>4 DEF Trunk
  <2>2. /\ skip > 0 => Chain(doc, sel, path, skip - 1, i, i)
        /\ skip = 0 => path # <<>> /\ Chain(doc, sel, f, 0, i, i)
    BY <2>1, ChainLeave DEF f
  <2>3. skip > 0 => skip - 1 \in Nat
    BY <1>1
  <2>4. ASSUME skip = 0 PROVE path # <<>> /\ f \in Seq(PathStep) /\ Len(f) < n /\ Len(f) <= n
    BY <1>1, <1>3, <1>4, <2>2, <2>4
  <2> QED
    BY <1>1, <1>4, <2>2, <2>3, <2>4 DEF Trunk, f
<1>5. CASE Len(path) = n
  <2> DEFINE j == skip + 1
  <2>1. Chain(doc, sel, f, j, i - 1, i - 1) /\ j > 0
    BY <1>1, <1>5 DEF Trunk, f
  <2> HIDE DEF j
  <2>2. Chain(doc, sel, f, j - 1, i, i)
    BY <2>1, ChainLeave
  <2>3. path # <<>> /\ f \in Seq(PathStep) /\ Len(f) = n - 1
    <3>1. path # <<>>
      BY <1>1, <1>5
    <3> QED
      BY <1>3, <1>5, <3>1
  <2>4. ASSUME skip > 0 PROVE Trunk(doc, sel, path, skip - 1, i, i)
    <3>1. PICK c : IsOpen(doc, c, i - 1) /\ Level(doc, c) = n /\ path[n].name = doc[c].name
      BY <1>5 DEF Trunk
    <3>2. IsOpen(doc, c, i)
      BY <1>1, <1>2, <1>5, <2>4, <3>1, OpenLonger
    <3>3. (skip - 1) + 1 = j - 1 /\ skip - 1 \in Nat
      BY <1>1, <2>4 DEF j
    <3> QED
      BY <1>1, <1>5, <2>2, <3>1, <3>2, <3>3 DEF Trunk, f
  <2>5. ASSUME skip = 0 PROVE Trunk(doc, sel, f, 0, i, i)
    <3>1. j - 1 = 0 /\ Len(f) < n /\ Len(f) <= n /\ 0 \in Nat /\ Len(f) # n
      BY <1>1, <2>3, <2>5 DEF j
    <3> QED
      BY <2>2, <2>3, <3>1 DEF Trunk
  <2> QED
    BY <2>3, <2>4, <2>5 DEF f
<1>6. Len(path) < n \/ Len(path) = n
  BY <1>1
<1> QED
  BY ONLY <1>4, <1>5, <1>6

(* How the handler's record changes.                                        *)
LEMMA SiblingSkipped ==
    ASSUME NEW s \in SiblingState, NEW r, r = Skipped(s)
    PROVE  r \in SiblingState /\ SameFind(r, s) /\ r.path = s.path /\ r.skip = s.skip + 1
<1> DEFINE more == s.skip + 1
<1>1. more \in Nat
  BY DEF SiblingState
<1>2. r = [s EXCEPT !.skip = more]
  BY DEF Skipped, SiblingState
<1> HIDE DEF more
<1>3. r.path = s.path /\ r.skip = more /\ SameFind(r, s)
  BY <1>2 DEF SiblingState, SameFind
<1>4. r \in SiblingState
  BY <1>1, <1>2 DEF SiblingState
<1> QED
  BY <1>3, <1>4 DEF more

LEMMA SiblingEntered ==
    ASSUME NEW s \in SiblingState, NEW t, t.name \in Label, NEW r, r = Entered(s, t)
    PROVE  /\ r \in SiblingState /\ SameFind(r, s) /\ r.skip = s.skip
           /\ r.path = Append(s.path, [name |-> t.name, position |-> 0])
<1> DEFINE new == [name |-> t.name, position |-> 0]
           longer == Append(s.path, new)
<1>1. new \in PathStep /\ s.path \in Seq(PathStep)
  BY DEF PathStep, SiblingState
<1>2. longer \in Seq(PathStep)
  <2> HIDE DEF new
  <2> QED
    BY <1>1, AppendProperties
<1>3. r = [s EXCEPT !.path = longer]
  BY DEF Entered, SiblingState
<1> HIDE DEF longer
<1>4. r \in SiblingState /\ SameFind(r, s) /\ r.path = longer /\ r.skip = s.skip
  BY <1>2, <1>3, SiblingPath
<1> QED
  BY <1>4 DEF longer

LEMMA SiblingEnd ==
    ASSUME NEW s \in SiblingState, NEW state \in {"LOOKING", "CLOSED", "DONE", "MANY", "RAISED"},
           NEW pos \in Int, NEW tag \in Label, NEW end2 \in Int, NEW r,
           r = [state |-> state, path |-> s.path, skip |-> s.skip, start |-> s.start,
                end |-> pos, tag |-> tag, end2 |-> end2]
    PROVE  /\ r \in SiblingState /\ r.path = s.path /\ r.skip = s.skip
           /\ r.state = state /\ r.end = pos /\ r.tag = tag /\ r.end2 = end2
BY DEF SiblingState

LEMMA SiblingRaised ==
    ASSUME NEW s \in SiblingState
    PROVE  Raised(s) \in SiblingState /\ Raised(s).state = "RAISED"
BY DEF SiblingState, Raised

(* Before the first child with the name.                                    *)
InsertedBefore(doc, sel, r, i) ==
    /\ r.state = "DONE" /\ r.end = i - 1 /\ r.tag = NoTag /\ r.end2 = i - 1
    /\ sel[Len(sel)].position = 1 /\ i > 1 /\ NameMatches(sel[Len(sel)], doc[i])
    /\ Cardinality(Children(doc, sel, Parent(doc, i), i)) = 1

LEMMA BeforeIs ==
    ASSUME NEW s \in SiblingState, NEW step, NEW pos \in Int, NEW r, r = InsertBefore(s, step, pos)
    PROVE  /\ r \in SiblingState /\ r.path = s.path /\ r.skip = s.skip
           /\ \/ SameFind(r, s)
              \/ /\ step.position = 1 /\ Rank(s) = 1
                 /\ r.state = "DONE" /\ r.end = pos /\ r.tag = NoTag /\ r.end2 = pos
<1> DEFINE e == EndAt([s EXCEPT !.state = "DONE"], pos, NoTag, pos)
<1>1. r = IF step.position = 1 /\ Rank(s) = 1 THEN e ELSE s
  BY DEF InsertBefore
<1>2. NoTag \in Label
  BY Zenon DEF Label
<1>3. /\ e \in SiblingState /\ e.path = s.path /\ e.skip = s.skip
      /\ e.state = "DONE" /\ e.end = pos /\ e.tag = NoTag /\ e.end2 = pos
  <2> DEFINE state == "DONE"
             tag == NoTag
  <2>1. e = [state |-> state, path |-> s.path, skip |-> s.skip, start |-> s.start,
             end |-> pos, tag |-> tag, end2 |-> pos]
    <3>1. e = [s EXCEPT !.state = state, !.end = pos, !.tag = tag, !.end2 = pos]
      BY DEF EndAt, SiblingState
    <3> QED
      BY <3>1 DEF SiblingState
  <2>2. state \in {"LOOKING", "CLOSED", "DONE", "MANY", "RAISED"} /\ tag \in Label
    BY <1>2
  <2> HIDE DEF e, state, tag
  <2>3. /\ e \in SiblingState /\ e.path = s.path /\ e.skip = s.skip
        /\ e.state = state /\ e.end = pos /\ e.tag = tag /\ e.end2 = pos
    BY <2>1, <2>2, SiblingEnd
  <2> QED
    BY <2>3 DEF state, tag
<1> HIDE DEF e
<1>4. CASE step.position = 1 /\ Rank(s) = 1
  <2>1. r = e
    BY <1>1, <1>4
  <2> QED
    BY <1>3, <1>4, <2>1
<1>5. CASE ~(step.position = 1 /\ Rank(s) = 1)
  <2>1. r = s
    BY <1>1, <1>5
  <2> QED
    BY <2>1 DEF SameFind
<1> QED
  BY <1>4, <1>5

(* What becomes of the handler when an element begins; q is the path with    *)
(* the element counted.                                                      *)
SiblingArrived(doc, sel, s, r, i) ==
    \/ r.state = "RAISED"
    \/ \E q \in Seq(PathStep) :
         /\ Trunk(doc, sel, q, s.skip, i - 1, i) /\ Len(q) = Len(s.path)
         /\ \/ /\ r.path = q /\ r.skip = s.skip + 1 /\ SameFind(r, s)
               /\ s.skip > 0 \/ Len(q) = Len(sel) \/ i \notin SelectedUpTo(doc, sel)[Len(q) + 1]
               /\ \/ s.skip > 0 \/ Len(q) # Len(sel) - 1
                  \/ ~NameMatches(sel[Len(sel)], doc[i])
            \/ /\ r.path = Append(q, [name |-> doc[i].name, position |-> 0])
               /\ r.skip = 0 /\ s.skip = 0 /\ Len(q) < Len(sel)
               /\ \/ /\ Len(q) + 1 # Len(sel) /\ SameFind(r, s)
                     /\ i \in SelectedUpTo(doc, sel)[Len(q) + 1]
                  \/ /\ Len(q) + 1 = Len(sel)
                     /\ SameFind(r, s) \/ InsertedBefore(doc, sel, r, i)

LEMMA SiblingArrival ==
    ASSUME NEW doc, Parsed(doc), NEW sel, SelectorOf(sel), SelectedUpTo(doc, sel)[Len(sel)] = {},
           NEW i \in 1..Len(doc), doc[i].kind # "close",
           NEW s \in SiblingState, s.state # "RAISED", Trunk(doc, sel, s.path, s.skip, i - 1, i - 1),
           NEW r, r = StartSibling(s, sel, doc[i], i - 1)
    PROVE  /\ r \in SiblingState
           /\ SiblingArrived(doc, sel, s, r, i)
<1> DEFINE n == Len(sel)
           t == doc[i]
           p == s.path
           irrelevant == Irrelevant(s, sel, t)
           step == sel[Len(p) + 1]
           c == IF irrelevant THEN s ELSE CountedChild(s)
           mismatch == Mismatch(c, step, t)
           U(k) == SelectedUpTo(doc, sel)[k]
           last == Len(p) + 1 = n
<1>0. i - 1 \in 0..Len(doc) /\ i - 1 \in Int
  BY Levels
<1>1. /\ Len(p) \in Nat /\ s.skip \in Nat /\ n \in Nat \ {0}
      /\ Len(p) <= n /\ Len(p) + s.skip = Level(doc, i - 1)
  BY <1>0, TrunkLevel
<1> DEFINE q == c.path
<1>2. /\ q \in Seq(PathStep) /\ Len(q) = Len(p)
      /\ Trunk(doc, sel, q, s.skip, i - 1, i)
      /\ irrelevant => q = p
      /\ ~irrelevant => Rank(c) = RankOf(doc, i, sel[Len(q) + 1])
      /\ c \in SiblingState /\ SameFind(c, s) /\ c.skip = s.skip
  <2>1. c = IF Irrelevant(s, sel, doc[i]) THEN s ELSE CountedChild(s)
    OBVIOUS
  <2> HIDE DEF c
  <2> QED
    BY <2>1, TrunkCount
<1>3. c \in SiblingState /\ SameFind(c, s) /\ c.path = q /\ c.skip = s.skip
  BY <1>2
<1>4. irrelevant <=> s.skip > 0 \/ Len(p) >= n \/ ~NameMatches(step, t)
  BY DEF Irrelevant
<1>5. ASSUME Len(p) < n
      PROVE  i \in U(Len(p) + 1) <=>
               /\ Parent(doc, i) \in U(Len(p)) /\ NameMatches(step, t) /\ AttMatches(step, t)
               /\ step.position \in {Anywhere, RankOf(doc, i, step)}
  <2>1. Len(p) + 1 \in 1..Len(sel) /\ (Len(p) + 1) - 1 = Len(p)
    BY <1>1, <1>5
  <2> QED
    BY <2>1, SelectedIs
<1>6. t.name \in Label
  BY TagType DEF Parsed
<1>7. CASE irrelevant
  <2>1. r = Skipped(c)
    BY <1>7 DEF StartSibling
  <2>2. r \in SiblingState /\ SameFind(r, s) /\ r.path = q /\ r.skip = s.skip + 1
    <3>1. r \in SiblingState /\ SameFind(r, c) /\ r.path = c.path /\ r.skip = c.skip + 1
      <4> HIDE DEF c
      <4> QED
        BY <1>3, <2>1, SiblingSkipped
    <3> QED
      BY <1>3, <3>1 DEF SameFind
  <2>3. s.skip > 0 \/ Len(q) = n \/ i \notin U(Len(q) + 1)
    BY <1>1, <1>2, <1>4, <1>5, <1>7
  <2>4. s.skip > 0 \/ Len(q) # n - 1 \/ ~NameMatches(sel[n], t)
    <3>1. Len(q) = n - 1 => step = sel[n] /\ Len(p) < n
      BY <1>1, <1>2
    <3> QED
      BY <1>1, <1>2, <1>4, <1>7, <3>1
  <2> QED
    BY <1>2, <2>2, <2>3, <2>4 DEF SiblingArrived
<1> DEFINE first == s.path = <<>> /\ IF last THEN step.position = 1 ELSE step.position # Anywhere
<1>8. CASE ~irrelevant /\ first
  <2>1. r = Raised(s)
    BY <1>8 DEF StartSibling
  <2> QED
    BY <2>1, SiblingRaised DEF SiblingArrived
<1>9. CASE ~irrelevant /\ ~first /\ last
  <2> DEFINE b == InsertBefore(c, step, i - 1)
  <2>1. r = Entered(b, t)
    BY <1>9 DEF StartSibling
  <2>2. /\ b \in SiblingState /\ b.path = q /\ b.skip = s.skip
        /\ \/ SameFind(b, c)
           \/ /\ step.position = 1 /\ Rank(c) = 1
              /\ b.state = "DONE" /\ b.end = i - 1 /\ b.tag = NoTag /\ b.end2 = i - 1
    <3> HIDE DEF c
    <3> QED
      BY <1>0, <1>3, BeforeIs
  <2> HIDE DEF b
  <2>3. /\ r \in SiblingState /\ SameFind(r, b) /\ r.skip = b.skip
        /\ r.path = Append(q, [name |-> t.name, position |-> 0])
    <3>1. r \in SiblingState /\ SameFind(r, b) /\ r.skip = b.skip
          /\ r.path = Append(b.path, [name |-> t.name, position |-> 0])
      <4> HIDE DEF t
      <4> QED
        BY ONLY <1>6, <2>1, <2>2, SiblingEntered
    <3> QED
      BY <2>2, <3>1
  <2>4. s.skip = 0 /\ Len(q) < n /\ Len(q) + 1 = n /\ step = sel[n] /\ NameMatches(sel[n], t)
    BY <1>1, <1>2, <1>4, <1>9
  <2>5. ASSUME step.position = 1, Rank(c) = 1,
               b.state = "DONE" /\ b.end = i - 1 /\ b.tag = NoTag /\ b.end2 = i - 1
        PROVE  InsertedBefore(doc, sel, r, i)
    <3>1. r.state = "DONE" /\ r.end = i - 1 /\ r.tag = NoTag /\ r.end2 = i - 1
      BY <2>3, <2>5 DEF SameFind
    <3>2. p # <<>> /\ Len(p) >= 1
      <4>1. p # <<>>
        BY <1>9, <2>5
      <4>2. p \in Seq(PathStep)
        BY DEF SiblingState
      <4> QED
        BY <4>1, <4>2
    <3>3. Level(doc, i - 1) = n - 1 /\ Level(doc, i - 1) >= 1 /\ i > 1
      <4>1. Level(doc, i - 1) = n - 1 /\ Level(doc, i - 1) >= 1
        BY <1>1, <1>2, <2>4, <3>2
      <4>2. i # 1
        BY <4>1, Levels
      <4> QED
        BY <4>1, <4>2
    <3>4. RankOf(doc, i, sel[Level(doc, i - 1) + 1]) = Cardinality(Children(doc, sel, Parent(doc, i), i))
      <4>1. sel[Level(doc, i - 1) + 1] = sel[n] /\ NameMatches(sel[Level(doc, i - 1) + 1], t)
        BY <1>1, <2>4, <3>3
      <4> QED
        BY <3>3, <4>1, RankIs
    <3>5. RankOf(doc, i, sel[Level(doc, i - 1) + 1]) = 1
      <4>1. sel[Level(doc, i - 1) + 1] = sel[Len(q) + 1]
        BY <2>4, <3>3
      <4> QED
        BY <1>2, <1>9, <2>5, <4>1
    <3>6. sel[n].position = 1 /\ NameMatches(sel[n], doc[i])
      BY <2>4, <2>5
    <3> HIDE DEF n
    <3> QED
      BY <3>1, <3>3, <3>4, <3>5, <3>6 DEF InsertedBefore, n
  <2>6. SameFind(b, c) => SameFind(r, s)
    BY <1>3, <2>3 DEF SameFind
  <2>7. SameFind(r, s) \/ InsertedBefore(doc, sel, r, i)
    BY <2>2, <2>5, <2>6
  <2>8. r.skip = 0
    BY <2>2, <2>3, <2>4
  <2> QED
    BY <1>2, <2>3, <2>4, <2>7, <2>8 DEF SiblingArrived
<1>10. CASE ~irrelevant /\ ~first /\ ~last /\ mismatch
  <2>1. r = Skipped(c)
    BY <1>10 DEF StartSibling
  <2>2. r \in SiblingState /\ SameFind(r, s) /\ r.path = q /\ r.skip = s.skip + 1
    <3>1. r \in SiblingState /\ SameFind(r, c) /\ r.path = c.path /\ r.skip = c.skip + 1
      <4> HIDE DEF c
      <4> QED
        BY <1>3, <2>1, SiblingSkipped
    <3> QED
      BY <1>3, <3>1 DEF SameFind
  <2>3. i \notin U(Len(q) + 1)
    <3>1. step = sel[Len(q) + 1] /\ Len(p) < n
      BY <1>1, <1>2, <1>4, <1>10
    <3>2. ~(step.position \in {Anywhere, RankOf(doc, i, step)} /\ AttMatches(step, t))
      BY <1>2, <1>10, <3>1 DEF Mismatch
    <3> QED
      BY <1>2, <1>5, <3>1, <3>2
  <2>4. Len(q) # n - 1
    BY <1>1, <1>2, <1>10
  <2> QED
    BY <1>2, <2>2, <2>3, <2>4 DEF SiblingArrived
<1>11. CASE ~irrelevant /\ ~first /\ ~last /\ ~mismatch
  <2>1. r = Entered(c, t)
    BY <1>11 DEF StartSibling
  <2>2. /\ r \in SiblingState /\ SameFind(r, c) /\ r.skip = c.skip
        /\ r.path = Append(q, [name |-> t.name, position |-> 0])
    <3> HIDE DEF c
    <3> QED
      BY <1>3, <1>6, <2>1, SiblingEntered
  <2>3. s.skip = 0 /\ Len(q) < n /\ Len(q) + 1 # n /\ step = sel[Len(q) + 1] /\ NameMatches(step, t) /\ Len(p) < n
    BY <1>1, <1>2, <1>4, <1>11
  <2>4. step.position \in {Anywhere, RankOf(doc, i, step)} /\ AttMatches(step, t)
    BY <1>2, <1>11, <2>3 DEF Mismatch
  <2>5. Parent(doc, i) \in U(Len(p))
    <3>1. CASE i = 1
      BY <1>1, <2>3, <3>1, ParentOf, SelectedStep, Levels
    <3>2. CASE i # 1
      <4>1. /\ IsOpen(doc, Parent(doc, i), i - 1) /\ Parent(doc, i) \in 1..i - 1
            /\ Level(doc, Parent(doc, i)) = Len(p) /\ Len(p) <= Len(p)
        BY <1>1, <2>3, <3>2, ParentOf DEF IsOpen
      <4>2. Chain(doc, sel, p, s.skip, i - 1, i - 1)
        BY <2>3 DEF Trunk
      <4> QED
        BY <4>1, <4>2 DEF Chain
    <3> QED
      BY <3>1, <3>2
  <2>6. i \in U(Len(q) + 1)
    BY <1>2, <1>5, <2>3, <2>4, <2>5
  <2>7. SameFind(r, s) /\ r.skip = 0
    BY <1>3, <2>2, <2>3 DEF SameFind
  <2> QED
    BY <1>2, <2>2, <2>3, <2>6, <2>7 DEF SiblingArrived
<1> HIDE DEF irrelevant, mismatch, first, last
<1> QED
  BY ONLY <1>7, <1>8, <1>9, <1>10, <1>11

(* The parent q of a place after tag m, with the steps above the last one.   *)
Under(doc, sel, q, m) ==
    /\ q \in 1..m /\ IsOpen(doc, q, m) /\ Level(doc, m) = Len(sel) - 1 /\ Level(doc, q) = Len(sel) - 1
    /\ q \in SelectedUpTo(doc, sel)[Len(sel) - 1]

\* No sibling with the name comes after tag m.
Settled(doc, sel, q, m) == \A c \in Children(doc, sel, q, Len(doc)) : c <= m

\* As the selector asks.
RightPlace(doc, sel, m) ==
    \E q : /\ Under(doc, sel, q, m)
           /\ \/ Settled(doc, sel, q, m)
              \/ /\ sel[Len(sel)].position # Anywhere
                 /\ Cardinality(Children(doc, sel, q, m)) = sel[Len(sel)].position - 1

\* After the parent, where that has no end tag or its end tag was passed by.
Behind(doc, sel, m) ==
    /\ Level(doc, m) = Len(sel) - 2
    /\ \E p \in 1..m : /\ p \in SelectedUpTo(doc, sel)[Len(sel) - 1]
                       /\ \A q : IsOpen(doc, q, m) /\ Level(doc, q) = Level(doc, m) => Parent(doc, p) = q

\* Tag m ended the sibling the handler goes by.
Marks(doc, s, m) ==
    /\ s.tag # NoTag
    /\ \/ doc[m].kind = "close" /\ doc[m] = Close(s.tag) /\ s.end = m - 1
       \/ doc[m].kind = "empty" /\ s.end = m

ClosedAt(doc, sel, s, i) ==
    /\ sel[Len(sel)].position = Anywhere /\ s.end2 = Unset
    /\ \E m \in 1..i, q \in 1..i :
         /\ Marks(doc, s, m) /\ Under(doc, sel, q, m) /\ IsOpen(doc, q, i)
         /\ \A c \in Children(doc, sel, q, i) : c > m => IsOpen(doc, c, i) /\ Len(s.path) = Len(sel)

DoneAt(doc, sel, s, i) ==
    \/ s.tag = NoTag /\ (RightPlace(doc, sel, s.end) \/ Behind(doc, sel, s.end))
    \/ \E m \in 1..i :
         /\ Marks(doc, s, m) /\ RightPlace(doc, sel, m)
         /\ s.end2 = Unset \/ s.end2 >= m
         /\ sel[Len(sel)].position # Anywhere => s.end2 = IF m = i THEN Unset ELSE m

SiblingInv(doc, sel, s, i) ==
    /\ s \in SiblingState
    /\ s.state # "RAISED" =>
         /\ Trunk(doc, sel, s.path, s.skip, i, i)
         /\ s.state = "CLOSED" => ClosedAt(doc, sel, s, i)
         /\ s.state = "DONE" => DoneAt(doc, sel, s, i)

LEMMA PathOver ==
    ASSUME NEW doc, Parsed(doc), NEW sel, SelectorOf(sel), NEW o \in 0..Len(doc), NEW i, NEW path, NEW skip,
           Trunk(doc, sel, path, skip, o, i),
           NEW q, IsOpen(doc, q, o), Level(doc, q) = Len(sel) - 1, q \in SelectedUpTo(doc, sel)[Len(sel) - 1]
    PROVE  Len(path) >= Len(sel) - 1
<1> DEFINE n == Len(sel)
           k == Len(path) + 1
<1>1. /\ Len(path) \in Nat /\ skip \in Nat /\ n \in Nat \ {0} /\ Len(path) <= n
      /\ Len(path) + skip = Level(doc, o)
  BY TrunkLevel
<1>2. SUFFICES ASSUME Len(path) < n - 1 PROVE FALSE
  BY <1>1
<1>3. Chain(doc, sel, path, skip, o, i)
  BY <1>1, <1>2 DEF Trunk
<1>4. Level(doc, o) >= n - 1 /\ o \in Nat /\ Level(doc, o) \in Nat
  <2>1. q \in 1..o
    BY DEF IsOpen
  <2>2. o \in q..o /\ o \in Nat
    BY <2>1
  <2> QED
    BY <2>2, Levels DEF IsOpen
<1>5. k \in 1..Level(doc, o)
  BY <1>1, <1>2, <1>4
<1>6. PICK a : IsOpen(doc, a, o) /\ Level(doc, a) = k
  <2> HIDE DEF k
  <2> QED
    BY <1>5, OpenAt
<1>7. a \notin SelectedUpTo(doc, sel)[Level(doc, a)]
  <2>1. a \in 1..o
    BY <1>6 DEF IsOpen
  <2> QED
    BY <1>1, <1>2, <1>3, <1>6, <2>1 DEF Chain
<1>8. a # q
  BY <1>6, <1>7
<1>9. ~(q < a)
  <2>1. q < a => Level(doc, q) < Level(doc, a)
    BY <1>6, OpenOnce
  <2> QED
    BY <1>1, <1>2, <1>6, <2>1
<1>10. IsOpen(doc, a, q - 1)
  <2>1. a \in 1..o /\ q \in 1..o /\ a < q
    BY <1>6, <1>8, <1>9 DEF IsOpen
  <2>2. a \in 1..q - 1 /\ a..q - 1 \subseteq a..o
    BY <1>4, <2>1
  <2> QED
    BY <1>6, <2>2 DEF IsOpen
<1>11. a \in SelectedUpTo(doc, sel)[Level(doc, a)]
  <2> DEFINE j == n - 1
  <2>1. j \in 1..n /\ q \in SelectedUpTo(doc, sel)[j]
    BY <1>1, <1>2
  <2> HIDE DEF j
  <2> QED
    BY <1>10, <2>1, AboveSelected
<1> QED
  BY <1>7, <1>11

LEMMA NoMoreChildren ==
    ASSUME NEW doc, Parsed(doc), NEW sel, NEW i \in 1..Len(doc), NEW q, q # 0, Level(doc, i) < Level(doc, q), q < i
    PROVE  \A c \in Children(doc, sel, q, Len(doc)) : c <= i
<1> SUFFICES ASSUME NEW c \in Children(doc, sel, q, Len(doc)), c > i PROVE FALSE
  BY Levels DEF Children, Elements
<1>1. c \in 1..Len(doc) /\ Parent(doc, c) = q
  BY DEF Children, Elements
<1>2. IsOpen(doc, q, c - 1)
  BY <1>1, ParentOf
<1>3. i \in q..c - 1 /\ Level(doc, i) \in Nat /\ q \in 1..c - 1
  <2>1. q \in 1..c - 1
    BY <1>2 DEF IsOpen
  <2> QED
    BY <1>1, <2>1, Levels
<1>4. Level(doc, q) \in Nat
  BY <1>1, <1>3, Levels
<1> QED
  BY <1>2, <1>3, <1>4 DEF IsOpen

LEMMA UnderAt ==
    ASSUME NEW doc, Parsed(doc), NEW sel, SelectorOf(sel), NEW i \in 0..Len(doc), NEW o, NEW path,
           Trunk(doc, sel, path, 0, i, o), Len(path) = Len(sel) - 1, Len(sel) > 1
    PROVE  \E q : /\ Under(doc, sel, q, i)
                  /\ path[Len(sel) - 1].position = Cardinality(Children(doc, sel, q, o))
<1> DEFINE n == Len(sel)
           k == n - 1
<1>1. n \in Nat /\ k \in Nat \ {0} /\ Level(doc, i) = k
  BY TrunkLevel
<1>2. PICK q : IsOpen(doc, q, i) /\ Level(doc, q) = k
  <2>1. k \in 1..Level(doc, i)
    BY <1>1
  <2> HIDE DEF k
  <2> QED
    BY <2>1, OpenAt
<1>3. q \in 1..i
  BY <1>2 DEF IsOpen
<1>4. Chain(doc, sel, path, 0, i, o) /\ Level(doc, q) <= Len(path) /\ Level(doc, q) < Len(sel)
  BY <1>1, <1>2 DEF Trunk
<1>5. /\ q \in SelectedUpTo(doc, sel)[Level(doc, q)]
      /\ path[Level(doc, q)].position = Cardinality(Children(doc, sel, q, o))
  BY <1>2, <1>3, <1>4 DEF Chain
<1>6. Under(doc, sel, q, i)
  BY <1>1, <1>2, <1>3, <1>5 DEF Under
<1> QED
  BY <1>2, <1>5, <1>6

LEMMA SiblingAfter ==
    ASSUME NEW s \in SiblingState, NEW step, NEW pos \in Int, NEW tag \in Label, tag = Last(s.path).name,
           NEW r, r = InsertAfter(s, step, pos)
    PROVE  /\ r \in SiblingState /\ r.path = s.path /\ r.skip = s.skip
           /\ \/ SameFind(r, s) /\ step.position # Anywhere
              \/ r.state = "MANY"
              \/ /\ s.state # "DONE" /\ r.end = pos /\ r.tag = tag /\ r.end2 = Unset
                 /\ \/ step.position = Anywhere /\ r.state = "CLOSED"
                    \/ /\ step.position # Anywhere /\ r.state = "DONE"
                       /\ step.position - 1 = s.path[Len(s.path) - 1].position
<1> DEFINE e(state) == [state |-> IF s.state = "DONE" THEN "MANY" ELSE state, path |-> s.path, skip |-> s.skip,
                        start |-> s.start, end |-> pos, tag |-> tag, end2 |-> Unset]
<1>1. ASSUME NEW state
      PROVE  EndAt([s EXCEPT !.state = IF s.state = "DONE" THEN "MANY" ELSE state], pos, tag, Unset) = e(state)
  <2> DEFINE next == IF s.state = "DONE" THEN "MANY" ELSE state
  <2>1. EndAt([s EXCEPT !.state = next], pos, tag, Unset)
          = [state |-> next, path |-> s.path, skip |-> s.skip, start |-> s.start,
             end |-> pos, tag |-> tag, end2 |-> Unset]
    <3>1. EndAt([s EXCEPT !.state = next], pos, tag, Unset)
            = [s EXCEPT !.state = next, !.end = pos, !.tag = tag, !.end2 = Unset]
      BY DEF EndAt, SiblingState
    <3> HIDE DEF next
    <3> QED
      BY <3>1 DEF SiblingState
  <2> QED
    BY <2>1
<1>2. Unset \in Int
  BY DEF Unset
<1>3. ASSUME NEW state \in {"CLOSED", "DONE"}
      PROVE  /\ e(state) \in SiblingState /\ e(state).path = s.path /\ e(state).skip = s.skip
             /\ e(state).end = pos /\ e(state).tag = tag /\ e(state).end2 = Unset
             /\ e(state).state = IF s.state = "DONE" THEN "MANY" ELSE state
  <2> DEFINE next == IF s.state = "DONE" THEN "MANY" ELSE state
             x == e(state)
             far == Unset
  <2>1. x = [state |-> next, path |-> s.path, skip |-> s.skip, start |-> s.start,
             end |-> pos, tag |-> tag, end2 |-> far]
    OBVIOUS
  <2>2. next \in {"LOOKING", "CLOSED", "DONE", "MANY", "RAISED"} /\ far \in Int
    BY <1>2
  <2> HIDE DEF next, x, far
  <2>3. /\ x \in SiblingState /\ x.path = s.path /\ x.skip = s.skip
        /\ x.state = next /\ x.end = pos /\ x.tag = tag /\ x.end2 = far
    BY <2>1, <2>2, SiblingEnd
  <2> QED
    BY <2>3 DEF next, x, far
<1>4. r = IF step.position = Anywhere THEN e("CLOSED")
          ELSE IF step.position - 1 = s.path[Len(s.path) - 1].position THEN e("DONE")
          ELSE s
  BY <1>1, Zenon DEF InsertAfter
<1> HIDE DEF e
<1>5. CASE step.position = Anywhere
  <2>1. r = e("CLOSED")
    BY <1>4, <1>5
  <2> QED
    BY <1>3, <1>5, <2>1
<1>6. CASE step.position # Anywhere /\ step.position - 1 = s.path[Len(s.path) - 1].position
  <2>1. r = e("DONE")
    BY <1>4, <1>6
  <2> QED
    BY <1>3, <1>6, <2>1
<1>7. CASE step.position # Anywhere /\ step.position - 1 # s.path[Len(s.path) - 1].position
  <2>1. r = s
    BY <1>4, <1>7
  <2> QED
    BY <1>7, <2>1 DEF SameFind
<1> QED
  BY <1>5, <1>6, <1>7

LEMMA SiblingLast ==
    ASSUME NEW s \in SiblingState, NEW step, NEW pos \in Int, NEW r, r = InsertLast(s, step, pos)
    PROVE  /\ r \in SiblingState /\ r.path = s.path /\ r.skip = s.skip
           /\ \/ SameFind(r, s) /\ s.state \notin {"CLOSED", "LOOKING"}
              \/ /\ s.state = "CLOSED" /\ r.state = "DONE"
                 /\ r.end = s.end /\ r.tag = s.tag /\ r.end2 = s.end2
              \/ /\ s.state \in {"CLOSED", "LOOKING"} /\ r.state = "DONE"
                 /\ r.end = pos /\ r.tag = NoTag /\ r.end2 = pos
<1> DEFINE state == "DONE"
           none == NoTag
           here == EndAt([s EXCEPT !.state = state], pos, none, pos)
           done == [s EXCEPT !.state = state]
<1>1. /\ s.state = "CLOSED" =>
           r = IF step.name = Star /\ step.position = Anywhere THEN here ELSE done
      /\ s.state = "LOOKING" => r = here
      /\ s.state # "CLOSED" /\ s.state # "LOOKING" => r = s
  BY Zenon DEF InsertLast
<1>2. state \in {"LOOKING", "CLOSED", "DONE", "MANY", "RAISED"} /\ none \in Label
  <2>1. NoTag \in Label
    BY Zenon DEF Label
  <2> QED
    BY <2>1
<1>3. here = [state |-> state, path |-> s.path, skip |-> s.skip, start |-> s.start,
              end |-> pos, tag |-> none, end2 |-> pos]
  <2> HIDE DEF none, state
  <2>1. here = [s EXCEPT !.state = state, !.end = pos, !.tag = none, !.end2 = pos]
    BY DEF EndAt, SiblingState
  <2> QED
    BY <2>1 DEF SiblingState
<1>4. done = [state |-> state, path |-> s.path, skip |-> s.skip, start |-> s.start,
              end |-> s.end, tag |-> s.tag, end2 |-> s.end2]
  <2> HIDE DEF state
  <2> QED
    BY DEF SiblingState
<1>5. s.end \in Int /\ s.tag \in Label /\ s.end2 \in Int
  BY DEF SiblingState
<1> HIDE DEF here, done, state, none
<1>6. /\ here \in SiblingState /\ here.path = s.path /\ here.skip = s.skip
      /\ here.state = state /\ here.end = pos /\ here.tag = none /\ here.end2 = pos
  BY <1>2, <1>3, SiblingEnd
<1>7. /\ done \in SiblingState /\ done.path = s.path /\ done.skip = s.skip
      /\ done.state = state /\ done.end = s.end /\ done.tag = s.tag /\ done.end2 = s.end2
  BY <1>2, <1>4, <1>5, SiblingEnd
<1>8. CASE s.state = "CLOSED"
  <2>1. r = here \/ r = done
    BY <1>1, <1>8
  <2> QED
    BY <1>6, <1>7, <1>8, <2>1 DEF state, none
<1>9. CASE s.state = "LOOKING"
  <2>1. r = here
    BY <1>1, <1>9
  <2> QED
    BY <1>6, <1>9, <2>1 DEF state, none
<1>10. CASE s.state # "CLOSED" /\ s.state # "LOOKING"
  <2>1. r = s
    BY <1>1, <1>10
  <2> QED
    BY <1>10, <2>1 DEF SameFind
<1> QED
  BY <1>8, <1>9, <1>10

LEMMA SiblingLeft ==
    ASSUME NEW s \in SiblingState, s.path # <<>>, NEW r, r = Left(s)
    PROVE  r \in SiblingState /\ SameFind(r, s) /\ r.path = Front(s.path) /\ r.skip = s.skip
<1> DEFINE f == Front(s.path)
<1>1. f \in Seq(PathStep)
  <2>1. s.path \in Seq(PathStep)
    BY DEF SiblingState
  <2> QED
    BY <2>1, FrontOf
<1>2. r = [s EXCEPT !.path = f]
  BY DEF Left
<1> HIDE DEF f
<1>3. r \in SiblingState /\ SameFind(r, s) /\ r.path = f /\ r.skip = s.skip
  BY <1>1, <1>2, SiblingPath
<1> QED
  BY <1>3 DEF f

LEMMA SiblingUnskipped ==
    ASSUME NEW s \in SiblingState, s.skip > 0, NEW r, r = [s EXCEPT !.skip = @ - 1]
    PROVE  r \in SiblingState /\ SameFind(r, s) /\ r.path = s.path /\ r.skip = s.skip - 1
<1> DEFINE less == s.skip - 1
<1>1. less \in Nat
  BY DEF SiblingState
<1>2. r = [s EXCEPT !.skip = less]
  BY DEF SiblingState
<1> HIDE DEF less
<1>3. r \in SiblingState /\ SameFind(r, s) /\ r.path = s.path /\ r.skip = less
  BY <1>1, <1>2 DEF SiblingState, SameFind
<1> QED
  BY <1>3 DEF less

LEMMA SiblingNextTag ==
    ASSUME NEW s \in SiblingState, NEW pos \in Int, NEW r, r = NextTagSeen(s, pos)
    PROVE  /\ r \in SiblingState /\ r.path = s.path /\ r.skip = s.skip
           /\ r.state = s.state /\ r.end = s.end /\ r.tag = s.tag
           /\ r.end2 = IF s.state = "DONE" /\ s.end2 = Unset THEN pos ELSE s.end2
<1>1. CASE s.state = "DONE" /\ s.end2 = Unset
  <2>1. r = [s EXCEPT !.end2 = pos]
    BY <1>1 DEF NextTagSeen
  <2> QED
    BY <1>1, <2>1 DEF SiblingState
<1>2. CASE ~(s.state = "DONE" /\ s.end2 = Unset)
  <2>1. r = s
    BY <1>2 DEF NextTagSeen
  <2> QED
    BY <1>2, <2>1
<1> QED
  BY <1>1, <1>2

(* What holds when the handler has seen that there is a tag i.               *)
SiblingReady(doc, sel, s, i) ==
    /\ s \in SiblingState
    /\ s.state # "RAISED" =>
         /\ Trunk(doc, sel, s.path, s.skip, i - 1, i - 1)
         /\ s.state = "CLOSED" => ClosedAt(doc, sel, s, i - 1)
         /\ s.state = "DONE" => DoneAt(doc, sel, s, i) /\ s.end2 # Unset

LEMMA DoneSame ==
    ASSUME NEW doc, NEW sel, NEW i, NEW s, NEW r, SameFind(r, s)
    PROVE  DoneAt(doc, sel, s, i) => DoneAt(doc, sel, r, i)
BY DEF DoneAt, SameFind, Marks

LEMMA SiblingIsReady ==
    ASSUME NEW doc, Parsed(doc), NEW sel, NEW i \in 1..Len(doc), NEW s, SiblingInv(doc, sel, s, i - 1),
           NEW r, r = NextTagSeen(s, i - 1)
    PROVE  SiblingReady(doc, sel, r, i)
<1>1. i \in Nat /\ i > 0 /\ i - 1 \in Int /\ i - 1 # Unset
  BY Levels DEF Unset
<1>2. s \in SiblingState
  BY DEF SiblingInv
<1>3. /\ r \in SiblingState /\ r.path = s.path /\ r.skip = s.skip
      /\ r.state = s.state /\ r.end = s.end /\ r.tag = s.tag
      /\ r.end2 = IF s.state = "DONE" /\ s.end2 = Unset THEN i - 1 ELSE s.end2
  BY <1>1, <1>2, SiblingNextTag
<1>4. ASSUME r.state = "CLOSED" PROVE ClosedAt(doc, sel, r, i - 1)
  <2>1. ClosedAt(doc, sel, s, i - 1)
    BY <1>3, <1>4 DEF SiblingInv
  <2>2. r.end2 = s.end2 /\ r.end = s.end /\ r.tag = s.tag /\ r.path = s.path
    BY <1>3, <1>4
  <2> QED
    BY <2>1, <2>2 DEF ClosedAt, Marks
<1>5. ASSUME r.state = "DONE" PROVE DoneAt(doc, sel, r, i) /\ r.end2 # Unset
  <2>1. DoneAt(doc, sel, s, i - 1)
    BY <1>3, <1>5 DEF SiblingInv
  <2>2. r.end2 # Unset /\ r.end2 = IF s.end2 = Unset THEN i - 1 ELSE s.end2
    BY <1>1, <1>3, <1>5
  <2>3. CASE s.tag = NoTag /\ (RightPlace(doc, sel, s.end) \/ Behind(doc, sel, s.end))
    BY <1>3, <2>2, <2>3 DEF DoneAt
  <2>4. ASSUME NEW m \in 1..i - 1, Marks(doc, s, m), RightPlace(doc, sel, m),
               s.end2 = Unset \/ s.end2 >= m,
               sel[Len(sel)].position # Anywhere => s.end2 = IF m = i - 1 THEN Unset ELSE m
        PROVE  DoneAt(doc, sel, r, i)
    <3>1. m \in 1..i /\ m # i
      BY <1>1
    <3>2. Marks(doc, r, m)
      BY <1>3, <2>4 DEF Marks
    <3>3. r.end2 >= m
      BY <1>1, <2>2, <2>4
    <3>4. m # Unset
      BY DEF Unset
    <3>5. sel[Len(sel)].position # Anywhere => r.end2 = m
      BY <2>2, <2>4, <3>4
    <3> QED
      BY <2>4, <3>1, <3>2, <3>3, <3>5 DEF DoneAt
  <2> QED
    BY <2>1, <2>2, <2>3, <2>4 DEF DoneAt
<1> QED
  BY <1>3, <1>4, <1>5 DEF SiblingReady, SiblingInv

LEMMA ClosedSkip ==
    ASSUME NEW doc, Parsed(doc), NEW sel, SelectorOf(sel), NEW i \in 1..Len(doc), doc[i].kind # "close",
           NEW s, ClosedAt(doc, sel, s, i - 1), Trunk(doc, sel, s.path, s.skip, i - 1, i - 1),
           NEW r, SameFind(r, s), Len(r.path) = Len(s.path),
           \/ s.skip > 0 \/ Len(s.path) # Len(sel) - 1
           \/ ~NameMatches(sel[Len(sel)], doc[i])
    PROVE  ClosedAt(doc, sel, r, i)
<1> DEFINE n == Len(sel)
<1>0. i - 1 \in 0..Len(doc) /\ Len(doc) \in Nat
  BY Levels
<1>1. /\ Len(s.path) \in Nat /\ s.skip \in Nat /\ n \in Nat \ {0} /\ Len(s.path) <= n
      /\ Len(s.path) + s.skip = Level(doc, i - 1)
  BY <1>0, TrunkLevel
<1>2. sel[n].position = Anywhere /\ s.end2 = Unset
  BY DEF ClosedAt
<1>3. PICK m \in 1..i - 1, q \in 1..i - 1 :
         /\ Marks(doc, s, m) /\ Under(doc, sel, q, m) /\ IsOpen(doc, q, i - 1)
         /\ \A c \in Children(doc, sel, q, i - 1) : c > m => IsOpen(doc, c, i - 1) /\ Len(s.path) = n
  BY DEF ClosedAt
<1>4. Level(doc, q) = n - 1 /\ q \in SelectedUpTo(doc, sel)[n - 1]
  BY <1>3 DEF Under
<1>5. Level(doc, i) >= Level(doc, i - 1) /\ Level(doc, i) \in Nat /\ Level(doc, i - 1) \in Nat
  <2>1. doc[i].kind = "open" \/ doc[i].kind = "empty"
    BY TagType DEF Parsed
  <2> QED
    BY <1>0, <2>1, Levels
<1>6. ASSUME NEW c, IsOpen(doc, c, i - 1) PROVE IsOpen(doc, c, i)
  <2>1. i - 1 \in c..i - 1 /\ Level(doc, c) \in Nat
    <3>1. c \in 1..i - 1
      BY <1>6 DEF IsOpen
    <3> QED
      BY <1>0, <3>1, Levels
  <2>2. Level(doc, i) >= Level(doc, c)
    BY <1>5, <1>6, <2>1 DEF IsOpen
  <2> QED
    BY <1>6, <2>2, OpenLonger
<1>7. ~(Parent(doc, i) = q /\ NameMatches(sel[Level(doc, q) + 1], doc[i]))
  <2> SUFFICES ASSUME Parent(doc, i) = q, NameMatches(sel[Level(doc, q) + 1], doc[i]) PROVE FALSE
    OBVIOUS
  <2>1. Level(doc, q) = Level(doc, i - 1)
    BY <1>3, ParentOf
  <2>2. Len(s.path) >= n - 1
    BY <1>0, <1>3, <1>4, PathOver
  <2>3. sel[Level(doc, q) + 1] = sel[n]
    BY <1>1, <1>4
  <2> QED
    BY <1>1, <1>4, <2>1, <2>2, <2>3
<1>8. Children(doc, sel, q, i) = Children(doc, sel, q, i - 1)
  BY <1>7, ChildrenGrow
<1>9. m \in 1..i /\ q \in 1..i
  BY <1>0, <1>3
<1>10. r.end2 = Unset /\ Marks(doc, r, m)
  BY <1>2, <1>3 DEF SameFind, Marks
<1>11. \A c \in Children(doc, sel, q, i) : c > m => IsOpen(doc, c, i) /\ Len(r.path) = n
  BY <1>3, <1>6, <1>8
<1> QED
  BY <1>2, <1>3, <1>6, <1>9, <1>10, <1>11 DEF ClosedAt

LEMMA ClosedEnter ==
    ASSUME NEW doc, Parsed(doc), NEW sel, SelectorOf(sel), NEW i \in 1..Len(doc), doc[i].kind = "open",
           NEW s, ClosedAt(doc, sel, s, i - 1), Len(s.path) = Len(sel) - 1,
           NEW r, SameFind(r, s), Len(r.path) = Len(sel)
    PROVE  ClosedAt(doc, sel, r, i)
<1> DEFINE n == Len(sel)
<1>0. i - 1 \in 0..Len(doc) /\ Len(doc) \in Nat /\ n \in Nat
  BY Levels, SelectedStep
<1>1. sel[n].position = Anywhere /\ s.end2 = Unset
  BY DEF ClosedAt
<1>2. PICK m \in 1..i - 1, q \in 1..i - 1 :
         /\ Marks(doc, s, m) /\ Under(doc, sel, q, m) /\ IsOpen(doc, q, i - 1)
         /\ \A c \in Children(doc, sel, q, i - 1) : c > m => IsOpen(doc, c, i - 1) /\ Len(s.path) = n
  BY DEF ClosedAt
<1>3. Level(doc, i) = Level(doc, i - 1) + 1 /\ Level(doc, i) \in Nat /\ Level(doc, i - 1) \in Nat
  BY <1>0, Levels
<1>4. IsOpen(doc, q, i) /\ IsOpen(doc, i, i)
  <2>1. i - 1 \in q..i - 1 /\ Level(doc, q) \in Nat
    BY <1>0, <1>2, Levels
  <2>2. Level(doc, i) >= Level(doc, q)
    BY <1>2, <1>3, <2>1 DEF IsOpen
  <2>3. IsOpen(doc, q, i)
    BY <1>2, <2>2, OpenLonger
  <2>4. IsOpen(doc, i, i)
    BY <1>0, <1>3 DEF IsOpen
  <2> QED
    BY <2>3, <2>4
<1>5. ASSUME NEW c \in Children(doc, sel, q, i), c > m PROVE IsOpen(doc, c, i)
  <2>1. CASE c = i
    BY <1>4, <2>1
  <2>2. CASE c # i
    <3>1. c \in Children(doc, sel, q, i - 1)
      BY <1>0, <2>2 DEF Children, Elements
    <3>2. Len(s.path) = n
      BY <1>2, <1>5, <3>1
    <3> QED
      BY <1>0, <3>2
  <2> QED
    BY <2>1, <2>2
<1>6. m \in 1..i /\ q \in 1..i
  BY <1>0, <1>2
<1>7. r.end2 = Unset /\ Marks(doc, r, m)
  BY <1>1, <1>2 DEF SameFind, Marks
<1> QED
  BY <1>1, <1>2, <1>4, <1>5, <1>6, <1>7 DEF ClosedAt

LEMMA ClosedDown ==
    ASSUME NEW doc, Parsed(doc), NEW sel, SelectorOf(sel), NEW i \in 1..Len(doc), doc[i].kind = "close",
           NEW s, ClosedAt(doc, sel, s, i - 1), Trunk(doc, sel, s.path, s.skip, i - 1, i - 1), s.skip > 0,
           NEW r, SameFind(r, s), r.path = s.path
    PROVE  ClosedAt(doc, sel, r, i)
<1> DEFINE n == Len(sel)
<1>0. i - 1 \in 0..Len(doc) /\ Len(doc) \in Nat
  BY Levels
<1>1. /\ Len(s.path) \in Nat /\ s.skip \in Nat /\ n \in Nat \ {0} /\ Len(s.path) <= n
      /\ Len(s.path) + s.skip = Level(doc, i - 1)
  BY <1>0, TrunkLevel
<1>2. sel[n].position = Anywhere /\ s.end2 = Unset
  BY DEF ClosedAt
<1>3. PICK m \in 1..i - 1, q \in 1..i - 1 :
         /\ Marks(doc, s, m) /\ Under(doc, sel, q, m) /\ IsOpen(doc, q, i - 1)
         /\ \A c \in Children(doc, sel, q, i - 1) : c > m => IsOpen(doc, c, i - 1) /\ Len(s.path) = n
  BY DEF ClosedAt
<1>4. Level(doc, q) = n - 1 /\ q \in SelectedUpTo(doc, sel)[n - 1]
  BY <1>3 DEF Under
<1>5. Level(doc, i) = Level(doc, i - 1) - 1
  BY Levels
<1>6. Len(s.path) >= n - 1
  BY <1>0, <1>3, <1>4, PathOver
<1>7. IsOpen(doc, q, i)
  <2>1. Level(doc, i) >= Level(doc, q)
    BY <1>1, <1>4, <1>5, <1>6
  <2> QED
    BY <1>3, <2>1, OpenLonger
<1>8. Children(doc, sel, q, i) = Children(doc, sel, q, i - 1)
  BY ChildrenGrow
<1>9. ASSUME NEW c \in Children(doc, sel, q, i), c > m PROVE IsOpen(doc, c, i) /\ Len(r.path) = n
  <2>1. IsOpen(doc, c, i - 1) /\ Len(s.path) = n
    BY <1>3, <1>8, <1>9
  <2>2. c \in 1..Len(doc) /\ Parent(doc, c) = q /\ doc[c].kind = "open" /\ q # 0
    BY <1>3, <2>1 DEF Children, Elements, IsOpen
  <2>3. Level(doc, c) = n
    <3>1. Level(doc, c - 1) = n - 1
      BY <1>4, <2>2, ParentOf
    <3> QED
      BY <1>1, <2>2, <3>1, Levels
  <2>4. Level(doc, i) >= Level(doc, c)
    BY <1>1, <1>5, <2>1, <2>3
  <2>5. IsOpen(doc, c, i)
    BY <2>1, <2>4, OpenLonger
  <2> QED
    BY <2>1, <2>5
<1>10. m \in 1..i /\ q \in 1..i
  BY <1>0, <1>3
<1>11. r.end2 = Unset /\ Marks(doc, r, m)
  BY <1>2, <1>3 DEF SameFind, Marks
<1> QED
  BY <1>2, <1>3, <1>7, <1>9, <1>10, <1>11 DEF ClosedAt

LEMMA ClosedLong ==
    ASSUME NEW doc, Parsed(doc), NEW sel, SelectorOf(sel), NEW i \in 0..Len(doc),
           NEW s, ClosedAt(doc, sel, s, i), Trunk(doc, sel, s.path, s.skip, i, i)
    PROVE  Len(s.path) >= Len(sel) - 1
<1>1. PICK m \in 1..i, q \in 1..i : Under(doc, sel, q, m) /\ IsOpen(doc, q, i)
  BY DEF ClosedAt
<1>2. Level(doc, q) = Len(sel) - 1 /\ q \in SelectedUpTo(doc, sel)[Len(sel) - 1]
  BY <1>1 DEF Under
<1> QED
  BY <1>1, <1>2, PathOver

LEMMA PlaceBefore ==
    ASSUME NEW doc, Parsed(doc), NEW sel, SelectorOf(sel), NEW i \in 1..Len(doc), doc[i].kind # "close",
           NEW path, Trunk(doc, sel, path, 0, i - 1, i - 1), Len(path) = Len(sel) - 1,
           NEW r, InsertedBefore(doc, sel, r, i)
    PROVE  DoneAt(doc, sel, r, i)
<1> DEFINE n == Len(sel)
<1>0. i - 1 \in 0..Len(doc) /\ Len(doc) \in Nat
  BY Levels
<1>1. n \in Nat \ {0} /\ Len(path) + 0 = Level(doc, i - 1)
  BY <1>0, TrunkLevel
<1>2. n > 1
  <2>1. i - 1 \in 1..Len(doc) - 1
    BY <1>0 DEF InsertedBefore
  <2> QED
    BY <1>1, <2>1, Levels
<1>3. PICK q : Under(doc, sel, q, i - 1)
  BY <1>0, <1>2, UnderAt
<1>4. IsOpen(doc, q, i - 1) /\ Level(doc, q) = Level(doc, i - 1) /\ Level(doc, q) = n - 1
  BY <1>3 DEF Under
<1>5. Parent(doc, i) = q
  BY <1>4, ParentIs
<1>6. NameMatches(sel[Level(doc, q) + 1], doc[i])
  <2>1. Level(doc, q) + 1 = n
    BY <1>1, <1>4
  <2> QED
    BY <2>1 DEF InsertedBefore
<1>7. Cardinality(Children(doc, sel, q, i - 1)) = 0
  <2>1. /\ Cardinality(Children(doc, sel, q, i - 1)) \in Nat
        /\ Cardinality(Children(doc, sel, q, i)) = Cardinality(Children(doc, sel, q, i - 1)) + 1
    BY <1>5, <1>6, ChildrenGrow
  <2> QED
    BY <1>5, <2>1 DEF InsertedBefore
<1>8. sel[n].position = 1 /\ sel[n].position # Anywhere /\ r.end = i - 1 /\ r.tag = NoTag
  BY DEF InsertedBefore, Anywhere
<1>9. RightPlace(doc, sel, i - 1)
  BY <1>3, <1>7, <1>8 DEF RightPlace
<1> QED
  BY <1>8, <1>9 DEF DoneAt

LEMMA SiblingOpens ==
    ASSUME NEW doc, Parsed(doc), NEW sel, SelectorOf(sel), SelectedUpTo(doc, sel)[Len(sel)] = {},
           NEW i \in 1..Len(doc), doc[i].kind = "open", NEW s, SiblingReady(doc, sel, s, i),
           NEW r, r = StartSibling(s, sel, doc[i], i - 1)
    PROVE  SiblingInv(doc, sel, r, i)
<1> DEFINE n == Len(sel)
           new == [name |-> doc[i].name, position |-> 0]
<1>0. i - 1 \in 0..Len(doc)
  BY Levels
<1>1. CASE s.state = "RAISED"
  BY <1>1 DEF StartSibling, SiblingReady, SiblingInv
<1>2. ASSUME s.state # "RAISED" PROVE SiblingInv(doc, sel, r, i)
  <2>1. /\ s \in SiblingState /\ Trunk(doc, sel, s.path, s.skip, i - 1, i - 1)
        /\ s.state = "CLOSED" => ClosedAt(doc, sel, s, i - 1)
        /\ s.state = "DONE" => DoneAt(doc, sel, s, i)
    BY <1>2 DEF SiblingReady
  <2>2. Len(s.path) \in Nat /\ s.skip \in Nat /\ n \in Nat \ {0}
    BY <1>0, <2>1, TrunkLevel
  <2>3. r \in SiblingState
    BY <1>2, <2>1, SiblingArrival
  <2>4. SameFind(r, s) => (r.state = s.state /\ (r.state = "DONE" => DoneAt(doc, sel, r, i)))
    <3>1. SameFind(r, s) => r.state = s.state
      BY DEF SameFind
    <3> QED
      BY <2>1, <3>1, DoneSame
  <2>5. CASE r.state = "RAISED"
    BY <2>3, <2>5 DEF SiblingInv
  <2>6. ASSUME NEW q \in Seq(PathStep), Trunk(doc, sel, q, s.skip, i - 1, i), Len(q) = Len(s.path),
               r.path = q /\ r.skip = s.skip + 1 /\ SameFind(r, s),
               s.skip > 0 \/ Len(q) = Len(sel) \/ i \notin SelectedUpTo(doc, sel)[Len(q) + 1],
               s.skip > 0 \/ Len(q) # Len(sel) - 1 \/ ~NameMatches(sel[Len(sel)], doc[i])
        PROVE  SiblingInv(doc, sel, r, i)
    <3>1. Trunk(doc, sel, q, s.skip + 1, i, i)
      BY <2>6, TrunkSkip
    <3>2. ASSUME r.state = "CLOSED" PROVE ClosedAt(doc, sel, r, i)
      <4>1. ClosedAt(doc, sel, s, i - 1)
        BY <2>1, <2>4, <2>6, <3>2
      <4> QED
        BY <2>1, <2>6, <4>1, ClosedSkip
    <3> QED
      BY <2>3, <2>4, <2>6, <3>1, <3>2 DEF SiblingInv
  <2>7. ASSUME NEW q \in Seq(PathStep), Trunk(doc, sel, q, s.skip, i - 1, i), Len(q) = Len(s.path),
               r.path = Append(q, new), r.skip = 0 /\ s.skip = 0 /\ Len(q) < Len(sel),
               \/ /\ Len(q) + 1 # Len(sel) /\ SameFind(r, s)
                  /\ i \in SelectedUpTo(doc, sel)[Len(q) + 1]
               \/ /\ Len(q) + 1 = Len(sel)
                  /\ SameFind(r, s) \/ InsertedBefore(doc, sel, r, i)
        PROVE  SiblingInv(doc, sel, r, i)
    <3>1. Trunk(doc, sel, r.path, 0, i, i)
      BY <2>7, TrunkEnter
    <3>2. Len(r.path) = Len(q) + 1
      BY <2>7
    <3>3. ASSUME SameFind(r, s), r.state = "CLOSED" PROVE ClosedAt(doc, sel, r, i)
      <4>1. ClosedAt(doc, sel, s, i - 1)
        BY <2>1, <2>4, <3>3
      <4>2. Len(s.path) >= n - 1
        BY <1>0, <2>1, <4>1, ClosedLong
      <4>3. Len(s.path) = n - 1 /\ Len(r.path) = n
        BY <2>2, <2>7, <3>2, <4>2
      <4> QED
        BY <3>3, <4>1, <4>3, ClosedEnter
    <3>4. CASE SameFind(r, s)
      BY <2>3, <2>4, <2>7, <3>1, <3>3, <3>4 DEF SiblingInv
    <3>5. CASE Len(q) + 1 = Len(sel) /\ InsertedBefore(doc, sel, r, i)
      <4>1. Len(s.path) = Len(sel) - 1 /\ Trunk(doc, sel, s.path, 0, i - 1, i - 1)
        BY <2>1, <2>2, <2>7, <3>5
      <4>2. DoneAt(doc, sel, r, i)
        BY <3>5, <4>1, PlaceBefore
      <4>3. r.state = "DONE"
        BY <3>5 DEF InsertedBefore
      <4> QED
        BY <2>3, <2>7, <3>1, <4>2, <4>3 DEF SiblingInv
    <3> QED
      BY <2>7, <3>4, <3>5
  <2>8. SiblingArrived(doc, sel, s, r, i)
    BY <1>2, <2>1, SiblingArrival
  <2> QED
    BY ONLY <2>5, <2>6, <2>7, <2>8 DEF SiblingArrived, new
<1> QED
  BY <1>1, <1>2

LEMMA SiblingEnded ==
    ASSUME NEW doc, Parsed(doc), NEW sel, SelectorOf(sel), NEW i \in 1..Len(doc),
           NEW s \in SiblingState, s.skip = 0, Len(s.path) = Len(sel), Len(sel) > 1,
           Trunk(doc, sel, Front(s.path), 0, i, i),
           NEW tag \in Label, tag = Last(s.path).name, tag # NoTag, NEW pos \in Int,
           \/ doc[i].kind = "close" /\ doc[i] = Close(tag) /\ pos = i - 1
           \/ doc[i].kind = "empty" /\ pos = i,
           s.state = "DONE" => DoneAt(doc, sel, s, i),
           s.state = "CLOSED" => sel[Len(sel)].position = Anywhere,
           NEW r, r = Left(InsertAfter(s, Last(sel), pos))
    PROVE  SiblingInv(doc, sel, r, i)
<1> DEFINE n == Len(sel)
           step == sel[n]
           a == InsertAfter(s, step, pos)
<1>0. i \in 0..Len(doc) /\ Len(doc) \in Nat
  BY Levels
<1>1. n \in Nat /\ n > 1 /\ Last(sel) = step /\ s.path \in Seq(PathStep) /\ s.path # <<>>
  <2>1. sel \in Seq(StepOf) /\ n \in Nat /\ n > 1
    BY SelectedStep DEF SelectorOf
  <2>2. s.path \in Seq(PathStep)
    BY DEF SiblingState
  <2>3. sel # <<>> /\ s.path # <<>>
    BY <2>1, <2>2
  <2> QED
    BY <2>1, <2>2, <2>3, FrontOf
<1>2. Len(Front(s.path)) = n - 1 /\ Front(s.path)[n - 1] = s.path[n - 1]
  <2>1. Len(Front(s.path)) = Len(s.path) - 1 /\ \A k \in 1..Len(s.path) - 1 : Front(s.path)[k] = s.path[k]
    BY <1>1, FrontOf
  <2>2. n - 1 \in 1..n - 1
    BY <1>1
  <2> QED
    BY <1>1, <2>1, <2>2
<1>3. PICK q : Under(doc, sel, q, i) /\ Front(s.path)[n - 1].position = Cardinality(Children(doc, sel, q, i))
  BY <1>0, <1>1, <1>2, UnderAt
<1>4. /\ a \in SiblingState /\ a.path = s.path /\ a.skip = s.skip
      /\ \/ SameFind(a, s) /\ step.position # Anywhere
         \/ a.state = "MANY"
         \/ /\ s.state # "DONE" /\ a.end = pos /\ a.tag = tag /\ a.end2 = Unset
            /\ \/ step.position = Anywhere /\ a.state = "CLOSED"
               \/ /\ step.position # Anywhere /\ a.state = "DONE"
                  /\ step.position - 1 = s.path[Len(s.path) - 1].position
  <2>1. a = InsertAfter(s, step, pos)
    OBVIOUS
  <2> HIDE DEF a, step
  <2> QED
    BY <2>1, SiblingAfter
<1>5. r = Left(a)
  BY <1>1
<1> HIDE DEF a
<1>6. r \in SiblingState /\ SameFind(r, a) /\ r.path = Front(s.path) /\ r.skip = 0
  <2>1. r \in SiblingState /\ SameFind(r, a) /\ r.path = Front(a.path) /\ r.skip = a.skip
    BY <1>1, <1>4, <1>5, SiblingLeft
  <2> QED
    BY <1>4, <2>1
<1>7. IsOpen(doc, q, i) /\ q \in 1..i
  BY <1>3 DEF Under
<1>8. i \in 1..i
  BY <1>0
<1>9. CASE SameFind(a, s) /\ step.position # Anywhere
  <2>1. SameFind(r, s)
    BY <1>6, <1>9 DEF SameFind
  <2>2. r.state # "CLOSED" /\ (r.state = "DONE" => DoneAt(doc, sel, r, i))
    <3>1. r.state = s.state
      BY <2>1 DEF SameFind
    <3> QED
      BY <1>9, <2>1, <3>1, DoneSame
  <2> QED
    BY <1>6, <2>2 DEF SiblingInv
<1>10. CASE a.state = "MANY"
  <2>1. r.state = "MANY"
    BY <1>6, <1>10 DEF SameFind
  <2> QED
    BY <1>6, <2>1 DEF SiblingInv
<1>11. CASE /\ s.state # "DONE" /\ a.end = pos /\ a.tag = tag /\ a.end2 = Unset
            /\ \/ step.position = Anywhere /\ a.state = "CLOSED"
               \/ /\ step.position # Anywhere /\ a.state = "DONE"
                  /\ step.position - 1 = s.path[Len(s.path) - 1].position
  <2>1. r.end = pos /\ r.tag = tag /\ r.end2 = Unset /\ r.state = a.state
    BY <1>6, <1>11 DEF SameFind
  <2>2. Marks(doc, r, i)
    BY <2>1 DEF Marks
  <2>3. ASSUME step.position = Anywhere PROVE ClosedAt(doc, sel, r, i)
    <3>1. \A c \in Children(doc, sel, q, i) : ~(c > i)
      BY <1>0 DEF Children, Elements
    <3> QED
      BY <1>3, <1>7, <1>8, <2>1, <2>2, <2>3, <3>1 DEF ClosedAt
  <2>4. ASSUME step.position # Anywhere, step.position - 1 = s.path[Len(s.path) - 1].position
        PROVE  DoneAt(doc, sel, r, i)
    <3>1. Cardinality(Children(doc, sel, q, i)) = step.position - 1
      BY <1>2, <1>3, <2>4
    <3>2. RightPlace(doc, sel, i)
      BY <1>3, <2>4, <3>1 DEF RightPlace
    <3> QED
      BY <1>8, <2>1, <2>2, <3>2 DEF DoneAt
  <2>5. CASE step.position = Anywhere /\ a.state = "CLOSED"
    BY <1>6, <2>1, <2>3, <2>5 DEF SiblingInv
  <2>6. CASE /\ step.position # Anywhere /\ a.state = "DONE"
             /\ step.position - 1 = s.path[Len(s.path) - 1].position
    BY <1>6, <2>1, <2>4, <2>6 DEF SiblingInv
  <2> QED
    BY <1>11, <2>5, <2>6
<1> QED
  BY ONLY <1>4, <1>9, <1>10, <1>11

LEMMA SiblingParentEnds ==
    ASSUME NEW doc, Parsed(doc), NEW sel, SelectorOf(sel), NEW i \in 1..Len(doc), doc[i].kind = "close",
           NEW s, SiblingReady(doc, sel, s, i), s.state # "RAISED", s.skip = 0, Len(s.path) + 1 = Len(sel),
           Trunk(doc, sel, Front(s.path), 0, i, i), s.path # <<>>,
           NEW r, r = Left(InsertLast(s, Last(sel), i - 1))
    PROVE  SiblingInv(doc, sel, r, i)
<1> DEFINE n == Len(sel)
           a == InsertLast(s, Last(sel), i - 1)
           k == i - 1
<1>0. i \in Nat /\ k \in 0..Len(doc) /\ i - 1 \in Int /\ Len(doc) \in Nat /\ k < i
  BY Levels
<1>1. /\ s \in SiblingState /\ Trunk(doc, sel, s.path, 0, k, k)
      /\ s.state = "CLOSED" => ClosedAt(doc, sel, s, k)
      /\ s.state = "DONE" => DoneAt(doc, sel, s, i)
  BY DEF SiblingReady
<1>2. Len(s.path) \in Nat /\ n \in Nat /\ Len(s.path) + 0 = Level(doc, k)
  BY <1>0, <1>1, TrunkLevel
<1>3. Level(doc, k) >= 1 /\ Level(doc, i) = Level(doc, k) - 1
  BY Levels
<1>4. n > 1 /\ Len(s.path) = n - 1 /\ Len(s.path) # n
  BY <1>2, <1>3
<1>5. /\ a \in SiblingState /\ a.path = s.path /\ a.skip = s.skip
      /\ \/ SameFind(a, s) /\ s.state \notin {"CLOSED", "LOOKING"}
         \/ /\ s.state = "CLOSED" /\ a.state = "DONE"
            /\ a.end = s.end /\ a.tag = s.tag /\ a.end2 = s.end2
         \/ /\ s.state \in {"CLOSED", "LOOKING"} /\ a.state = "DONE"
            /\ a.end = i - 1 /\ a.tag = NoTag /\ a.end2 = i - 1
  BY <1>0, <1>1, SiblingLast
<1> HIDE DEF a, k
<1>6. r \in SiblingState /\ SameFind(r, a) /\ r.path = Front(s.path) /\ r.skip = 0
  <2>1. r = Left(a)
    BY DEF a
  <2>2. r \in SiblingState /\ SameFind(r, a) /\ r.path = Front(a.path) /\ r.skip = a.skip
    BY <1>5, <2>1, SiblingLeft
  <2> QED
    BY <1>5, <2>2
<1>7. ASSUME NEW q, IsOpen(doc, q, k), Level(doc, q) = n - 1
      PROVE  \A c \in Children(doc, sel, q, Len(doc)) : c <= k
  <2>1. q # 0 /\ q < i /\ Level(doc, i) < Level(doc, q)
    <3>1. q \in 1..k
      BY <1>7 DEF IsOpen
    <3> QED
      BY <1>0, <1>2, <1>3, <1>7, <3>1
  <2>2. \A c \in Children(doc, sel, q, Len(doc)) : c <= i
    BY <2>1, NoMoreChildren
  <2>3. \A c \in Children(doc, sel, q, Len(doc)) : c # i /\ c \in Nat
    BY <1>0 DEF Children, Elements
  <2> QED
    BY <1>0, <2>2, <2>3 DEF k
<1>8. CASE SameFind(a, s) /\ s.state \notin {"CLOSED", "LOOKING"}
  <2>1. SameFind(r, s)
    BY <1>6, <1>8 DEF SameFind
  <2>2. r.state = s.state /\ (r.state = "DONE" => DoneAt(doc, sel, r, i))
    <3>1. r.state = s.state
      BY <2>1 DEF SameFind
    <3> QED
      BY <1>1, <2>1, <3>1, DoneSame
  <2> QED
    BY <1>6, <1>8, <2>2 DEF SiblingInv
<1>9. CASE s.state = "CLOSED" /\ a.state = "DONE" /\ a.end = s.end /\ a.tag = s.tag /\ a.end2 = s.end2
  <2>1. sel[n].position = Anywhere /\ s.end2 = Unset
    BY <1>1, <1>9 DEF ClosedAt
  <2>2. PICK m \in 1..k, q \in 1..k :
         /\ Marks(doc, s, m) /\ Under(doc, sel, q, m) /\ IsOpen(doc, q, k)
         /\ \A c \in Children(doc, sel, q, k) : c > m => IsOpen(doc, c, k) /\ Len(s.path) = n
    BY <1>1, <1>9 DEF ClosedAt
  <2>3. Level(doc, q) = n - 1
    BY <2>2 DEF Under
  <2>4. Settled(doc, sel, q, m)
    <3> SUFFICES ASSUME NEW c \in Children(doc, sel, q, Len(doc)), ~(c <= m) PROVE FALSE
      BY DEF Settled
    <3>1. c <= k
      BY <1>7, <2>2, <2>3
    <3>2. c \in Children(doc, sel, q, k) /\ c > m
      BY <1>0, <3>1 DEF Children, Elements
    <3>3. Len(s.path) = n
      BY <2>2, <3>2
    <3> QED
      BY ONLY <1>2, <1>4, <3>3
  <2>5. RightPlace(doc, sel, m)
    BY <2>2, <2>4 DEF RightPlace
  <2>6. r.end = s.end /\ r.tag = s.tag /\ r.end2 = Unset /\ r.state = "DONE"
    BY <1>6, <1>9, <2>1 DEF SameFind
  <2>7. Marks(doc, r, m) /\ m \in 1..i
    <3>1. m \in 1..i
      BY <1>0
    <3> QED
      BY <2>2, <2>6, <3>1 DEF Marks
  <2>8. DoneAt(doc, sel, r, i)
    BY <2>1, <2>5, <2>6, <2>7 DEF DoneAt
  <2> QED
    BY <1>6, <2>6, <2>8 DEF SiblingInv
<1>10. CASE s.state \in {"CLOSED", "LOOKING"} /\ a.state = "DONE" /\ a.end = i - 1 /\ a.tag = NoTag
  <2>1. PICK q : Under(doc, sel, q, k)
    BY <1>0, <1>1, <1>4, UnderAt
  <2>2. IsOpen(doc, q, k) /\ Level(doc, q) = n - 1
    BY <2>1 DEF Under
  <2>3. Settled(doc, sel, q, k)
    BY <1>7, <2>2 DEF Settled
  <2>4. RightPlace(doc, sel, k)
    BY <2>1, <2>3 DEF RightPlace
  <2>5. r.end = k /\ r.tag = NoTag /\ r.state = "DONE"
    BY <1>6, <1>10 DEF SameFind, k
  <2>6. DoneAt(doc, sel, r, i)
    BY <2>4, <2>5 DEF DoneAt
  <2> QED
    BY <1>6, <2>5, <2>6 DEF SiblingInv
<1> QED
  BY ONLY <1>5, <1>8, <1>9, <1>10

LEMMA SiblingCloses ==
    ASSUME NEW doc, Parsed(doc), NEW sel, SelectorOf(sel), NEW i \in 1..Len(doc), doc[i].kind = "close",
           NEW s, SiblingReady(doc, sel, s, i), NEW r, r = EndSibling(s, sel, i - 1)
    PROVE  SiblingInv(doc, sel, r, i)
<1> DEFINE n == Len(sel)
<1>0. i - 1 \in 0..Len(doc) /\ i - 1 \in Int
  BY Levels
<1>1. CASE s.state = "RAISED"
  BY <1>1 DEF EndSibling, SiblingReady, SiblingInv
<1>2. ASSUME s.state # "RAISED" PROVE SiblingInv(doc, sel, r, i)
  <2>1. /\ s \in SiblingState /\ Trunk(doc, sel, s.path, s.skip, i - 1, i - 1)
        /\ s.state = "CLOSED" => ClosedAt(doc, sel, s, i - 1)
        /\ s.state = "DONE" => DoneAt(doc, sel, s, i)
    BY <1>2 DEF SiblingReady
  <2>2. Len(s.path) \in Nat /\ s.skip \in Nat /\ n \in Nat \ {0} /\ Len(s.path) <= n
        /\ Len(s.path) + s.skip = Level(doc, i - 1)
    BY <1>0, <2>1, TrunkLevel
  <2>3. /\ s.skip > 0 => Trunk(doc, sel, s.path, s.skip - 1, i, i)
        /\ s.skip = 0 => s.path # <<>> /\ Trunk(doc, sel, Front(s.path), 0, i, i)
    BY <2>1, TrunkLeave
  <2>4. CASE s.skip > 0
    <3>1. r = [s EXCEPT !.skip = @ - 1]
      BY <1>2, <2>4 DEF EndSibling
    <3>2. r \in SiblingState /\ SameFind(r, s) /\ r.path = s.path /\ r.skip = s.skip - 1
      BY <2>1, <2>4, <3>1, SiblingUnskipped
    <3>3. r.state = s.state
      BY <3>2 DEF SameFind
    <3>4. r.state = "CLOSED" => ClosedAt(doc, sel, r, i)
      BY <2>1, <2>4, <3>2, <3>3, ClosedDown
    <3>5. r.state = "DONE" => DoneAt(doc, sel, r, i)
      BY <2>1, <3>2, <3>3, DoneSame
    <3> QED
      BY <2>3, <2>4, <3>2, <3>4, <3>5 DEF SiblingInv
  <2>5. CASE s.skip = 0 /\ Len(s.path) = n
    <3>1. CASE n = 1
      <4>1. r = Raised(s)
        BY <1>2, <2>5, <3>1 DEF EndSibling
      <4> QED
        BY <2>1, <4>1, SiblingRaised DEF SiblingInv
    <3>2. CASE n > 1
      <4>1. r = Left(InsertAfter(s, Last(sel), i - 1))
        <5>1. ~(s.skip > 0) /\ Len(s.path) = Len(sel) /\ Len(s.path) # 1
          BY ONLY <2>2, <2>5, <3>2
        <5> QED
          BY <1>2, <5>1, Zenon DEF EndSibling
      <4>2. PICK c : IsOpen(doc, c, i - 1) /\ Level(doc, c) = n /\ s.path[n].name = doc[c].name
        BY <2>1, <2>5 DEF Trunk
      <4> DEFINE tag == doc[c].name
      <4>3. doc[i] = Close(tag)
        <5>1. Level(doc, i - 1) = Level(doc, c)
          BY <2>2, <2>5, <4>2
        <5> QED
          BY <4>2, <5>1, EndIs
      <4>4. tag \in Label /\ tag # NoTag
        <5>1. c \in 1..i - 1
          BY <4>2 DEF IsOpen
        <5>2. c \in 1..Len(doc)
          BY <1>0, <5>1
        <5> QED
          BY <5>2, TagType DEF Parsed
      <4>5. tag = Last(s.path).name
        <5>1. s.path \in Seq(PathStep)
          BY <2>1 DEF SiblingState
        <5>2. Last(s.path) = s.path[n]
          BY <2>3, <2>5, <5>1, FrontOf
        <5> QED
          BY <4>2, <5>2
      <4>6. s.state = "CLOSED" => sel[n].position = Anywhere
        BY <2>1 DEF ClosedAt
      <4> HIDE DEF tag
      <4> QED
        BY <1>0, <2>1, <2>3, <2>5, <3>2, <4>1, <4>3, <4>4, <4>5, <4>6, SiblingEnded
    <3>3. n = 1 \/ n > 1
      BY ONLY <2>2
    <3> QED
      BY ONLY <3>1, <3>2, <3>3
  <2>6. CASE s.skip = 0 /\ Len(s.path) + 1 = n
    <3>1. r = Left(InsertLast(s, Last(sel), i - 1))
      BY <1>2, <2>2, <2>6 DEF EndSibling
    <3> QED
      BY <1>2, <2>3, <2>6, <3>1, SiblingParentEnds
  <2>7. CASE s.skip = 0 /\ Len(s.path) + 1 < n
    <3>1. r = Left(s)
      BY <1>2, <2>2, <2>7 DEF EndSibling
    <3>2. r \in SiblingState /\ SameFind(r, s) /\ r.path = Front(s.path) /\ r.skip = s.skip
      BY <2>1, <2>3, <2>7, <3>1, SiblingLeft
    <3>3. r.state = s.state
      BY <3>2 DEF SameFind
    <3>4. r.state # "CLOSED"
      <4>1. s.state = "CLOSED" => Len(s.path) >= n - 1
        BY <1>0, <2>1, ClosedLong
      <4> QED
        BY <2>2, <2>7, <3>3, <4>1
    <3>5. r.state = "DONE" => DoneAt(doc, sel, r, i)
      BY <2>1, <3>2, <3>3, DoneSame
    <3> QED
      BY <2>3, <2>7, <3>2, <3>4, <3>5 DEF SiblingInv
  <2>8. \/ s.skip > 0
        \/ s.skip = 0 /\ Len(s.path) = n
        \/ s.skip = 0 /\ Len(s.path) + 1 = n
        \/ s.skip = 0 /\ Len(s.path) + 1 < n
    BY <2>2
  <2> QED
    BY ONLY <2>4, <2>5, <2>6, <2>7, <2>8
<1> QED
  BY <1>1, <1>2

LEMMA SiblingParentEmpty ==
    ASSUME NEW doc, Parsed(doc), NEW sel, SelectorOf(sel), NEW i \in 1..Len(doc), doc[i].kind = "empty",
           NEW s, SiblingReady(doc, sel, s, i), s.state # "RAISED", s.skip = 0,
           NEW q, Trunk(doc, sel, q, 0, i, i), Len(q) = Len(s.path), Len(q) + 2 = Len(sel),
           i \in SelectedUpTo(doc, sel)[Len(q) + 1],
           NEW b \in SiblingState, SameFind(b, s), b.skip = 0, Front(b.path) = q, b.path # <<>>,
           NEW r, r = Left(InsertLast(b, Last(sel), i))
    PROVE  SiblingInv(doc, sel, r, i)
<1> DEFINE n == Len(sel)
           a == InsertLast(b, Last(sel), i)
<1>0. i \in Nat /\ i - 1 \in 0..Len(doc) /\ i \in Int /\ Len(doc) \in Nat /\ i \in 1..i /\ i \in 0..Len(doc)
  BY Levels
<1>1. /\ s \in SiblingState /\ Trunk(doc, sel, s.path, 0, i - 1, i - 1)
      /\ s.state = "CLOSED" => ClosedAt(doc, sel, s, i - 1)
      /\ s.state = "DONE" => DoneAt(doc, sel, s, i)
  BY DEF SiblingReady
<1>2. Len(q) \in Nat /\ n \in Nat /\ Len(q) + 0 = Level(doc, i)
  BY <1>0, TrunkLevel
<1>3. s.state # "CLOSED"
  <2>1. s.state = "CLOSED" => Len(s.path) >= n - 1
    BY <1>0, <1>1, ClosedLong
  <2> QED
    BY <1>2, <2>1
<1>4. /\ a \in SiblingState /\ a.path = b.path /\ a.skip = b.skip
      /\ \/ SameFind(a, b) /\ b.state \notin {"CLOSED", "LOOKING"}
         \/ /\ b.state = "CLOSED" /\ a.state = "DONE"
            /\ a.end = b.end /\ a.tag = b.tag /\ a.end2 = b.end2
         \/ /\ b.state \in {"CLOSED", "LOOKING"} /\ a.state = "DONE"
            /\ a.end = i /\ a.tag = NoTag /\ a.end2 = i
  BY <1>0, SiblingLast
<1>5. b.state = s.state
  BY DEF SameFind
<1> HIDE DEF a
<1>6. r \in SiblingState /\ SameFind(r, a) /\ r.path = q /\ r.skip = 0
  <2>1. r = Left(a)
    BY DEF a
  <2>2. r \in SiblingState /\ SameFind(r, a) /\ r.path = Front(a.path) /\ r.skip = a.skip
    BY <1>4, <2>1, SiblingLeft
  <2> QED
    BY <1>4, <2>2
<1>7. CASE SameFind(a, b) /\ b.state \notin {"CLOSED", "LOOKING"}
  <2>1. SameFind(r, s)
    BY <1>6, <1>7 DEF SameFind
  <2>2. r.state = s.state /\ (r.state = "DONE" => DoneAt(doc, sel, r, i))
    <3>1. r.state = s.state
      BY <2>1 DEF SameFind
    <3> QED
      BY <1>1, <2>1, <3>1, DoneSame
  <2> QED
    BY <1>3, <1>6, <2>2 DEF SiblingInv
<1>8. CASE a.state = "DONE" /\ a.end = i /\ a.tag = NoTag
  <2>1. ASSUME NEW p, IsOpen(doc, p, i), Level(doc, p) = Level(doc, i)
        PROVE  Parent(doc, i) = p
    <3>1. IsOpen(doc, p, i - 1)
      BY <2>1, StillOpen DEF IsOpen
    <3>2. Level(doc, i - 1) = Level(doc, i)
      BY Levels
    <3> QED
      BY <2>1, <3>1, <3>2, ParentIs
  <2>2. Level(doc, i) = n - 2 /\ i \in SelectedUpTo(doc, sel)[n - 1]
    <3>1. Len(q) = n - 2 /\ Len(q) + 1 = n - 1
      BY <1>2
    <3> QED
      BY <1>2, <3>1
  <2>3. Behind(doc, sel, i)
    BY <1>0, <2>1, <2>2 DEF Behind
  <2>4. r.end = i /\ r.tag = NoTag /\ r.state = "DONE"
    BY <1>6, <1>8 DEF SameFind
  <2>5. DoneAt(doc, sel, r, i)
    BY <2>3, <2>4 DEF DoneAt
  <2> QED
    BY <1>6, <2>4, <2>5 DEF SiblingInv
<1> QED
  BY ONLY <1>3, <1>4, <1>5, <1>7, <1>8

LEMMA FrontAppend ==
    ASSUME NEW S, NEW q \in Seq(S), NEW x \in S, NEW p, p = Append(q, x)
    PROVE  p \in Seq(S) /\ p # <<>> /\ Len(p) = Len(q) + 1 /\ Last(p) = x /\ Front(p) = q
<1>1. /\ p \in Seq(S) /\ Len(p) = Len(q) + 1 /\ p[Len(q) + 1] = x
      /\ \A k \in 1..Len(q) : p[k] = q[k]
  BY AppendProperties
<1>2. Len(q) \in Nat
  OBVIOUS
<1>3. p # <<>> /\ Len(p) - 1 = Len(q)
  BY <1>1, <1>2
<1>4. /\ Front(p) \in Seq(S) /\ Len(Front(p)) = Len(p) - 1
      /\ \A k \in 1..Len(p) - 1 : Front(p)[k] = p[k]
      /\ Last(p) = p[Len(p)]
  BY <1>1, <1>3, FrontOf
<1>5. Front(p) \in Seq(S) /\ Len(Front(p)) = Len(q) /\ \A k \in 1..Len(q) : Front(p)[k] = q[k]
  BY <1>1, <1>3, <1>4
<1>6. Front(p) = q
  BY <1>2, <1>5
<1> QED
  BY <1>1, <1>3, <1>4, <1>6

LEMMA SiblingEmpties ==
    ASSUME NEW doc, Parsed(doc), NEW sel, SelectorOf(sel), SelectedUpTo(doc, sel)[Len(sel)] = {},
           NEW i \in 1..Len(doc), doc[i].kind = "empty", NEW s, SiblingReady(doc, sel, s, i),
           NEW b, b = StartSibling(s, sel, doc[i], i - 1),
           NEW r, r = EndSibling(NextTagSeen(b, i), sel, i)
    PROVE  SiblingInv(doc, sel, r, i)
<1> DEFINE n == Len(sel)
           new == [name |-> doc[i].name, position |-> 0]
<1>0. i - 1 \in 0..Len(doc) /\ i \in Int /\ i \in 0..Len(doc) /\ i - 1 # Unset
  BY Levels DEF Unset
<1>1. CASE s.state = "RAISED"
  <2>1. b = s
    BY <1>1 DEF StartSibling
  <2>2. NextTagSeen(b, i) = s
    BY <1>1, <2>1 DEF NextTagSeen
  <2>3. r = s
    BY <1>1, <2>2 DEF EndSibling
  <2> QED
    BY <1>1, <2>3 DEF SiblingReady, SiblingInv
<1>2. ASSUME s.state # "RAISED" PROVE SiblingInv(doc, sel, r, i)
  <2>1. /\ s \in SiblingState /\ Trunk(doc, sel, s.path, s.skip, i - 1, i - 1)
        /\ s.state = "CLOSED" => ClosedAt(doc, sel, s, i - 1)
        /\ s.state = "DONE" => DoneAt(doc, sel, s, i) /\ s.end2 # Unset
    BY <1>2 DEF SiblingReady
  <2>2. Len(s.path) \in Nat /\ s.skip \in Nat /\ n \in Nat \ {0}
    BY <1>0, <2>1, TrunkLevel
  <2>3. b \in SiblingState /\ SiblingArrived(doc, sel, s, b, i)
    BY <1>2, <2>1, SiblingArrival
  <2>4. b.state = "RAISED" \/ SameFind(b, s) \/ InsertedBefore(doc, sel, b, i) => NextTagSeen(b, i) = b
    <3>1. (b.state = "DONE" => b.end2 # Unset) => NextTagSeen(b, i) = b
      BY DEF NextTagSeen
    <3> QED
      BY <1>0, <2>1, <3>1 DEF SameFind, InsertedBefore
  <2>5. CASE b.state = "RAISED"
    <3>1. r = b
      BY <2>4, <2>5 DEF EndSibling
    <3> QED
      BY <2>3, <2>5, <3>1 DEF SiblingInv
  <2>6. ASSUME NEW q \in Seq(PathStep), Trunk(doc, sel, q, s.skip, i - 1, i), Len(q) = Len(s.path),
               b.path = q /\ b.skip = s.skip + 1 /\ SameFind(b, s),
               s.skip > 0 \/ Len(q) # Len(sel) - 1 \/ ~NameMatches(sel[Len(sel)], doc[i])
        PROVE  SiblingInv(doc, sel, r, i)
    <3>1. b.skip > 0 /\ b.state # "RAISED"
      BY <1>2, <2>2, <2>6 DEF SameFind
    <3>2. r = [b EXCEPT !.skip = @ - 1]
      BY <2>4, <2>6, <3>1 DEF EndSibling
    <3>3. r \in SiblingState /\ SameFind(r, b) /\ r.path = b.path /\ r.skip = b.skip - 1
      BY <2>3, <3>1, <3>2, SiblingUnskipped
    <3>4. SameFind(r, s) /\ r.path = q /\ r.skip = s.skip /\ r.state = s.state
      BY <2>2, <2>6, <3>3 DEF SameFind
    <3>5. Trunk(doc, sel, q, s.skip, i, i)
      BY <2>6, TrunkEmpty
    <3>6. ASSUME r.state = "CLOSED" PROVE ClosedAt(doc, sel, r, i)
      <4>1. ClosedAt(doc, sel, s, i - 1)
        BY <2>1, <3>4, <3>6
      <4> QED
        BY <2>1, <2>6, <3>4, <4>1, ClosedSkip
    <3>7. r.state = "DONE" => DoneAt(doc, sel, r, i)
      BY <2>1, <3>4, DoneSame
    <3> QED
      BY <3>3, <3>4, <3>5, <3>6, <3>7 DEF SiblingInv
  <2>7. ASSUME NEW q \in Seq(PathStep), Trunk(doc, sel, q, s.skip, i - 1, i), Len(q) = Len(s.path),
               b.path = Append(q, new), b.skip = 0 /\ s.skip = 0 /\ Len(q) < Len(sel),
               \/ /\ Len(q) + 1 # Len(sel) /\ SameFind(b, s)
                  /\ i \in SelectedUpTo(doc, sel)[Len(q) + 1]
               \/ /\ Len(q) + 1 = Len(sel)
                  /\ SameFind(b, s) \/ InsertedBefore(doc, sel, b, i)
        PROVE  SiblingInv(doc, sel, r, i)
    <3>1. Trunk(doc, sel, q, 0, i, i)
      BY <2>7, TrunkEmpty
    <3>2. doc[i].name \in Label /\ doc[i].name # NoTag
      BY TagType DEF Parsed
    <3>3. b.path # <<>> /\ Len(b.path) = Len(q) + 1 /\ Last(b.path) = new /\ Front(b.path) = q
      <4>1. new \in PathStep
        BY <3>2 DEF PathStep
      <4> HIDE DEF new
      <4> QED
        BY <2>7, <4>1, FrontAppend
    <3>4. b.state # "RAISED" /\ r = EndSibling(b, sel, i)
      BY <1>2, <2>4, <2>7 DEF SameFind, InsertedBefore
    <3>5. ~(b.skip > 0) /\ Len(q) \in Nat
      BY <2>2, <2>7
    <3>6. CASE Len(q) + 1 # n /\ SameFind(b, s) /\ Len(q) + 2 = n
      <4>1. Len(b.path) # Len(sel) /\ Len(b.path) + 1 = Len(sel)
        BY ONLY <2>2, <3>3, <3>5, <3>6
      <4>2. r = Left(InsertLast(b, Last(sel), i))
        BY <3>4, <3>5, <4>1, Zenon DEF EndSibling
      <4>3. i \in SelectedUpTo(doc, sel)[Len(q) + 1]
        BY <2>7, <3>6
      <4> HIDE DEF n, new
      <4>4. Len(q) + 2 = Len(sel)
        BY <3>6 DEF n
      <4> QED
        BY <1>2, <2>3, <2>7, <3>1, <3>3, <3>6, <4>2, <4>3, <4>4, SiblingParentEmpty
    <3>7. CASE Len(q) + 1 # n /\ SameFind(b, s) /\ Len(q) + 2 # n
      <4>1. Len(b.path) # Len(sel) /\ Len(b.path) + 1 # Len(sel)
        BY ONLY <2>2, <3>3, <3>5, <3>7
      <4>2. r = Left(b)
        BY <3>4, <3>5, <4>1, Zenon DEF EndSibling
      <4>3. r \in SiblingState /\ SameFind(r, b) /\ r.path = q /\ r.skip = 0
        <5>1. r \in SiblingState /\ SameFind(r, b) /\ r.path = Front(b.path) /\ r.skip = b.skip
          BY <2>3, <3>3, <4>2, SiblingLeft
        <5> QED
          BY <2>7, <3>3, <5>1
      <4>4. SameFind(r, s) /\ r.state = s.state
        BY <3>7, <4>3 DEF SameFind
      <4>5. s.state # "CLOSED"
        <5>1. s.state = "CLOSED" => Len(s.path) >= n - 1
          BY <1>0, <2>1, ClosedLong
        <5>2. Len(s.path) < n - 1
          BY ONLY <2>2, <2>7, <3>7
        <5> QED
          BY ONLY <2>2, <5>1, <5>2
      <4>6. r.state = "DONE" => DoneAt(doc, sel, r, i)
        BY <2>1, <4>4, DoneSame
      <4> QED
        BY <3>1, <4>3, <4>4, <4>5, <4>6 DEF SiblingInv
    <3>8. CASE Len(q) + 1 = n /\ (SameFind(b, s) \/ InsertedBefore(doc, sel, b, i))
      <4>1. CASE n = 1
        <5>1. Len(b.path) = Len(sel) /\ Len(b.path) = 1
          BY ONLY <3>3, <3>5, <3>8, <4>1
        <5>2. r = Raised(b)
          BY <3>4, <3>5, <5>1, Zenon DEF EndSibling
        <5> QED
          BY <2>3, <5>2, SiblingRaised DEF SiblingInv
      <4>2. CASE n > 1
        <5>1. Len(b.path) = Len(sel) /\ Len(b.path) # 1 /\ Len(sel) > 1
          BY ONLY <2>2, <3>3, <3>5, <3>8, <4>2
        <5>2. r = Left(InsertAfter(b, Last(sel), i))
          BY <3>4, <3>5, <5>1, Zenon DEF EndSibling
        <5>3. b.state = "DONE" => DoneAt(doc, sel, b, i)
          <6>1. CASE SameFind(b, s)
            <7>1. b.state = s.state
              BY <6>1 DEF SameFind
            <7> QED
              BY <2>1, <6>1, <7>1, DoneSame
          <6>2. CASE InsertedBefore(doc, sel, b, i)
            <7>1. Len(s.path) = Len(sel) - 1
              BY ONLY <2>2, <2>7, <3>8
            <7>2. Trunk(doc, sel, s.path, 0, i - 1, i - 1)
              BY <2>1, <2>7
            <7> QED
              BY <6>2, <7>1, <7>2, PlaceBefore
          <6> QED
            BY <3>8, <6>1, <6>2
        <5>4. b.state = "CLOSED" => sel[n].position = Anywhere
          <6>1. b.state = "CLOSED" => s.state = "CLOSED"
            BY <3>8 DEF SameFind, InsertedBefore
          <6> QED
            BY <2>1, <6>1 DEF ClosedAt
        <5> DEFINE tag == doc[i].name
        <5>5. tag \in Label /\ tag = Last(b.path).name /\ tag # NoTag
          BY <3>2, <3>3
        <5>6. Trunk(doc, sel, Front(b.path), 0, i, i) /\ b.skip = 0
          BY <2>7, <3>1, <3>3
        <5> HIDE DEF tag, new
        <5> QED
          BY <1>0, <2>3, <5>1, <5>2, <5>3, <5>4, <5>5, <5>6, SiblingEnded
      <4>3. n = 1 \/ n > 1
        <5> HIDE DEF n
        <5> QED
          BY ONLY <2>2
      <4> QED
        BY ONLY <4>1, <4>2, <4>3
    <3>9. Len(q) + 2 = n \/ Len(q) + 2 # n
      OBVIOUS
    <3> HIDE DEF new
    <3> QED
      BY ONLY <2>7, <3>6, <3>7, <3>8, <3>9
  <2> HIDE DEF new
  <2>8. SiblingArrived(doc, sel, s, b, i)
    BY <2>3
  <2> QED
    BY ONLY <2>5, <2>6, <2>7, <2>8 DEF SiblingArrived, new
<1> QED
  BY <1>1, <1>2

LEMMA SiblingIsRight ==
    ASSUME NEW doc, Parsed(doc), NEW sel, SelectorOf(sel), SelectedUpTo(doc, sel)[Len(sel)] = {}
    PROVE  SiblingInv(doc, sel, InsertPointLocator(doc, sel), Len(doc))
<1> DEFINE n == Len(doc)
           S == {i \in 0..n : SiblingInv(doc, sel, SiblingStates(doc, sel)[i], i)}
<1>0. n \in Nat
  BY Levels
<1>1. 0 \in S
  <2>1. SiblingStates(doc, sel)[0] = StartDocument
    BY <1>0, SiblingStatesDef
  <2>2. StartDocument \in SiblingState /\ StartDocument.path = <<>> /\ StartDocument.skip = 0
        /\ StartDocument.state = "LOOKING"
    <3>1. NoTag \in Label
      BY Zenon DEF Label
    <3>2. Unset \in Int
      BY DEF Unset
    <3> DEFINE far == Unset
               none == NoTag
               path == <<>>
               e == [state |-> "LOOKING", path |-> path, skip |-> 0,
                     start |-> far, end |-> far, tag |-> none, end2 |-> far]
    <3>3. StartDocument = e
      BY DEF StartDocument
    <3>4. path \in Seq(PathStep)
      OBVIOUS
    <3> HIDE DEF far, none, path
    <3>5. e \in SiblingState /\ e.path = path /\ e.skip = 0 /\ e.state = "LOOKING"
      BY <3>1, <3>2, <3>4 DEF SiblingState, far, none
    <3> QED
      BY <3>3, <3>5 DEF path
  <2>3. Trunk(doc, sel, <<>>, 0, 0, 0)
    <3>1. Len(sel) \in Nat \ {0}
      BY SelectedStep
    <3>2. Level(doc, 0) = 0
      BY Levels
    <3> DEFINE path == <<>>
    <3>3. path \in Seq(PathStep) /\ Len(path) = 0
      OBVIOUS
    <3> HIDE DEF path
    <3>4. Chain(doc, sel, path, 0, 0, 0)
      BY <3>1, <3>2, <3>3 DEF Chain
    <3>5. Trunk(doc, sel, path, 0, 0, 0)
      BY <3>1, <3>3, <3>4 DEF Trunk
    <3> QED
      BY <3>5 DEF path
  <2>4. SiblingInv(doc, sel, StartDocument, 0)
    BY <2>2, <2>3 DEF SiblingInv
  <2> QED
    BY <1>0, <2>1, <2>4
<1>2. ASSUME NEW i \in 1..n, i - 1 \in S PROVE i \in S
  <2> DEFINE s == SiblingStates(doc, sel)[i - 1]
             t == doc[i]
             p == NextTagSeen(s, i - 1)
  <2>1. SiblingStates(doc, sel)[i] = SiblingEvents(s, sel, t, i)
    BY <1>0, SiblingStatesDef
  <2>2. SiblingInv(doc, sel, s, i - 1)
    BY <1>2
  <2>3. SiblingReady(doc, sel, p, i)
    <3> HIDE DEF s
    <3> QED
      BY <2>2, SiblingIsReady
  <2>4. /\ t.kind = "open" => SiblingEvents(s, sel, t, i) = StartSibling(p, sel, t, i - 1)
        /\ t.kind = "close" => SiblingEvents(s, sel, t, i) = EndSibling(p, sel, i - 1)
        /\ t.kind = "empty" =>
             SiblingEvents(s, sel, t, i) = EndSibling(NextTagSeen(StartSibling(p, sel, t, i - 1), i), sel, i)
    BY SiblingCases
  <2>5. t.kind \in {"open", "close", "empty"}
    BY TagType DEF Parsed
  <2> HIDE DEF p, s
  <2>6. SiblingInv(doc, sel, SiblingEvents(s, sel, t, i), i)
    BY <2>3, <2>4, <2>5, SiblingOpens, SiblingCloses, SiblingEmpties
  <2> QED
    BY <1>0, <2>1, <2>6 DEF s
<1> HIDE DEF S
<1>3. 0..n \subseteq S
  BY <1>0, <1>1, <1>2, Induction
<1> QED
  BY <1>0, <1>3 DEF S, InsertPointLocator

(* Where put inserts an element: after a tag where the selector asks for it, *)
(* or where no element that the selector could select comes after it in its  *)
(* parent, or inside a sibling, whose end tag it did not see or which is the  *)
(* wrong one.                                                                *)
LEMMA PlaceIs ==
    ASSUME NEW doc, Parsed(doc), NEW sel, SelectorOf(sel), Selected(doc, sel) = {},
           NEW s, s = InsertPointLocator(doc, sel), s.state = "DONE",
           NEW p, p = FixedEnd(doc, s), p < Len(doc)
    PROVE  \/ RightPlace(doc, sel, p)
           \/ Behind(doc, sel, p)
           \/ p \in Nat /\ Level(doc, p) = Len(sel)
<1> DEFINE n == Len(sel)
           upTo == IF s.end2 = Unset THEN Len(doc) ELSE s.end2
<1>0. Len(doc) \in Nat /\ n \in Nat
  BY Levels, SelectedStep
<1>1. SelectedUpTo(doc, sel)[Len(sel)] = {}
  BY DEF Selected
<1>2. s \in SiblingState /\ DoneAt(doc, sel, s, Len(doc))
  <2>1. SiblingInv(doc, sel, s, Len(doc))
    BY <1>1, SiblingIsRight
  <2> QED
    BY <2>1 DEF SiblingInv
<1>3. s.end2 \in Int /\ upTo \in Int
  BY <1>0, <1>2 DEF SiblingState
<1> DEFINE shows == EndTagShows(doc, s.tag, s.end)
<1>4. p = IF s.tag # NoTag /\ shows /\ (\E i \in s.end + 1 .. upTo : doc[i] = Close(s.tag))
          THEN s.end + 1 ELSE s.end
  BY Zenon DEF FixedEnd
<1> HIDE DEF upTo, shows
<1>5. CASE s.tag = NoTag /\ (RightPlace(doc, sel, s.end) \/ Behind(doc, sel, s.end))
  BY <1>4, <1>5
<1>6. ASSUME NEW m \in 1..Len(doc), Marks(doc, s, m), RightPlace(doc, sel, m),
             s.end2 = Unset \/ s.end2 >= m,
             sel[n].position # Anywhere => s.end2 = IF m = Len(doc) THEN Unset ELSE m
      PROVE  \/ RightPlace(doc, sel, p)
             \/ Behind(doc, sel, p)
             \/ p \in Nat /\ Level(doc, p) = n
  <2>1. CASE doc[m].kind = "close" /\ doc[m] = Close(s.tag) /\ s.end = m - 1
    <3>1. m <= upTo
      BY <1>0, <1>3, <1>6 DEF upTo
    <3>2. m \in s.end + 1 .. upTo
      BY <1>3, <2>1, <3>1
    <3>3. p = IF shows THEN s.end + 1 ELSE s.end
      BY <1>4, <1>6, <2>1, <3>2 DEF Marks
    <3>4. CASE shows
      <4>1. p = m
        BY <2>1, <3>3, <3>4
      <4> QED
        BY <1>6, <4>1
    <3>5. CASE ~shows
      <4>1. p = m - 1 /\ m \in Nat \ {0}
        BY <1>6, <2>1, <3>3, <3>5
      <4>2. Level(doc, m) = n - 1
        BY <1>6 DEF RightPlace, Under
      <4>3. Level(doc, m) = Level(doc, m - 1) - 1 /\ Level(doc, m - 1) \in Nat
        <5>1. m - 1 \in 0..Len(doc)
          BY <1>0
        <5> QED
          BY <2>1, <5>1, Levels
      <4>4. p \in Nat /\ Level(doc, p) = n
        BY <1>0, <4>1, <4>2, <4>3
      <4> QED
        BY <4>4
    <3> QED
      BY <3>4, <3>5
  <2>2. CASE doc[m].kind = "empty" /\ s.end = m
    <3>1. p = m \/ (p = m + 1 /\ \E i \in m + 1 .. upTo : TRUE)
      BY <1>4, <2>2
    <3>2. CASE p = m
      BY <1>6, <3>2
    <3>3. CASE p = m + 1 /\ (\E i \in m + 1 .. upTo : TRUE)
      <4>1. sel[n].position = Anywhere
        <5> SUFFICES ASSUME sel[n].position # Anywhere PROVE FALSE
          OBVIOUS
        <5>1. m # Len(doc)
          BY <1>0, <3>3
        <5>2. upTo = m
          BY <1>6, <5>1 DEF upTo, Unset
        <5> QED
          BY <3>3, <5>2
      <4>2. p \in 1..Len(doc) /\ p - 1 = m /\ p \in Nat
        BY <1>0, <3>3
      <4>3. PICK q : Under(doc, sel, q, m) /\ Settled(doc, sel, q, m)
        BY <1>6, <4>1 DEF RightPlace
      <4>4. /\ q \in 1..m /\ IsOpen(doc, q, m) /\ Level(doc, m) = n - 1 /\ Level(doc, q) = n - 1
            /\ q \in SelectedUpTo(doc, sel)[n - 1]
        BY <4>3 DEF Under
      <4>5. doc[p].kind \in {"open", "empty", "close"}
        BY <4>2, TagType DEF Parsed
      <4>6. CASE doc[p].kind = "open"
        <5>1. Level(doc, p) = n
          <6>1. Level(doc, p) = Level(doc, p - 1) + 1
            BY <4>2, <4>6, Levels
          <6> QED
            BY <1>0, <4>2, <4>4, <6>1
        <5> QED
          BY <4>1, <4>2, <5>1
      <4>7. CASE doc[p].kind = "empty"
        <5>1. Level(doc, p) = n - 1
          <6>1. Level(doc, p) = Level(doc, p - 1)
            BY <4>2, <4>7, Levels
          <6> QED
            BY <4>2, <4>4, <6>1
        <5>2. IsOpen(doc, q, p)
          BY <1>0, <4>2, <4>4, <5>1, OpenLonger
        <5>3. Under(doc, sel, q, p)
          BY <4>2, <4>4, <5>1, <5>2 DEF Under
        <5>4. Settled(doc, sel, q, p)
          <6>1. \A c \in Children(doc, sel, q, Len(doc)) : c \in Nat
            BY <1>0 DEF Children, Elements
          <6> QED
            BY <1>0, <3>3, <4>2, <4>3, <6>1 DEF Settled
        <5> QED
          BY <5>3, <5>4 DEF RightPlace
      <4>8. CASE doc[p].kind = "close"
        <5>1. Level(doc, p) = n - 2
          <6>1. Level(doc, p) = Level(doc, p - 1) - 1
            BY <4>2, <4>8, Levels
          <6> QED
            BY <1>0, <4>2, <4>4, <6>1
        <5>2. ASSUME NEW x, IsOpen(doc, x, p), Level(doc, x) = Level(doc, p) PROVE Parent(doc, q) = x
          <6>1. IsOpen(doc, x, m)
            BY <4>2, <4>8, <5>2, StillOpen DEF IsOpen
          <6>2. x < q
            <7>1. q < x => Level(doc, q) < Level(doc, x)
              BY <1>0, <4>4, <6>1, OpenOnce
            <7>2. x \in 1..m /\ x # q
              BY <1>0, <4>4, <5>1, <5>2, <6>1 DEF IsOpen
            <7> QED
              BY <1>0, <4>4, <5>1, <5>2, <7>1, <7>2
          <6>3. IsOpen(doc, x, q - 1)
            <7>1. x \in 1..q - 1 /\ x..q - 1 \subseteq x..m
              BY <4>4, <6>1, <6>2 DEF IsOpen
            <7> QED
              BY <6>1, <7>1 DEF IsOpen
          <6>4. Level(doc, x) = Level(doc, q - 1) /\ q \in 1..Len(doc)
            <7>1. q \in 1..Len(doc) /\ doc[q].kind = "open"
              BY <4>4 DEF IsOpen
            <7>2. Level(doc, q) = Level(doc, q - 1) + 1 /\ Level(doc, q - 1) \in Nat
              BY <7>1, Levels
            <7> QED
              BY <1>0, <4>4, <5>1, <5>2, <7>1, <7>2
          <6> QED
            BY <6>3, <6>4, ParentIs
        <5>3. q \in 1..p
          BY <4>2, <4>4
        <5>4. Behind(doc, sel, p)
          BY <4>4, <5>1, <5>2, <5>3 DEF Behind
        <5> QED
          BY <5>4
      <4> QED
        BY <4>5, <4>6, <4>7, <4>8
    <3> QED
      BY <3>1, <3>2, <3>3
  <2> QED
    BY <1>6, <2>1, <2>2 DEF Marks
<1> QED
  BY <1>2, <1>5, <1>6 DEF DoneAt

-----------------------------------------------------------------------------
(* A body that put inserts after tag p: what becomes of the tree.            *)

Spread(doc, p, body, new) ==
    /\ new \in Seq(Tag) /\ Len(new) = Len(doc) + Len(body)
    /\ \A k \in 1..p : new[k] = doc[k]
    /\ \A k \in 1..Len(body) : new[p + k] = body[k]
    /\ \A k \in p + 1..Len(doc) : new[k + Len(body)] = doc[k]

Grown(doc, p, body, new) ==
    /\ Parsed(doc) /\ Parsed(body) /\ Parsed(new)
    /\ p \in 1..Len(doc) - 1 /\ Spread(doc, p, body, new)

Rewritten(doc, p, e, body, new) ==
    /\ new \in Seq(Tag) /\ Len(new) = p + Len(body) + (Len(doc) - e)
    /\ \A k \in 1..p : new[k] = doc[k]
    /\ \A k \in 1..Len(body) : new[p + k] = body[k]
    /\ \A k \in 1..Len(doc) - e : new[p + Len(body) + k] = doc[e + k]

LEMMA SplicedTags ==
    ASSUME NEW doc \in Seq(Tag), NEW body \in Seq(Tag), NEW p \in 0..Len(doc), NEW e \in p..Len(doc)
    PROVE  Rewritten(doc, p, e, body, Spliced(doc, p, e, body))
<1> DEFINE a == SubSeq(doc, 1, p)
           c == SubSeq(doc, e + 1, Len(doc))
           h == a \o body
           new == Spliced(doc, p, e, body)
<1>1. Len(doc) \in Nat /\ Len(body) \in Nat /\ p \in Nat /\ p <= e /\ e \in Nat /\ e <= Len(doc)
  BY TagType
<1>2. a \in Seq(Tag) /\ Len(a) = p /\ \A k \in 1..p : a[k] = doc[k]
  BY <1>1
<1>3. c \in Seq(Tag) /\ Len(c) = Len(doc) - e /\ \A k \in 1..Len(doc) - e : c[k] = doc[e + k]
  BY <1>1
<1>4. new = h \o c
  BY DEF Spliced
<1> HIDE DEF a, c, new
<1>5. /\ h \in Seq(Tag) /\ Len(h) = p + Len(body)
      /\ \A k \in 1..p + Len(body) : h[k] = IF k <= p THEN a[k] ELSE body[k - p]
  <2>1. a \in Seq(Tag) /\ h = a \o body
    BY <1>2
  <2>2. Len(a) = p
    BY <1>2
  <2> HIDE DEF h
  <2> QED
    BY ONLY body \in Seq(Tag), <2>1, <2>2, ConcatProperties
<1> HIDE DEF h
<1>6. /\ new \in Seq(Tag) /\ Len(new) = Len(h) + Len(c)
      /\ \A k \in 1..Len(h) + Len(c) : new[k] = IF k <= Len(h) THEN h[k] ELSE c[k - Len(h)]
  <2>1. h \in Seq(Tag) /\ c \in Seq(Tag)
    BY <1>3, <1>5
  <2> QED
    BY ONLY <1>4, <2>1, ConcatProperties
<1>7. Len(new) = p + Len(body) + (Len(doc) - e)
  BY <1>1, <1>3, <1>5, <1>6
<1>8. ASSUME NEW k \in 1..p PROVE new[k] = doc[k]
  <2>1. k \in 1..Len(h) + Len(c) /\ k <= Len(h) /\ k \in 1..p + Len(body) /\ k <= p
    BY ONLY <1>1, <1>3, <1>5, k \in 1..p
  <2> QED
    BY <1>2, <1>5, <1>6, <2>1
<1>9. ASSUME NEW k \in 1..Len(body) PROVE new[p + k] = body[k]
  <2>1. p + k \in 1..Len(h) + Len(c) /\ p + k <= Len(h) /\ p + k \in 1..p + Len(body) /\ ~(p + k <= p) /\ p + k - p = k
    BY ONLY <1>1, <1>3, <1>5, k \in 1..Len(body)
  <2> QED
    BY <1>5, <1>6, <2>1
<1>10. ASSUME NEW k \in 1..Len(doc) - e PROVE new[p + Len(body) + k] = doc[e + k]
  <2> DEFINE x == p + Len(body) + k
  <2>0. Len(h) = p + Len(body) /\ Len(c) = Len(doc) - e /\ k \in 1..Len(doc) - e
    BY <1>3, <1>5
  <2>1. x \in 1..Len(h) + Len(c) /\ ~(x <= Len(h)) /\ x - Len(h) = k
    BY ONLY <1>1, <2>0
  <2>2. new[x] = c[k]
    <3> HIDE DEF x
    <3> QED
      BY ONLY <1>6, <2>1
  <2> QED
    BY <1>3, <2>2
<1> QED
  BY <1>6, <1>7, <1>8, <1>9, <1>10 DEF Rewritten, new

LEMMA InsertedTags ==
    ASSUME NEW doc \in Seq(Tag), NEW body \in Seq(Tag), NEW p \in 0..Len(doc)
    PROVE  Spread(doc, p, body, Spliced(doc, p, p, body))
<1> DEFINE new == Spliced(doc, p, p, body)
           b == Len(body)
           n == Len(doc)
<1>1. n \in Nat /\ b \in Nat /\ p \in Nat /\ p \in p..n
  BY TagType
<1>2. /\ new \in Seq(Tag) /\ Len(new) = p + b + (n - p)
      /\ \A k \in 1..p : new[k] = doc[k]
      /\ \A k \in 1..b : new[p + k] = body[k]
      /\ \A k \in 1..n - p : new[p + b + k] = doc[p + k]
  <2>1. Rewritten(doc, p, p, body, new)
    BY <1>1, SplicedTags
  <2> HIDE DEF new
  <2> QED
    BY <2>1 DEF Rewritten
<1> HIDE DEF new
<1>3. ASSUME NEW k \in p + 1..n PROVE new[k + b] = doc[k]
  <2>1. k - p \in 1..n - p /\ p + b + (k - p) = k + b /\ p + (k - p) = k
    BY <1>1
  <2>2. new[p + b + (k - p)] = doc[p + (k - p)]
    BY <1>2, <2>1
  <2> QED
    BY <2>1, <2>2
<1>4. Len(new) = n + b
  BY <1>1, <1>2
<1> QED
  BY <1>2, <1>3, <1>4 DEF Spread, new

LEMMA InsertedOut ==
    ASSUME NEW doc \in Seq(Tag), NEW body \in Seq(Tag), NEW p \in 0..Len(doc),
           NEW new, new = Spliced(doc, p, p, body)
    PROVE  Spliced(new, p, p + Len(body), <<>>) = doc
<1> DEFINE b == Len(body)
           a == SubSeq(new, 1, p)
           c == SubSeq(new, p + b + 1, Len(new))
           h == a \o <<>>
           d == h \o c
<1>1. Len(doc) \in Nat /\ b \in Nat /\ p \in Nat /\ p <= Len(doc)
  BY TagType
<1>2. /\ new \in Seq(Tag) /\ Len(new) = Len(doc) + b
      /\ \A k \in 1..p : new[k] = doc[k]
      /\ \A k \in p + 1..Len(doc) : new[k + b] = doc[k]
  <2>1. Spread(doc, p, body, new)
    BY InsertedTags
  <2> QED
    BY <2>1 DEF Spread
<1> HIDE DEF b
<1>3. a \in Seq(Tag) /\ Len(a) = p /\ \A k \in 1..p : a[k] = doc[k]
  BY <1>1, <1>2
<1>4. c \in Seq(Tag) /\ Len(c) = Len(doc) - p /\ \A k \in 1..Len(doc) - p : c[k] = new[p + b + k]
  BY <1>1, <1>2
<1> HIDE DEF a, c
<1>5. h = a
  BY <1>3
<1> HIDE DEF h
<1>6. /\ d \in Seq(Tag) /\ Len(d) = Len(doc)
      /\ \A k \in 1..Len(doc) : d[k] = IF k <= p THEN a[k] ELSE c[k - p]
  BY <1>1, <1>3, <1>4, <1>5
<1>7. ASSUME NEW k \in 1..Len(doc) PROVE d[k] = doc[k]
  <2>1. CASE k <= p
    BY <1>1, <1>3, <1>6, <2>1
  <2>2. CASE ~(k <= p)
    <3>1. k - p \in 1..Len(doc) - p /\ p + b + (k - p) = k + b /\ k \in p + 1..Len(doc)
      BY <1>1, <2>2
    <3>2. c[k - p] = new[k + b]
      BY <1>4, <3>1
    <3> QED
      BY <1>2, <1>6, <2>2, <3>1, <3>2
  <2> QED
    BY <2>1, <2>2
<1> HIDE DEF d
<1>8. d = doc
  BY <1>6, <1>7
<1> QED
  BY <1>8 DEF Spliced, d, h, a, c, b

LEMMA LevelStep ==
    ASSUME NEW doc, Parsed(doc), NEW new, Parsed(new), NEW x \in 1..Len(new), NEW y \in 1..Len(doc), new[x] = doc[y]
    PROVE  Level(new, x) - Level(new, x - 1) = Level(doc, y) - Level(doc, y - 1)
<1>1. doc[y].kind \in {"open", "close", "empty"}
  BY TagType DEF Parsed
<1>2. /\ Level(new, x) \in Nat /\ Level(new, x - 1) \in Nat
      /\ Level(doc, y) \in Nat /\ Level(doc, y - 1) \in Nat
  <2>1. x \in 0..Len(new) /\ x - 1 \in 0..Len(new) /\ y \in 0..Len(doc) /\ y - 1 \in 0..Len(doc)
    BY Levels
  <2> QED
    BY <2>1, Levels
<1>3. CASE doc[y].kind = "open"
  <2>1. Level(new, x) = Level(new, x - 1) + 1 /\ Level(doc, y) = Level(doc, y - 1) + 1
    BY <1>3, Levels
  <2> QED
    BY <1>2, <2>1
<1>4. CASE doc[y].kind = "empty"
  <2>1. Level(new, x) = Level(new, x - 1) /\ Level(doc, y) = Level(doc, y - 1)
    BY <1>4, Levels
  <2> QED
    BY <1>2, <2>1
<1>5. CASE doc[y].kind = "close"
  <2>1. Level(new, x) = Level(new, x - 1) - 1 /\ Level(doc, y) = Level(doc, y - 1) - 1
    BY <1>5, Levels
  <2> QED
    BY <1>2, <2>1
<1> QED
  BY <1>1, <1>3, <1>4, <1>5

\* A body's levels, wherever it stands.
StandsAt(doc, o, body) ==
    /\ o \in Nat /\ o + Len(body) <= Len(doc)
    /\ \A k \in 1..Len(body) : doc[o + k] = body[k]

LEMMA TextLevels ==
    ASSUME NEW doc, Parsed(doc), NEW body, Parsed(body), NEW o, StandsAt(doc, o, body)
    PROVE  \A k \in 0..Len(body) : Level(doc, o + k) = Level(doc, o) + Level(body, k)
<1> DEFINE b == Len(body)
           S == {k \in 0..b : Level(doc, o + k) = Level(doc, o) + Level(body, k)}
<1>0. /\ b \in Nat /\ Len(doc) \in Nat /\ o \in Nat /\ o + b <= Len(doc)
      /\ \A k \in 1..b : doc[o + k] = body[k]
  BY Levels DEF StandsAt
<1>1. 0 \in S
  <2>1. Level(doc, o) \in Nat /\ Level(body, 0) = 0 /\ o + 0 = o
    BY <1>0, Levels
  <2> QED
    BY <1>0, <2>1
<1>2. ASSUME NEW k \in 1..b, k - 1 \in S PROVE k \in S
  <2> DEFINE x == o + k
  <2>1. x \in 1..Len(doc) /\ x - 1 = o + (k - 1) /\ x - 1 \in 0..Len(doc) /\ o \in 0..Len(doc)
        /\ k - 1 \in 0..b /\ k \in 0..b
    BY <1>0
  <2>2. doc[x] = body[k]
    BY <1>0
  <2>3. Level(doc, x - 1) = Level(doc, o) + Level(body, k - 1)
    BY <1>2, <2>1
  <2> HIDE DEF x
  <2>5. /\ Level(doc, x) \in Nat /\ Level(doc, x - 1) \in Nat /\ Level(doc, o) \in Nat
        /\ Level(body, k) \in Nat /\ Level(body, k - 1) \in Nat
    BY <2>1, Levels
  <2>6. Level(doc, x) - Level(doc, x - 1) = Level(body, k) - Level(body, k - 1)
    BY <2>1, <2>2, LevelStep
  <2>7. Level(doc, x) = Level(doc, o) + Level(body, k)
    BY ONLY <2>3, <2>5, <2>6
  <2> QED
    BY <2>1, <2>7 DEF x
<1> HIDE DEF S
<1>3. 0..b \subseteq S
  BY <1>0, <1>1, <1>2, Induction
<1> QED
  BY <1>3 DEF S

(* Half an element, without its end tag, is no document, and no document is   *)
(* left where half an element is cut out or written over.                    *)
LEMMA ElementEnds ==
    ASSUME NEW doc, Parsed(doc), NEW c \in 1..Len(doc), doc[c].kind = "open"
    PROVE  /\ EndOf(doc, c) \in c + 1 .. Len(doc)
           /\ Level(doc, EndOf(doc, c) - 1) = Level(doc, c - 1) + 1
<1> DEFINE n == Len(doc)
           S == {m \in c + 1..n : Level(doc, m) < Level(doc, c)}
<1>1. n \in Nat /\ c \in Nat /\ \A i \in 0..n : Level(doc, i) \in Nat
  BY Levels
<1>2. Level(doc, c) = Level(doc, c - 1) + 1 /\ Level(doc, n) = 0 /\ Level(doc, c - 1) \in Nat
  <2>1. c - 1 \in 0..n
    BY <1>1
  <2> QED
    BY <2>1, Levels
<1>3. n \in S
  BY <1>1, <1>2
<1>4. PICK e \in S : \A m \in S : e <= m
  <2>1. S \subseteq Nat /\ S # {}
    BY <1>1, <1>3
  <2> HIDE DEF S
  <2> QED
    BY <2>1, LeastOf
<1>5. e \in c + 1..n /\ Level(doc, e) < Level(doc, c) /\ e \in 1..n /\ e - 1 \in c..n
  BY <1>1, <1>4
<1>6. ASSUME NEW h \in c..e - 1 PROVE Level(doc, h) >= Level(doc, c)
  <2>1. h \in 0..n /\ c \in 0..n
    BY <1>1, <1>5
  <2>2. Level(doc, h) \in Nat /\ Level(doc, c) \in Nat
    BY <1>1, <2>1
  <2>3. CASE h = c
    BY <2>2, <2>3
  <2>4. CASE h # c
    <3>1. h \in c + 1..n /\ ~(e <= h)
      BY <1>1, <1>5, <2>4
    <3>2. h \notin S
      BY <1>4, <3>1
    <3> QED
      BY <2>2, <3>1, <3>2
  <2> QED
    BY <2>3, <2>4
<1>7. IsOpen(doc, c, e - 1)
  <2>1. c \in 1..e - 1
    BY <1>1, <1>5
  <2> QED
    BY <1>6, <2>1 DEF IsOpen
<1>8. doc[e].kind = "close" /\ Level(doc, e - 1) = Level(doc, c)
  <2>1. Level(doc, e - 1) >= Level(doc, c) /\ e - 1 \in 0..n /\ e \in 0..n /\ c \in 0..n
    BY <1>1, <1>5, <1>6
  <2>2. Level(doc, e) \in Nat /\ Level(doc, e - 1) \in Nat /\ Level(doc, c) \in Nat
    BY <1>1, <2>1
  <2>3. doc[e].kind \in {"open", "close", "empty"}
    BY <1>5, TagType DEF Parsed
  <2>4. /\ doc[e].kind = "open"  => Level(doc, e) = Level(doc, e - 1) + 1
        /\ doc[e].kind = "empty" => Level(doc, e) = Level(doc, e - 1)
        /\ doc[e].kind = "close" => Level(doc, e) = Level(doc, e - 1) - 1
    BY <1>5, Levels
  <2> QED
    BY <1>5, <2>1, <2>2, <2>3, <2>4
<1>9. EndOf(doc, c) = e
  BY <1>5, <1>7, <1>8, EndIs
<1> QED
  BY <1>2, <1>5, <1>8, <1>9

\* Where two documents have the same tags, their levels rise and fall alike.
SameSlice(doc, d, new, o, l) ==
    /\ o \in Nat /\ d \in Nat /\ l \in Nat /\ o + l <= Len(new) /\ d + l <= Len(doc)
    /\ \A k \in 1..l : new[o + k] = doc[d + k]

LEMMA SliceLevels ==
    ASSUME NEW doc, Parsed(doc), NEW new, Parsed(new), NEW o, NEW d, NEW l, SameSlice(doc, d, new, o, l)
    PROVE  Level(new, o + l) - Level(new, o) = Level(doc, d + l) - Level(doc, d)
<1> DEFINE S == {k \in 0..l : Level(new, o + k) - Level(new, o) = Level(doc, d + k) - Level(doc, d)}
<1>0. /\ Len(doc) \in Nat /\ Len(new) \in Nat
      /\ \A i \in 0..Len(doc) : Level(doc, i) \in Nat
      /\ \A i \in 0..Len(new) : Level(new, i) \in Nat
      /\ o \in Nat /\ d \in Nat /\ l \in Nat /\ o + l <= Len(new) /\ d + l <= Len(doc)
  BY Levels DEF SameSlice
<1>1. 0 \in S
  <2>1. o \in 0..Len(new) /\ d \in 0..Len(doc) /\ o + 0 = o /\ d + 0 = d /\ 0 \in 0..l
    BY <1>0
  <2>2. Level(new, o) \in Nat /\ Level(doc, d) \in Nat
    BY <1>0, <2>1
  <2>3. Level(new, o + 0) - Level(new, o) = Level(doc, d + 0) - Level(doc, d)
    BY <2>1, <2>2
  <2> QED
    BY <2>1, <2>3
<1>2. ASSUME NEW k \in 1..l, k - 1 \in S PROVE k \in S
  <2> DEFINE x == o + k
             y == d + k
  <2>1. /\ x \in 1..Len(new) /\ y \in 1..Len(doc) /\ x - 1 = o + (k - 1) /\ y - 1 = d + (k - 1)
        /\ x \in 0..Len(new) /\ x - 1 \in 0..Len(new) /\ y \in 0..Len(doc) /\ y - 1 \in 0..Len(doc)
        /\ o \in 0..Len(new) /\ d \in 0..Len(doc) /\ k \in 0..l
    BY <1>0
  <2>2. new[x] = doc[y]
    BY DEF SameSlice
  <2>3. Level(new, x - 1) - Level(new, o) = Level(doc, y - 1) - Level(doc, d)
    BY <1>2, <2>1
  <2> HIDE DEF x, y
  <2>4. /\ Level(new, x) \in Nat /\ Level(new, x - 1) \in Nat /\ Level(new, o) \in Nat
        /\ Level(doc, y) \in Nat /\ Level(doc, y - 1) \in Nat /\ Level(doc, d) \in Nat
    BY <1>0, <2>1
  <2>5. Level(new, x) - Level(new, x - 1) = Level(doc, y) - Level(doc, y - 1)
    BY <2>1, <2>2, LevelStep
  <2>6. Level(new, x) - Level(new, o) = Level(doc, y) - Level(doc, d)
    BY ONLY <2>3, <2>4, <2>5
  <2> QED
    BY <2>1, <2>6 DEF x, y
<1> HIDE DEF S
<1>3. 0..l \subseteq S
  BY <1>0, <1>1, <1>2, Induction
<1>4. l \in 0..l
  BY <1>0
<1> QED
  BY <1>3, <1>4 DEF S

LEMMA HalfIsNone ==
    ASSUME NEW doc, Parsed(doc), NEW c \in 1..Len(doc), doc[c].kind = "open",
           NEW body, Parsed(body)
    PROVE  SubSeq(doc, c, EndOf(doc, c) - 1) # body
<1> SUFFICES ASSUME SubSeq(doc, c, EndOf(doc, c) - 1) = body PROVE FALSE
  OBVIOUS
<1> DEFINE e == EndOf(doc, c) - 1
           b == Len(body)
<1>1. Len(doc) \in Nat /\ e \in c..Len(doc) /\ Level(doc, e) = Level(doc, c - 1) + 1
  <2>1. Len(doc) \in Nat
    BY Levels
  <2> QED
    BY <2>1, ElementEnds
<1>2. body = SubSeq(doc, c, e)
  OBVIOUS
<1> HIDE DEF e
<1>3. c \in Int /\ e \in Int /\ \A j \in c..e : doc[j] \in Tag
  BY <1>1, TagType, ElementOfSeq DEF Parsed
<1>4. b = e - c + 1 /\ \A k \in 1..e - c + 1 : body[k] = doc[c + k - 1]
  BY <1>1, <1>2, <1>3, SubSeqProperties
<1>5. ASSUME NEW k \in 1..b PROVE doc[(c - 1) + k] = body[k]
  <2>1. k \in 1..e - c + 1 /\ (c - 1) + k = c + k - 1
    BY <1>1, <1>4
  <2> QED
    BY <1>4, <2>1
<1>6. c - 1 \in Nat /\ (c - 1) + b = e /\ e <= Len(doc) /\ b \in Nat /\ b \in 0..b
  BY <1>1, <1>4
<1>7. StandsAt(doc, c - 1, body)
  BY <1>5, <1>6 DEF StandsAt
<1>8. Level(doc, (c - 1) + b) = Level(doc, c - 1) + Level(body, b)
  BY <1>6, <1>7, TextLevels
<1>9. Level(body, b) = 0 /\ Level(doc, c - 1) \in Nat
  <2>1. c - 1 \in 0..Len(doc)
    BY <1>1
  <2> QED
    BY <2>1, Levels
<1> QED
  BY <1>1, <1>6, <1>8, <1>9

LEMMA HalfIsMissed ==
    ASSUME NEW doc, Parsed(doc), NEW c \in 1..Len(doc), doc[c].kind = "open",
           NEW body, body = <<>> \/ Parsed(body)
    PROVE  ~Parsed(Spliced(doc, c - 1, EndOf(doc, c) - 1, body))
<1> DEFINE e == EndOf(doc, c) - 1
           p == c - 1
           n == Len(doc)
           b == Len(body)
           new == Spliced(doc, p, e, body)
<1> SUFFICES ASSUME Parsed(new) PROVE FALSE
  OBVIOUS
<1>1. n \in Nat /\ p \in 0..n /\ e \in p..n /\ Level(doc, e) = Level(doc, p) + 1
      /\ p \in Nat /\ e \in Nat /\ e <= n
  <2>1. n \in Nat
    BY Levels
  <2> QED
    BY <2>1, ElementEnds
<1>2. body \in Seq(Tag) /\ doc \in Seq(Tag) /\ b \in Nat
  <2>1. doc \in Seq(Tag) /\ (Parsed(body) => body \in Seq(Tag))
    BY DEF Parsed
  <2>2. body = <<>> => body \in Seq(Tag)
    OBVIOUS
  <2> QED
    BY ONLY <2>1, <2>2, body = <<>> \/ Parsed(body)
<1>3. /\ new \in Seq(Tag) /\ Len(new) = p + b + (n - e)
      /\ \A k \in 1..p : new[k] = doc[k]
      /\ \A k \in 1..b : new[p + k] = body[k]
      /\ \A k \in 1..n - e : new[p + b + k] = doc[e + k]
  <2>1. Rewritten(doc, p, e, body, new)
    <3> HIDE DEF p, e
    <3> QED
      BY <1>1, <1>2, SplicedTags
  <2> HIDE DEF new, p, e
  <2> QED
    BY <2>1 DEF Rewritten
<1> HIDE DEF new, p, e, n, b
<1>4. Level(new, p) = Level(doc, p)
  <2>1. SameSlice(doc, 0, new, 0, p)
    BY <1>1, <1>2, <1>3 DEF n, SameSlice
  <2>2. Level(new, 0 + p) - Level(new, 0) = Level(doc, 0 + p) - Level(doc, 0)
    BY <2>1, SliceLevels
  <2>3. /\ 0 + p = p /\ p \in 0..Len(new) /\ p \in 0..Len(doc)
        /\ Level(new, 0) = 0 /\ Level(doc, 0) = 0
    BY <1>1, <1>2, <1>3, Levels DEF n
  <2>4. Level(new, p) \in Nat /\ Level(doc, p) \in Nat
    BY <2>3, Levels
  <2> QED
    BY ONLY <2>2, <2>3, <2>4
<1>5. Level(new, p + b) = Level(new, p)
  <2>1. CASE body = <<>>
    <3>1. b = 0 /\ p + b = p
      BY <1>1, <2>1 DEF b
    <3> QED
      BY <3>1
  <2>2. CASE Parsed(body)
    <3>1. StandsAt(new, p, body) /\ b \in 0..b
      BY <1>1, <1>2, <1>3 DEF StandsAt, b
    <3>2. Level(new, p + b) = Level(new, p) + Level(body, b)
      BY <2>2, <3>1, TextLevels DEF b
    <3>3. Level(body, b) = 0
      BY <2>2, Levels DEF b
    <3>4. Level(new, p) \in Nat
      <4>1. p \in 0..Len(new)
        BY <1>1, <1>2, <1>3
      <4> QED
        BY <4>1, Levels
    <3> QED
      BY <3>2, <3>3, <3>4
  <2> QED
    BY <2>1, <2>2
<1>6. Level(new, Len(new)) - Level(new, p + b) = Level(doc, n) - Level(doc, e)
  <2> DEFINE o == p + b
             l == n - e
  <2>1. o \in Nat /\ l \in Nat /\ o + l = Len(new) /\ e + l = n
    BY <1>1, <1>2, <1>3
  <2>2. \A k \in 1..l : new[o + k] = doc[e + k]
    BY <1>3
  <2> HIDE DEF o, l
  <2>3. SameSlice(doc, e, new, o, l)
    BY <1>1, <2>1, <2>2 DEF n, SameSlice
  <2>4. Level(new, o + l) - Level(new, o) = Level(doc, e + l) - Level(doc, e)
    BY <2>3, SliceLevels
  <2> QED
    BY <2>1, <2>4 DEF o
<1>7. Level(new, Len(new)) = 0 /\ Level(doc, n) = 0 /\ Level(doc, p) \in Nat
  <2>1. p \in 0..Len(doc)
    BY <1>1 DEF n
  <2> QED
    BY <2>1, Levels DEF n
<1> QED
  BY ONLY <1>1, <1>4, <1>5, <1>6, <1>7

Moved(p, body, j) == IF j <= p THEN j ELSE j + Len(body)

LEMMA GrownNumbers ==
    ASSUME NEW doc, NEW p, NEW body, NEW new, Grown(doc, p, body, new)
    PROVE  /\ Len(doc) \in Nat /\ Len(body) \in Nat \ {0} /\ p \in Nat /\ 0 < p /\ p < Len(doc)
           /\ Len(new) = Len(doc) + Len(body)
<1>1. Len(doc) \in Nat /\ Len(body) \in Nat \ {0}
  BY Levels DEF Grown
<1> QED
  BY <1>1 DEF Grown, Spread

LEMMA GrownLevels ==
    ASSUME NEW doc, NEW p, NEW body, NEW new, Grown(doc, p, body, new)
    PROVE  /\ \A k \in 0..p : Level(new, k) = Level(doc, k)
           /\ \A k \in 0..Len(body) : Level(new, p + k) = Level(doc, p) + Level(body, k)
           /\ \A k \in p..Len(doc) : Level(new, k + Len(body)) = Level(doc, k)
<1> DEFINE b == Len(body)
           S == {k \in 0..Len(doc) - p : Level(new, p + k + b) = Level(doc, p + k)}
<1>0. /\ Len(doc) \in Nat /\ b \in Nat \ {0} /\ p \in Nat /\ 0 < p /\ p < Len(doc)
      /\ Len(new) = Len(doc) + b
  BY GrownNumbers
<1>1. Parsed(doc) /\ Parsed(body) /\ Parsed(new) /\ Spread(doc, p, body, new)
  BY DEF Grown
<1>2. \A k \in 0..p : Level(new, k) = Level(doc, k)
  <2>1. \A k \in 1..p : new[k] = doc[k]
    BY <1>1 DEF Spread
  <2>2. \A k \in 0..p : OpenNames(new)[k] = OpenNames(doc)[k]
    <3>1. new \in Seq(Tag) /\ doc \in Seq(Tag) /\ p \in Nat /\ p <= Len(new) /\ p <= Len(doc)
      BY <1>0, <1>1 DEF Parsed
    <3>2. \A k \in 1..p : new[k].kind = doc[k].kind /\ new[k].name = doc[k].name
      BY <2>1
    <3> QED
      BY <3>1, <3>2, OpenNamesSame
  <2> QED
    BY <2>2 DEF Level
<1>3. \A k \in 0..b : Level(new, p + k) = Level(doc, p) + Level(body, k)
  <2>1. \A k \in 1..b : new[p + k] = body[k]
    BY <1>1 DEF Spread
  <2>2. p + b <= Len(new)
    BY <1>0
  <2>3. \A k \in 0..b : Level(new, p + k) = Level(new, p) + Level(body, k)
    <3>1. StandsAt(new, p, body)
      BY <1>0, <2>1, <2>2 DEF StandsAt
    <3> QED
      BY <1>1, <3>1, TextLevels
  <2>4. Level(new, p) = Level(doc, p)
    BY <1>0, <1>2
  <2> QED
    BY <2>3, <2>4
<1>4. 0 \in S
  <2>1. Level(new, p + b) = Level(doc, p) + Level(body, b)
    BY <1>0, <1>3
  <2>2. Level(body, b) = 0 /\ Level(doc, p) \in Nat
    BY <1>0, <1>1, Levels
  <2> QED
    BY <1>0, <2>1, <2>2
<1>5. ASSUME NEW k \in 1..Len(doc) - p, k - 1 \in S PROVE k \in S
  <2> DEFINE y == p + k
             x == y + b
  <2>1. /\ x \in 1..Len(new) /\ y \in 1..Len(doc) /\ y \in p + 1..Len(doc)
        /\ x - 1 = p + (k - 1) + b /\ y - 1 = p + (k - 1)
    BY <1>0
  <2>2. new[x] = doc[y]
    BY <1>1, <2>1 DEF Spread
  <2>3. Level(new, x - 1) = Level(doc, y - 1)
    BY <1>5, <2>1
  <2> HIDE DEF x, y
  <2>4. Level(new, x) - Level(new, x - 1) = Level(doc, y) - Level(doc, y - 1)
    BY <1>1, <2>1, <2>2, LevelStep
  <2>5. /\ Level(new, x) \in Nat /\ Level(new, x - 1) \in Nat
        /\ Level(doc, y) \in Nat /\ Level(doc, y - 1) \in Nat
    <3>1. x \in 0..Len(new) /\ x - 1 \in 0..Len(new) /\ y \in 0..Len(doc) /\ y - 1 \in 0..Len(doc)
      BY <1>0, <2>1
    <3> QED
      BY <1>1, <3>1, Levels
  <2>6. Level(new, x) = Level(doc, y)
    BY ONLY <2>3, <2>4, <2>5
  <2>7. k \in 0..Len(doc) - p
    BY <1>0
  <2> QED
    BY <2>6, <2>7 DEF x, y
<1>6. ASSUME NEW k \in p..Len(doc) PROVE Level(new, k + b) = Level(doc, k)
  <2> DEFINE h == k - p
             top == Len(doc) - p
  <2>1. top \in Nat /\ h \in 0..top /\ p + h = k
    BY <1>0
  <2>2. 0..top \subseteq S
    <3> HIDE DEF S
    <3>1. top \in Nat /\ \A z \in 1..top : z - 1 \in S => z \in S
      BY <1>5, <2>1
    <3> HIDE DEF top
    <3> QED
      BY <1>4, <3>1, Induction
  <2>3. Level(new, p + h + b) = Level(doc, p + h)
    BY <2>1, <2>2
  <2> QED
    BY <2>1, <2>3
<1> QED
  BY <1>2, <1>3, <1>6

LEMMA InsertedGrows ==
    ASSUME NEW doc, Parsed(doc), NEW body, Parsed(body), NEW p \in 0..Len(doc),
           NEW new, new = Spliced(doc, p, p, body), Parsed(new)
    PROVE  Grown(doc, p, body, new)
<1> DEFINE b == Len(body)
<1>0. Len(doc) \in Nat \ {0} /\ b \in Nat \ {0} /\ doc \in Seq(Tag) /\ body \in Seq(Tag) /\ new \in Seq(Tag)
  <2>1. Len(doc) \in Nat \ {0} /\ b \in Nat \ {0}
    BY Levels
  <2>2. doc \in Seq(Tag) /\ body \in Seq(Tag) /\ new \in Seq(Tag)
    BY DEF Parsed
  <2> QED
    BY <2>1, <2>2
<1>1. Spread(doc, p, body, new)
  BY <1>0, InsertedTags
<1>2. /\ Len(new) = Len(doc) + b
      /\ \A k \in 1..p : new[k] = doc[k]
      /\ \A k \in 1..b : new[p + k] = body[k]
  BY <1>1 DEF Spread
<1>3. \A k \in 1..Len(new) - 1 : Level(new, k) >= 1
  BY Levels
<1>4. p # 0
  <2> SUFFICES ASSUME p = 0 PROVE FALSE
    OBVIOUS
  <2>1. \A k \in 1..b : new[0 + k] = body[k]
    BY <1>2
  <2>2. 0 + b <= Len(new) /\ 0 \in Nat /\ b \in 0..b /\ 0 + b = b /\ b \in 1..Len(new) - 1
    BY <1>0, <1>2
  <2>3. Level(new, 0 + b) = Level(new, 0) + Level(body, b)
    <3>1. StandsAt(new, 0, body)
      BY <2>1, <2>2 DEF StandsAt
    <3>2. \A k \in 0..b : Level(new, 0 + k) = Level(new, 0) + Level(body, k)
      BY <3>1, TextLevels
    <3> QED
      BY <2>2, <3>2
  <2>4. Level(new, 0) = 0 /\ Level(body, b) = 0
    BY Levels
  <2> QED
    BY <1>3, <2>2, <2>3, <2>4
<1>5. p # Len(doc)
  <2> SUFFICES ASSUME p = Len(doc) PROVE FALSE
    OBVIOUS
  <2>1. \A k \in 1..p : new[k].kind = doc[k].kind /\ new[k].name = doc[k].name
    BY <1>2
  <2>2. p \in Nat /\ p <= Len(new) /\ p <= Len(doc) /\ p \in 0..p /\ p \in 1..Len(new) - 1
    BY <1>0, <1>2
  <2>3. OpenNames(new)[p] = OpenNames(doc)[p]
    <3>1. \A k \in 0..p : OpenNames(new)[k] = OpenNames(doc)[k]
      BY <1>0, <2>1, <2>2, OpenNamesSame
    <3> QED
      BY <2>2, <3>1
  <2>4. Level(new, p) = 0
    <3>1. Level(doc, Len(doc)) = 0
      BY Levels
    <3> QED
      BY <2>3, <3>1 DEF Level
  <2> QED
    BY <1>3, <2>2, <2>4
<1>6. p \in 1..Len(doc) - 1
  BY <1>0, <1>4, <1>5
<1> QED
  BY <1>1, <1>6 DEF Grown

LEMMA GrownOpenBefore ==
    ASSUME NEW doc, NEW p, NEW body, NEW new, Grown(doc, p, body, new), NEW k \in 0..p, NEW j
    PROVE  IsOpen(new, j, k) <=> IsOpen(doc, j, k)
<1>1. p \in Nat /\ \A h \in 1..p : new[h] = doc[h]
  BY GrownNumbers DEF Grown, Spread
<1>2. \A h \in 0..p : Level(new, h) = Level(doc, h)
  BY GrownLevels
<1>3. ASSUME j \in 1..k PROVE IsOpen(new, j, k) <=> IsOpen(doc, j, k)
  <2>1. j \in 1..p /\ j \in 0..p /\ \A h \in j..k : h \in 0..p
    BY <1>1, <1>3
  <2> QED
    BY <1>1, <1>2, <2>1 DEF IsOpen
<1> QED
  BY <1>3 DEF IsOpen

LEMMA GrownTag ==
    ASSUME NEW doc, NEW p, NEW body, NEW new, Grown(doc, p, body, new), NEW j \in 1..Len(doc)
    PROVE  LET m == Moved(p, body, j)
           IN  /\ m \in 1..Len(new) /\ new[m] = doc[j]
               /\ Level(new, m) = Level(doc, j)
               /\ m <= p <=> j <= p
<1> DEFINE b == Len(body)
           m == Moved(p, body, j)
<1>0. /\ Len(doc) \in Nat /\ b \in Nat \ {0} /\ p \in Nat /\ 0 < p /\ p < Len(doc)
      /\ Len(new) = Len(doc) + b
  BY GrownNumbers
<1>1. CASE j <= p
  <2>1. m = j /\ j \in 1..p /\ j \in 0..p /\ j \in 1..Len(new)
    BY <1>0, <1>1 DEF Moved
  <2>2. new[j] = doc[j]
    BY <2>1 DEF Grown, Spread
  <2>3. Level(new, j) = Level(doc, j)
    BY <2>1, GrownLevels
  <2> QED
    BY <1>1, <2>1, <2>2, <2>3
<1>2. CASE ~(j <= p)
  <2>1. m = j + b /\ j \in p + 1..Len(doc) /\ j \in p..Len(doc) /\ j + b \in 1..Len(new) /\ ~(j + b <= p)
    BY <1>0, <1>2 DEF Moved
  <2>2. new[j + b] = doc[j]
    BY <2>1 DEF Grown, Spread
  <2>3. Level(new, j + b) = Level(doc, j)
    BY <2>1, GrownLevels
  <2> QED
    BY <1>2, <2>1, <2>2, <2>3
<1> QED
  BY <1>1, <1>2

LEMMA GrownOpenAfter ==
    ASSUME NEW doc, NEW p, NEW body, NEW new, Grown(doc, p, body, new),
           NEW k \in p..Len(doc), NEW j, IsOpen(doc, j, k)
    PROVE  IsOpen(new, Moved(p, body, j), k + Len(body))
<1> DEFINE b == Len(body)
           m == Moved(p, body, j)
<1>0. /\ Len(doc) \in Nat /\ b \in Nat \ {0} /\ p \in Nat /\ 0 < p /\ p < Len(doc)
      /\ Len(new) = Len(doc) + b
  BY GrownNumbers
<1>1. j \in 1..k /\ doc[j].kind = "open" /\ \A h \in j..k : Level(doc, h) >= Level(doc, j)
  BY DEF IsOpen
<1>2. j \in 1..Len(doc)
  BY <1>0, <1>1
<1>3. new[m] = doc[j] /\ Level(new, m) = Level(doc, j)
  BY <1>2, GrownTag
<1>4. m = IF j <= p THEN j ELSE j + b
  BY DEF Moved
<1>5. m \in 1..k + b
  BY <1>0, <1>1, <1>4
<1> HIDE DEF m
<1>6. ASSUME NEW h \in m..k + b PROVE Level(new, h) >= Level(doc, j)
  <2>1. CASE h <= p
    <3>1. h \in 0..p /\ h \in j..k
      BY <1>0, <1>1, <1>4, <2>1
    <3> QED
      BY <1>1, <3>1, GrownLevels
  <2>2. CASE p < h /\ h <= p + b
    <3> DEFINE x == h - p
    <3>1. x \in 0..b /\ p + x = h /\ p \in j..k /\ p \in 0..Len(doc)
      BY <1>0, <1>1, <1>4, <2>2
    <3>2. Level(new, p + x) = Level(doc, p) + Level(body, x)
      BY <3>1, GrownLevels
    <3>3. Level(body, x) \in Nat /\ Level(doc, p) \in Nat /\ Level(doc, j) \in Nat
      <4>1. j \in 0..Len(doc)
        BY <1>0, <1>2
      <4> QED
        BY <3>1, <4>1, Levels DEF Grown
    <3>4. Level(doc, p) >= Level(doc, j)
      BY <1>1, <3>1
    <3> HIDE DEF x
    <3> QED
      BY ONLY <3>1, <3>2, <3>3, <3>4
  <2>3. CASE p + b < h
    <3> DEFINE x == h - b
    <3>1. x \in p..Len(doc) /\ x + b = h /\ x \in j..k
      BY <1>0, <1>1, <1>4, <2>3
    <3>2. Level(new, x + b) = Level(doc, x)
      BY <3>1, GrownLevels
    <3>3. Level(doc, x) >= Level(doc, j)
      BY <1>1, <3>1
    <3> HIDE DEF x
    <3> QED
      BY ONLY <3>1, <3>2, <3>3
  <2> QED
    BY <1>0, <2>1, <2>2, <2>3
<1>7. IsOpen(new, m, k + b)
  BY <1>1, <1>3, <1>5, <1>6 DEF IsOpen
<1> QED
  BY <1>7 DEF m

LEMMA GrownParentBefore ==
    ASSUME NEW doc, NEW p, NEW body, NEW new, Grown(doc, p, body, new), NEW a \in 1..p
    PROVE  Parent(new, a) = Parent(doc, a) /\ Parent(doc, a) \in 0..a - 1
<1>0. /\ Len(doc) \in Nat /\ p \in Nat /\ p < Len(doc) /\ a \in 1..Len(doc) /\ a \in 1..Len(new)
      /\ a - 1 \in 0..p /\ Parsed(doc) /\ Parsed(new)
  <2>1. Len(doc) \in Nat /\ p \in Nat /\ p < Len(doc) /\ Len(body) \in Nat /\ Len(new) = Len(doc) + Len(body)
    BY GrownNumbers
  <2>2. Parsed(doc) /\ Parsed(new)
    BY DEF Grown
  <2> QED
    BY <2>1, <2>2
<1> DEFINE q == Parent(doc, a)
<1>1. \/ a = 1 /\ q = 0
      \/ /\ a > 1 /\ IsOpen(doc, q, a - 1) /\ Level(doc, q) = Level(doc, a - 1)
  BY <1>0, ParentOf
<1>2. CASE a = 1 /\ q = 0
  <2>1. Parent(new, 1) = 0
    BY <1>0, RootIs
  <2> QED
    BY <1>2, <2>1
<1>3. CASE a > 1 /\ IsOpen(doc, q, a - 1) /\ Level(doc, q) = Level(doc, a - 1)
  <2>1. IsOpen(new, q, a - 1)
    BY <1>0, <1>3, GrownOpenBefore
  <2>2. q \in 1..a - 1
    BY <1>3 DEF IsOpen
  <2>3. q \in 0..p /\ q \in 0..a - 1
    BY <1>0, <2>2
  <2>4. Level(new, q) = Level(new, a - 1)
    BY <1>0, <1>3, <2>3, GrownLevels
  <2> HIDE DEF q
  <2>5. Parent(new, a) = q
    BY <1>0, <2>1, <2>4, ParentIs
  <2> QED
    BY <2>3, <2>5 DEF q
<1> QED
  BY <1>1, <1>2, <1>3

LEMMA GrownParentAfter ==
    ASSUME NEW doc, NEW p, NEW body, NEW new, Grown(doc, p, body, new), NEW a \in p + 1..Len(doc)
    PROVE  /\ Parent(new, a + Len(body)) = Moved(p, body, Parent(doc, a))
           /\ Parent(doc, a) \in 1..a - 1
<1> DEFINE b == Len(body)
           q == Parent(doc, a)
           m == Moved(p, body, q)
<1>0. /\ Len(doc) \in Nat /\ b \in Nat \ {0} /\ p \in Nat /\ 0 < p /\ p < Len(doc)
      /\ Len(new) = Len(doc) + b
  BY GrownNumbers
<1>1. Parsed(doc) /\ Parsed(new)
  BY DEF Grown
<1>2. a \in 1..Len(doc) /\ a # 1 /\ a - 1 \in p..Len(doc) /\ a + b \in 1..Len(new) /\ (a + b) - 1 = (a - 1) + b
  BY <1>0
<1>3. IsOpen(doc, q, a - 1) /\ Level(doc, q) = Level(doc, a - 1)
  BY <1>1, <1>2, ParentOf
<1>4. q \in 1..a - 1
  BY <1>3 DEF IsOpen
<1>5. q \in 1..Len(doc)
  BY <1>2, <1>4
<1> HIDE DEF q
<1>6. IsOpen(new, m, (a - 1) + b)
  BY <1>2, <1>3, GrownOpenAfter
<1>7. Level(new, m) = Level(doc, q)
  BY <1>5, GrownTag
<1>8. Level(new, (a - 1) + b) = Level(doc, a - 1)
  BY <1>2, GrownLevels
<1> HIDE DEF m
<1>9. Parent(new, a + b) = m
  <2> DEFINE x == a + b
  <2>1. x \in 1..Len(new) /\ IsOpen(new, m, x - 1) /\ Level(new, m) = Level(new, x - 1)
    BY <1>2, <1>3, <1>6, <1>7, <1>8
  <2> HIDE DEF x
  <2>2. Parent(new, x) = m
    BY <1>1, <2>1, ParentIs
  <2> QED
    BY <2>2 DEF x
<1> QED
  BY <1>4, <1>9 DEF m, q

LEMMA GrownParentInside ==
    ASSUME NEW doc, NEW p, NEW body, NEW new, Grown(doc, p, body, new), NEW k \in 1..Len(body)
    PROVE  /\ k = 1 => /\ Parent(new, p + k) \in 1..p /\ IsOpen(doc, Parent(new, p + k), p)
                       /\ Level(doc, Parent(new, p + k)) = Level(doc, p)
           /\ k # 1 => Parent(new, p + k) \in p + 1..p + Len(body)
<1> DEFINE b == Len(body)
           x == p + k
<1>0. /\ Len(doc) \in Nat /\ b \in Nat \ {0} /\ p \in Nat /\ 0 < p /\ p < Len(doc)
      /\ Len(new) = Len(doc) + b
  BY GrownNumbers
<1>1. Parsed(doc) /\ Parsed(new) /\ Parsed(body)
  BY DEF Grown
<1>2. x \in 1..Len(new) /\ x # 1 /\ x - 1 = p + (k - 1)
  BY <1>0
<1>3. CASE k = 1
  <2> DEFINE q == Parent(new, x)
  <2>1. IsOpen(new, q, x - 1) /\ Level(new, q) = Level(new, x - 1)
    <3> HIDE DEF x
    <3> QED
      BY <1>1, <1>2, ParentOf
  <2>2. x - 1 = p /\ p \in 0..p
    BY <1>0, <1>2, <1>3
  <2>3. q \in 1..p
    BY <2>1, <2>2 DEF IsOpen
  <2> HIDE DEF q
  <2>4. IsOpen(doc, q, p)
    BY <2>1, <2>2, GrownOpenBefore
  <2>5. Level(doc, q) = Level(doc, p)
    <3>1. q \in 0..p
      BY <1>0, <2>3
    <3>2. Level(new, q) = Level(doc, q) /\ Level(new, p) = Level(doc, p)
      BY <2>2, <3>1, GrownLevels
    <3> QED
      BY <2>1, <2>2, <3>2
  <2> QED
    BY <1>3, <2>3, <2>4, <2>5 DEF q
<1>4. CASE k # 1
  <2> DEFINE j == Parent(body, k)
             m == p + j
  <2>1. IsOpen(body, j, k - 1) /\ Level(body, j) = Level(body, k - 1)
    BY <1>1, <1>4, ParentOf
  <2>2. j \in 1..k - 1 /\ body[j].kind = "open" /\ \A h \in j..k - 1 : Level(body, h) >= Level(body, j)
    BY <2>1 DEF IsOpen
  <2> HIDE DEF j
  <2>3. m \in 1..x - 1 /\ m \in p + 1..p + b /\ j \in 1..b /\ j \in 0..b /\ k - 1 \in 0..b
    BY <1>0, <1>2, <2>2
  <2>4. new[m] = body[j]
    BY <2>3 DEF Grown, Spread
  <2>5. \A h \in 0..b : Level(new, p + h) = Level(doc, p) + Level(body, h)
    BY GrownLevels
  <2>6. Level(new, m) = Level(doc, p) + Level(body, j) /\ Level(new, x - 1) = Level(doc, p) + Level(body, k - 1)
    BY <1>2, <2>3, <2>5
  <2>7. ASSUME NEW h \in m..x - 1 PROVE Level(new, h) >= Level(new, m)
    <3> DEFINE y == h - p
    <3>1. y \in 0..b /\ p + y = h /\ y \in j..k - 1 /\ p \in 0..Len(doc)
      BY <1>0, <1>2, <2>2
    <3>2. Level(new, p + y) = Level(doc, p) + Level(body, y)
      BY <2>5, <3>1
    <3>3. Level(body, y) \in Nat /\ Level(doc, p) \in Nat /\ Level(body, j) \in Nat
      BY <1>1, <2>3, <3>1, Levels
    <3>4. Level(body, y) >= Level(body, j)
      BY <2>2, <3>1
    <3> HIDE DEF y, m
    <3> QED
      BY ONLY <2>6, <3>1, <3>2, <3>3, <3>4
  <2>8. IsOpen(new, m, x - 1)
    <3> HIDE DEF m, x
    <3> QED
      BY <2>2, <2>3, <2>4, <2>7 DEF IsOpen
  <2>9. Level(new, m) = Level(new, x - 1)
    BY <2>1, <2>6
  <2> HIDE DEF m, x
  <2>10. Parent(new, x) = m
    BY <1>1, <1>2, <2>8, <2>9, ParentIs
  <2> QED
    BY <1>4, <2>3, <2>10 DEF x
<1> QED
  BY <1>3, <1>4

-----------------------------------------------------------------------------
(* What the selector selects in the document that has grown.                *)

LEMMA RankBefore ==
    ASSUME NEW doc, NEW p, NEW body, NEW new, Grown(doc, p, body, new), NEW a \in 1..p, NEW step
    PROVE  RankOf(new, a, step) = RankOf(doc, a, step)
<1> DEFINE here == {j \in Alike(doc, a, step) : j <= a}
           there == {j \in Alike(new, a, step) : j <= a}
<1>0. /\ Len(doc) \in Nat /\ p \in Nat /\ p < Len(doc) /\ Len(body) \in Nat
      /\ Len(new) = Len(doc) + Len(body)
  BY GrownNumbers
<1>1. \A j \in 1..p : new[j] = doc[j]
  BY DEF Grown, Spread
<1>2. \A j \in 1..p : Parent(new, j) = Parent(doc, j)
  BY GrownParentBefore
<1>3. \A j \in here : j \in 1..p
  BY <1>0 DEF Alike, Elements
<1>4. \A j \in there : j \in 1..p
  BY <1>0 DEF Alike, Elements
<1>5. \A j \in 1..p : j \in Elements(new) <=> j \in Elements(doc)
  BY <1>0, <1>1 DEF Elements
<1>6. \A j \in 1..p : j \in Alike(new, a, step) <=> j \in Alike(doc, a, step)
  BY <1>1, <1>2, <1>5 DEF Alike
<1>7. there = here
  BY <1>3, <1>4, <1>6
<1> QED
  BY <1>7 DEF RankOf

LEMMA PrefixSelected ==
    ASSUME NEW doc, NEW p, NEW body, NEW new, Grown(doc, p, body, new),
           NEW sel, SelectorOf(sel), NEW k \in 0..Len(sel), NEW a \in 0..p
    PROVE  a \in SelectedUpTo(new, sel)[k] <=> a \in SelectedUpTo(doc, sel)[k]
<1> DEFINE was(h) == SelectedUpTo(doc, sel)[h]
           now(h) == SelectedUpTo(new, sel)[h]
           S == {h \in 0..Len(sel) : \A c \in 0..p : c \in now(h) <=> c \in was(h)}
<1>0. /\ Len(doc) \in Nat /\ p \in Nat /\ p < Len(doc) /\ Len(body) \in Nat
      /\ Len(new) = Len(doc) + Len(body)
  BY GrownNumbers
<1>1. Len(sel) \in Nat /\ now(0) = {0} /\ was(0) = {0}
  BY SelectedStep
<1>2. 0 \in S
  BY <1>1
<1>3. ASSUME NEW h \in 1..Len(sel), h - 1 \in S PROVE h \in S
  <2> SUFFICES ASSUME NEW c \in 0..p PROVE c \in now(h) <=> c \in was(h)
    BY <1>1
  <2>1. CASE c = 0
    <3>1. c \notin 1..Len(new) /\ c \notin 1..Len(doc)
      BY <2>1
    <3> QED
      BY <3>1, SelectedIs
  <2>2. CASE c # 0
    <3>1. c \in 1..p /\ c \in 1..Len(doc) /\ c \in 1..Len(new)
      BY <1>0, <2>2
    <3>2. new[c] = doc[c]
      BY <3>1 DEF Grown, Spread
    <3>3. Parent(new, c) = Parent(doc, c) /\ Parent(doc, c) \in 0..p
      <4>1. Parent(new, c) = Parent(doc, c) /\ Parent(doc, c) \in 0..c - 1
        BY <3>1, GrownParentBefore
      <4> QED
        BY <1>0, <3>1, <4>1
    <3>4. RankOf(new, c, sel[h]) = RankOf(doc, c, sel[h])
      BY <3>1, RankBefore
    <3>5. Parent(new, c) \in now(h - 1) <=> Parent(doc, c) \in was(h - 1)
      BY <1>3, <3>3
    <3>6. c \in now(h) <=>
             /\ c \in 1..Len(new) /\ new[c].kind # "close" /\ Parent(new, c) \in now(h - 1)
             /\ NameMatches(sel[h], new[c]) /\ AttMatches(sel[h], new[c])
             /\ sel[h].position \in {Anywhere, RankOf(new, c, sel[h])}
      BY SelectedIs
    <3>7. c \in was(h) <=>
             /\ c \in 1..Len(doc) /\ doc[c].kind # "close" /\ Parent(doc, c) \in was(h - 1)
             /\ NameMatches(sel[h], doc[c]) /\ AttMatches(sel[h], doc[c])
             /\ sel[h].position \in {Anywhere, RankOf(doc, c, sel[h])}
      BY SelectedIs
    <3> HIDE DEF now, was
    <3> QED
      BY ONLY <3>1, <3>2, <3>4, <3>5, <3>6, <3>7
  <2> QED
    BY <2>1, <2>2
<1> HIDE DEF S
<1>4. 0..Len(sel) \subseteq S
  BY <1>1, <1>2, <1>3, Induction
<1> QED
  BY <1>4 DEF S

LEMMA MovedApart ==
    ASSUME NEW doc, NEW p, NEW body, NEW new, Grown(doc, p, body, new),
           NEW q \in 1..Len(doc), NEW j \in 1..Len(doc)
    PROVE  /\ Moved(p, body, q) = Moved(p, body, j) <=> q = j
           /\ Moved(p, body, q) \notin p + 1..p + Len(body)
           /\ j <= p => (Moved(p, body, q) = j <=> q = j)
<1>0. /\ Len(doc) \in Nat /\ Len(body) \in Nat \ {0} /\ p \in Nat
  BY GrownNumbers
<1> QED
  BY <1>0 DEF Moved

(* Siblings counted: the same as before, but for those of the body.         *)
LEMMA MovedCount ==
    ASSUME NEW doc, NEW p, NEW body, NEW new, Grown(doc, p, body, new), NEW sel,
           NEW q \in 1..Len(doc), Parent(new, p + 1) # Moved(p, body, q), NEW c \in p..Len(doc)
    PROVE  Cardinality(Children(new, sel, Moved(p, body, q), c + Len(body)))
             = Cardinality(Children(doc, sel, q, c))
<1> DEFINE b == Len(body)
           m == Moved(p, body, q)
           now(x) == Children(new, sel, m, x)
           was(x) == Children(doc, sel, q, x)
           S == {h \in 0..Len(doc) - p : Cardinality(now((p + h) + b)) = Cardinality(was(p + h))}
<1>0. /\ Len(doc) \in Nat /\ b \in Nat \ {0} /\ p \in Nat /\ 0 < p /\ p < Len(doc)
      /\ Len(new) = Len(doc) + b
  BY GrownNumbers
<1>1. Parsed(doc) /\ Parsed(new)
  BY DEF Grown
<1>2. m \in 1..Len(new) /\ Level(new, m) = Level(doc, q) /\ m \notin p + 1..p + b /\ (m <= p <=> q <= p)
      /\ m = IF q <= p THEN q ELSE q + b
  BY GrownTag, MovedApart DEF Moved
<1>3. \A j \in 1..p : new[j] = doc[j] /\ Parent(new, j) = Parent(doc, j) /\ Parent(doc, j) \in 0..p - 1
  <2> SUFFICES ASSUME NEW j \in 1..p
               PROVE  new[j] = doc[j] /\ Parent(new, j) = Parent(doc, j) /\ Parent(doc, j) \in 0..p - 1
    OBVIOUS
  <2>1. Parent(new, j) = Parent(doc, j) /\ Parent(doc, j) \in 0..j - 1
    BY GrownParentBefore
  <2>2. new[j] = doc[j]
    BY DEF Grown, Spread
  <2> QED
    BY <1>0, <2>1, <2>2
<1>4. \A x \in p + 1..p + b : Parent(new, x) # m
  <2> SUFFICES ASSUME NEW x \in p + 1..p + b PROVE Parent(new, x) # m
    OBVIOUS
  <2> DEFINE k == x - p
  <2>1. k \in 1..b /\ p + k = x
    BY <1>0
  <2>2. k # 1 => Parent(new, p + k) \in p + 1..p + b
    BY <2>1, GrownParentInside
  <2>3. k = 1 => Parent(new, p + k) # m
    BY <1>0
  <2> HIDE DEF k, m
  <2> QED
    BY <1>2, <2>1, <2>2, <2>3
<1>5. now(p + b) = was(p)
  <2>1. ASSUME NEW x \in now(p + b) PROVE x \in was(p)
    <3>1. /\ x \in 1..Len(new) /\ new[x].kind # "close" /\ x <= p + b /\ Parent(new, x) = m
          /\ NameMatches(sel[Level(new, m) + 1], new[x])
      BY <2>1 DEF Children, Elements
    <3>2. x \in 1..p
      BY <1>0, <1>4, <3>1
    <3>3. x \in 1..Len(doc) /\ new[x] = doc[x] /\ Parent(doc, x) = m /\ m <= p
      BY <1>0, <1>3, <3>1, <3>2
    <3>4. m = q
      BY <1>2, <3>3
    <3> HIDE DEF m
    <3> QED
      BY <1>0, <1>2, <3>1, <3>2, <3>3, <3>4 DEF Children, Elements
  <2>2. ASSUME NEW x \in was(p) PROVE x \in now(p + b)
    <3>1. /\ x \in 1..Len(doc) /\ doc[x].kind # "close" /\ x <= p /\ Parent(doc, x) = q
          /\ NameMatches(sel[Level(doc, q) + 1], doc[x])
      BY <2>2 DEF Children, Elements
    <3>2. x \in 1..p /\ x \in 1..Len(new) /\ x <= p + b
      BY <1>0, <3>1
    <3>3. new[x] = doc[x] /\ Parent(new, x) = q /\ q <= p
      BY <1>0, <1>3, <3>1, <3>2
    <3>4. m = q
      BY <1>2, <3>3
    <3> HIDE DEF m
    <3> QED
      BY <1>2, <3>1, <3>2, <3>3, <3>4 DEF Children, Elements
  <2> HIDE DEF now, was
  <2> QED
    BY <2>1, <2>2
<1>6. 0 \in S
  BY <1>0, <1>5
<1>7. ASSUME NEW h \in 1..Len(doc) - p, h - 1 \in S PROVE h \in S
  <2> DEFINE x == p + h
             y == x + b
             fresh(d, st, j, i) == d[i].kind # "close" /\ Parent(d, i) = j /\ NameMatches(st, d[i])
  <2>1. x \in p + 1..Len(doc) /\ x \in 1..Len(doc) /\ y \in 1..Len(new) /\ p + (h - 1) = x - 1 /\ (x - 1) + b = y - 1
    BY <1>0
  <2>2. Cardinality(now(y - 1)) = Cardinality(was(x - 1))
    <3>1. Cardinality(now((p + (h - 1)) + b)) = Cardinality(was(p + (h - 1)))
      BY <1>7
    <3> HIDE DEF now, was, x, y
    <3> QED
      BY <2>1, <3>1
  <2> HIDE DEF x, y
  <2>3. new[y] = doc[x]
    BY <2>1 DEF Grown, Spread, y
  <2>4. Parent(new, y) = Moved(p, body, Parent(doc, x)) /\ Parent(doc, x) \in 1..x - 1
    BY <2>1, GrownParentAfter DEF y
  <2>5. Parent(new, y) = m <=> Parent(doc, x) = q
    <3>1. Parent(doc, x) \in 1..Len(doc)
      BY <2>1, <2>4
    <3> QED
      BY <2>4, <3>1, MovedApart
  <2>6. fresh(new, sel[Level(new, m) + 1], m, y) <=> fresh(doc, sel[Level(doc, q) + 1], q, x)
    BY <1>2, <2>3, <2>5
  <2>7. /\ Cardinality(now(y - 1)) \in Nat
        /\ ~fresh(new, sel[Level(new, m) + 1], m, y) => now(y) = now(y - 1)
        /\ fresh(new, sel[Level(new, m) + 1], m, y) => Cardinality(now(y)) = Cardinality(now(y - 1)) + 1
    <3> HIDE DEF m
    <3> QED
      BY <1>1, <2>1, ChildrenGrow
  <2>8. /\ ~fresh(doc, sel[Level(doc, q) + 1], q, x) => was(x) = was(x - 1)
        /\ fresh(doc, sel[Level(doc, q) + 1], q, x) => Cardinality(was(x)) = Cardinality(was(x - 1)) + 1
    BY <1>1, <2>1, ChildrenGrow
  <2>9. Cardinality(now(y)) = Cardinality(was(x))
    <3> HIDE DEF now, was, fresh, m
    <3> QED
      BY ONLY <2>2, <2>6, <2>7, <2>8
  <2> QED
    BY <2>9 DEF x, y
<1>8. 0..Len(doc) - p \subseteq S
  <2> HIDE DEF S
  <2>1. Len(doc) - p \in Nat
    BY <1>0
  <2> QED
    BY <1>6, <1>7, <2>1, Induction
<1>9. c - p \in S /\ p + (c - p) = c
  <2> HIDE DEF S
  <2> QED
    BY <1>0, <1>8
<1>10. Cardinality(now((p + (c - p)) + b)) = Cardinality(was(p + (c - p)))
  BY <1>9
<1> HIDE DEF now, was
<1>11. Cardinality(now(c + b)) = Cardinality(was(c))
  BY <1>9, <1>10
<1> QED
  BY <1>11 DEF now, was, m

\* The siblings of the body for which a rank counts are not selected.
Unranked(doc, p, body, new, sel) ==
    \A k \in 1..Len(sel) : \A a \in p + 1..Len(doc) :
        a + Len(body) \in SelectedUpTo(new, sel)[k] /\ Parent(new, a + Len(body)) = Parent(new, p + 1)
            => sel[k].position = Anywhere

LEMMA MovedSelected ==
    ASSUME NEW doc, NEW p, NEW body, NEW new, Grown(doc, p, body, new),
           NEW sel, SelectorOf(sel), Unranked(doc, p, body, new, sel),
           NEW k \in 1..Len(sel), NEW a \in p + 1..Len(doc),
           a + Len(body) \in SelectedUpTo(new, sel)[k]
    PROVE  a \in SelectedUpTo(doc, sel)[k]
<1> DEFINE b == Len(body)
           was(h) == SelectedUpTo(doc, sel)[h]
           now(h) == SelectedUpTo(new, sel)[h]
           S == {h \in 0..Len(sel) : h >= 1 => \A c \in p + 1..Len(doc) : c + b \in now(h) => c \in was(h)}
<1>0. /\ Len(doc) \in Nat /\ b \in Nat \ {0} /\ p \in Nat /\ 0 < p /\ p < Len(doc)
      /\ Len(new) = Len(doc) + b
  BY GrownNumbers
<1>1. Parsed(doc) /\ Parsed(new)
  BY DEF Grown
<1>2. Len(sel) \in Nat /\ now(0) = {0} /\ was(0) = {0}
  BY SelectedStep
<1>3. 0 \in S
  BY <1>2
<1>4. ASSUME NEW h \in 1..Len(sel), h - 1 \in S PROVE h \in S
  <2> SUFFICES ASSUME NEW c \in p + 1..Len(doc), c + b \in now(h) PROVE c \in was(h)
    BY <1>2
  <2> DEFINE x == c + b
             q == Parent(doc, c)
             m == Moved(p, body, q)
  <2>1. c \in 1..Len(doc) /\ c # 1 /\ c - 1 \in p..Len(doc) /\ c \in p..Len(doc)
        /\ x \in 1..Len(new) /\ x # 1 /\ x - 1 = (c - 1) + b
    BY <1>0
  <2>2. new[x] = doc[c]
    BY <1>0 DEF Grown, Spread
  <2>3. Parent(new, x) = m /\ q \in 1..c - 1
    BY GrownParentAfter
  <2>4. q \in 1..Len(doc)
    BY <2>1, <2>3
  <2> HIDE DEF q
  <2>5. m = (IF q <= p THEN q ELSE q + b)
    BY DEF Moved
  <2> HIDE DEF m, x
  <2>6. /\ new[x].kind # "close" /\ Parent(new, x) \in now(h - 1)
        /\ NameMatches(sel[h], new[x]) /\ AttMatches(sel[h], new[x])
        /\ sel[h].position \in {Anywhere, RankOf(new, x, sel[h])}
    <3>1. x \in now(h)
      BY DEF x
    <3> QED
      BY <3>1, SelectedIs
  <2>7. q \in was(h - 1)
    <3>1. CASE q <= p
      <4>1. q \in 0..p /\ h - 1 \in 0..Len(sel) /\ m = q
        BY <1>2, <2>4, <2>5, <3>1
      <4> QED
        BY <2>3, <2>6, <4>1, PrefixSelected
    <3>2. CASE p < q
      <4>1. m = q + b /\ q \in p + 1..Len(doc) /\ m # 0
        BY <1>0, <2>4, <2>5, <3>2
      <4>2. h - 1 # 0
        <5>1. h - 1 = 0 => m \in now(0)
          BY <2>3, <2>6
        <5> QED
          BY <1>2, <4>1, <5>1
      <4>3. h - 1 >= 1
        BY <1>2, <4>2
      <4> QED
        BY <1>4, <2>3, <2>6, <4>1, <4>3
    <3>3. q \in Nat /\ p \in Nat
      BY <1>0, <2>4
    <3> QED
      BY <3>1, <3>2, <3>3
  <2>8. sel[h].position \in {Anywhere, RankOf(doc, c, sel[h])}
    <3>1. CASE Parent(new, x) = Parent(new, p + 1)
      <4>1. x \in now(h)
        BY DEF x
      <4>2. sel[h].position = Anywhere
        BY <3>1, <4>1 DEF Unranked, x
      <4> QED
        BY <4>2
    <3>2. CASE Parent(new, x) # Parent(new, p + 1)
      <4>1. Level(new, x - 1) = h - 1 /\ Level(doc, c - 1) = h - 1
        <5>1. x \in now(h)
          BY DEF x
        <5>2. Level(new, x - 1) = h - 1
          BY <1>1, <5>1, LevelSelected
        <5>3. Level(new, (c - 1) + b) = Level(doc, c - 1)
          BY <2>1, GrownLevels
        <5> QED
          BY <2>1, <5>2, <5>3
      <4>2. h - 1 + 1 = h
        BY <1>2
      <4>3. RankOf(new, x, sel[h]) = Cardinality(Children(new, sel, m, x))
        <5>1. NameMatches(sel[Level(new, x - 1) + 1], new[x])
          BY <2>6, <4>1, <4>2
        <5>2. RankOf(new, x, sel[Level(new, x - 1) + 1]) = Cardinality(Children(new, sel, Parent(new, x), x))
          BY <1>1, <2>1, <2>6, <5>1, RankIs
        <5> QED
          BY <2>3, <4>1, <4>2, <5>2
      <4>4. RankOf(doc, c, sel[h]) = Cardinality(Children(doc, sel, q, c))
        <5>1. NameMatches(sel[Level(doc, c - 1) + 1], doc[c]) /\ doc[c].kind # "close"
          BY <2>2, <2>6, <4>1, <4>2
        <5>2. RankOf(doc, c, sel[Level(doc, c - 1) + 1]) = Cardinality(Children(doc, sel, Parent(doc, c), c))
          BY <1>1, <2>1, <5>1, RankIs
        <5> QED
          BY <4>1, <4>2, <5>2 DEF q
      <4>5. Cardinality(Children(new, sel, m, x)) = Cardinality(Children(doc, sel, q, c))
        BY <2>1, <2>3, <2>4, <3>2, MovedCount DEF m, x
      <4> QED
        BY <2>6, <4>3, <4>4, <4>5
    <3> QED
      BY <3>1, <3>2
  <2>9. NameMatches(sel[h], doc[c]) /\ AttMatches(sel[h], doc[c]) /\ doc[c].kind # "close"
    BY <2>2, <2>6
  <2> QED
    BY <2>1, <2>7, <2>8, <2>9, SelectedIs DEF q
<1> HIDE DEF S
<1>5. 0..Len(sel) \subseteq S
  BY <1>2, <1>3, <1>4, Induction
<1>6. k \in S /\ k >= 1
  BY <1>2, <1>5
<1> QED
  BY <1>6 DEF S

(* Of two siblings the later one has the higher rank.                       *)
LEMMA RankGrows ==
    ASSUME NEW doc, Parsed(doc), NEW x \in Elements(doc), NEW y \in Elements(doc), x < y,
           Parent(doc, x) = Parent(doc, y), NEW step,
           NameMatches(step, doc[x]), NameMatches(step, doc[y])
    PROVE  RankOf(doc, x, step) # RankOf(doc, y, step)
<1> DEFINE here == {j \in Alike(doc, x, step) : j <= x}
           there == {j \in Alike(doc, y, step) : j <= y}
<1>1. Len(doc) \in Nat /\ x \in 1..Len(doc) /\ y \in 1..Len(doc)
  BY Levels DEF Elements
<1>2. Alike(doc, x, step) = Alike(doc, y, step) /\ Alike(doc, y, step) \subseteq 1..Len(doc)
  BY DEF Alike, Elements
<1>3. here \subseteq there /\ y \in there /\ y \notin here
  BY <1>1, <1>2 DEF Alike
<1>4. IsFiniteSet(there)
  <2>1. there \subseteq 1..Len(doc) /\ IsFiniteSet(1..Len(doc))
    BY <1>1, <1>2, FS_Interval
  <2> HIDE DEF there
  <2> QED
    BY <2>1, FS_Subset
<1> HIDE DEF here, there
<1>5. Cardinality(here) \in Nat /\ Cardinality(there) \in Nat /\ Cardinality(here) < Cardinality(there)
  <2>1. here # there
    BY <1>3
  <2>2. IsFiniteSet(here)
    BY <1>3, <1>4, FS_Subset
  <2>3. Cardinality(here) \in Nat /\ Cardinality(there) \in Nat
    BY <1>4, <2>2, FS_CardinalityType
  <2>4. Cardinality(here) <= Cardinality(there) /\ (Cardinality(here) = Cardinality(there) => here = there)
    BY <1>3, <1>4, FS_Subset
  <2> QED
    BY <2>1, <2>3, <2>4
<1> QED
  BY <1>5 DEF RankOf, here, there

\* Element i of a document has the text of a body.
Reads(doc, i, body) ==
    /\ i \in 1..Len(doc) /\ EndOf(doc, i) = i + Len(body) - 1 /\ EndOf(doc, i) <= Len(doc)
    /\ StandsAt(doc, i - 1, body) /\ doc[i] = body[1]

LEMMA TextRead ==
    ASSUME NEW doc, Parsed(doc), NEW body, Parsed(body), NEW i \in 1..Len(doc),
           EndOf(doc, i) \in i..Len(doc), TextOf(doc, i) = body
    PROVE  Reads(doc, i, body)
<1> DEFINE e == EndOf(doc, i)
<1>1. Len(doc) \in Nat /\ Len(body) \in Nat \ {0} /\ doc \in Seq(Tag) /\ body = SubSeq(doc, i, e)
  BY Levels DEF Parsed, TextOf
<1> HIDE DEF e
<1>2. e \in i..Len(doc)
  BY DEF e
<1>3. i \in Int /\ e \in Int /\ \A j \in i..e : doc[j] \in Tag
  BY <1>1, <1>2
<1>4. Len(body) = e - i + 1 /\ \A k \in 1..e - i + 1 : body[k] = doc[i + k - 1]
  BY <1>1, <1>2, <1>3, SubSeqProperties
<1>5. i - 1 \in Nat /\ (i - 1) + Len(body) <= Len(doc) /\ e = i + Len(body) - 1
  BY <1>1, <1>2, <1>4
<1>6. ASSUME NEW k \in 1..Len(body) PROVE doc[(i - 1) + k] = body[k]
  <2>1. k \in 1..e - i + 1 /\ (i - 1) + k = i + k - 1
    BY <1>4
  <2> QED
    BY <1>4, <2>1
<1>7. doc[i] = body[1]
  <2>1. 1 \in 1..Len(body) /\ (i - 1) + 1 = i
    BY <1>1, <1>3
  <2> QED
    BY <1>6, <2>1
<1> QED
  BY <1>2, <1>5, <1>6, <1>7 DEF Reads, StandsAt, e

(* The text of a body is nowhere across the end of the body.                *)
LEMMA NotAcross ==
    ASSUME NEW doc, NEW p, NEW body, NEW new, Grown(doc, p, body, new),
           NEW i \in p + 2..p + Len(body), Reads(new, i, body)
    PROVE  FALSE
<1> DEFINE b == Len(body)
           o == i - 1
           k == o - p
           l == p + b - o
<1>0. /\ Len(doc) \in Nat /\ b \in Nat \ {0} /\ p \in Nat /\ 0 < p /\ p < Len(doc)
      /\ Len(new) = Len(doc) + b
  BY GrownNumbers
<1>1. Parsed(doc) /\ Parsed(new) /\ Parsed(body)
  BY DEF Grown
<1>2. k \in 1..b - 1 /\ l \in 1..b - 1 /\ k \in 0..b /\ l \in 0..b /\ b \in 0..b /\ p \in 0..Len(doc)
      /\ p + k = o /\ o + l = p + b
  BY <1>0
<1>3. StandsAt(new, o, body)
  BY DEF Reads
<1> HIDE DEF k, l, o
<1>4. Level(new, o + l) = Level(new, o) + Level(body, l)
  BY <1>1, <1>2, <1>3, TextLevels
<1>5. Level(new, p + k) = Level(doc, p) + Level(body, k) /\ Level(new, p + b) = Level(doc, p) + Level(body, b)
  BY <1>2, GrownLevels
<1>6. Level(body, k) >= 1 /\ Level(body, l) >= 1 /\ Level(body, b) = 0
      /\ Level(body, k) \in Nat /\ Level(body, l) \in Nat /\ Level(doc, p) \in Nat
  BY <1>1, <1>2, Levels
<1>7. Level(new, o) = Level(doc, p) + Level(body, k) /\ Level(new, p + b) = Level(new, o) + Level(body, l)
  BY <1>2, <1>4, <1>5
<1> QED
  BY ONLY <1>5, <1>6, <1>7

\* An element that the selector selects looks as the body does.
LooksSelected(sel, body) ==
    body[1].kind # "close" /\ NameMatches(sel[Len(sel)], body[1]) /\ AttMatches(sel[Len(sel)], body[1])

(* The parent of the body is the element open at the place.                 *)
LEMMA PlaceUnder ==
    ASSUME NEW doc, NEW p, NEW body, NEW new, Grown(doc, p, body, new), NEW sel, SelectorOf(sel),
           NEW q, Under(doc, sel, q, p)
    PROVE  /\ Parent(new, p + 1) = q /\ q \in 1..p /\ Level(new, q) = Len(sel) - 1 /\ Level(doc, p) = Len(sel) - 1
           /\ Level(doc, q) = Len(sel) - 1
           /\ q \in SelectedUpTo(new, sel)[Len(sel) - 1] /\ Level(new, p) = Len(sel) - 1
           /\ new[p + 1] = body[1]
<1> DEFINE r == Parent(new, p + 1)
<1>0. /\ Len(doc) \in Nat /\ Len(body) \in Nat \ {0} /\ p \in Nat /\ 0 < p /\ p < Len(doc)
      /\ Len(new) = Len(doc) + Len(body)
  BY GrownNumbers
<1>1. Parsed(doc) /\ Len(sel) \in Nat \ {0}
  BY SelectedStep DEF Grown
<1>2. q \in 1..p /\ IsOpen(doc, q, p) /\ Level(doc, p) = Len(sel) - 1 /\ Level(doc, q) = Len(sel) - 1
      /\ q \in SelectedUpTo(doc, sel)[Len(sel) - 1]
  BY DEF Under
<1>3. 1 \in 1..Len(body) /\ q \in 0..p /\ Len(sel) - 1 \in 0..Len(sel) /\ p \in 0..Len(doc) /\ p \in 0..p
  BY <1>0, <1>1, <1>2
<1>4. r \in 1..p /\ IsOpen(doc, r, p) /\ Level(doc, r) = Level(doc, p)
  BY <1>3, GrownParentInside
<1> HIDE DEF r
<1>5. r = q
  <2>1. ~(r < q)
    <3> SUFFICES ASSUME r < q PROVE FALSE
      OBVIOUS
    <3>1. Level(doc, r) < Level(doc, q)
      BY <1>1, <1>2, <1>3, <1>4, OpenOnce
    <3> QED
      BY <1>1, <1>2, <1>4, <3>1
  <2>2. ~(q < r)
    <3> SUFFICES ASSUME q < r PROVE FALSE
      OBVIOUS
    <3>1. Level(doc, q) < Level(doc, r)
      BY <1>1, <1>2, <1>3, <1>4, OpenOnce
    <3> QED
      BY <1>1, <1>2, <1>4, <3>1
  <2> QED
    BY <1>0, <1>2, <1>4, <2>1, <2>2
<1>6. Level(new, q) = Level(doc, q) /\ Level(new, p) = Level(doc, p)
  BY <1>3, GrownLevels
<1>7. q \in SelectedUpTo(new, sel)[Len(sel) - 1]
  BY <1>2, <1>3, PrefixSelected
<1>8. new[p + 1] = body[1]
  BY <1>3 DEF Grown, Spread
<1> QED
  BY <1>2, <1>5, <1>6, <1>7, <1>8 DEF r

LEMMA BodySelected ==
    ASSUME NEW doc, NEW p, NEW body, NEW new, Grown(doc, p, body, new), NEW sel, SelectorOf(sel),
           NEW q, Under(doc, sel, q, p), LooksSelected(sel, body),
           sel[Len(sel)].position = Anywhere
             \/ Cardinality(Children(doc, sel, q, p)) = sel[Len(sel)].position - 1
    PROVE  p + 1 \in Selected(new, sel)
<1> DEFINE n == Len(sel)
           i == p + 1
           was == Children(doc, sel, q, p)
           now == Children(new, sel, q, p)
<1>0. /\ Len(doc) \in Nat /\ Len(body) \in Nat \ {0} /\ p \in Nat /\ 0 < p /\ p < Len(doc)
      /\ Len(new) = Len(doc) + Len(body)
  BY GrownNumbers
<1>1. Parsed(doc) /\ Parsed(new) /\ n \in Nat \ {0}
  BY SelectedStep DEF Grown
<1>2. /\ Parent(new, i) = q /\ q \in 1..p /\ Level(new, q) = n - 1 /\ Level(doc, q) = n - 1
      /\ q \in SelectedUpTo(new, sel)[n - 1] /\ Level(new, p) = n - 1 /\ new[i] = body[1]
  BY PlaceUnder
<1>3. i \in 1..Len(new) /\ i # 1 /\ i - 1 = p /\ n - 1 + 1 = n /\ n \in 1..n
  BY <1>0, <1>1
<1> HIDE DEF i
<1>4. new[i].kind # "close" /\ NameMatches(sel[n], new[i]) /\ AttMatches(sel[n], new[i])
  BY <1>2 DEF LooksSelected
<1>5. RankOf(new, i, sel[n]) = Cardinality(Children(new, sel, q, i))
  <2>1. Level(new, i - 1) = n - 1 /\ NameMatches(sel[Level(new, i - 1) + 1], new[i])
    BY <1>2, <1>3, <1>4
  <2>2. RankOf(new, i, sel[Level(new, i - 1) + 1]) = Cardinality(Children(new, sel, Parent(new, i), i))
    BY <1>1, <1>3, <1>4, <2>1, RankIs
  <2> QED
    BY <1>2, <1>3, <2>1, <2>2
<1>6. Cardinality(Children(new, sel, q, i)) = Cardinality(now) + 1 /\ Cardinality(now) \in Nat
  <2>1. /\ Cardinality(Children(new, sel, q, i - 1)) \in Nat
        /\ Cardinality(Children(new, sel, q, i)) = Cardinality(Children(new, sel, q, i - 1)) + 1
    BY <1>1, <1>2, <1>3, <1>4, ChildrenGrow
  <2> QED
    BY <1>3, <2>1
<1>7. now = was
  <2>1. \A j \in 1..p : new[j] = doc[j] /\ Parent(new, j) = Parent(doc, j)
    <3>1. \A j \in 1..p : new[j] = doc[j]
      BY DEF Grown, Spread
    <3> QED
      BY <3>1, GrownParentBefore
  <2>2. \A j : j \in now <=> j \in 1..p /\ new[j].kind # "close" /\ Parent(new, j) = q /\ NameMatches(sel[n], new[j])
    BY <1>0, <1>2, <1>3 DEF Children, Elements
  <2>3. \A j : j \in was <=> j \in 1..p /\ doc[j].kind # "close" /\ Parent(doc, j) = q /\ NameMatches(sel[n], doc[j])
    BY <1>0, <1>2, <1>3 DEF Children, Elements
  <2> HIDE DEF now, was
  <2> QED
    BY <2>1, <2>2, <2>3
<1>8. sel[n].position \in {Anywhere, RankOf(new, i, sel[n])}
  <2>1. sel[n].position \in Int
    <3>1. sel[n] \in StepOf
      BY <1>3 DEF SelectorOf
    <3> QED
      BY <3>1 DEF StepOf
  <2>2. CASE Cardinality(was) = sel[n].position - 1
    <3> HIDE DEF now, was
    <3> QED
      BY <1>5, <1>6, <1>7, <2>1, <2>2
  <2> QED
    BY <2>2
<1>9. i \in SelectedUpTo(new, sel)[n]
  BY <1>2, <1>3, <1>4, <1>8, SelectedIs
<1> QED
  BY <1>9 DEF Selected, i

LEMMA PlaceUnranked ==
    ASSUME NEW doc, NEW p, NEW body, NEW new, Grown(doc, p, body, new), NEW sel, SelectorOf(sel),
           LooksSelected(sel, body), p + 1 \notin Selected(new, sel),
           \/ RightPlace(doc, sel, p)
           \/ Behind(doc, sel, p)
           \/ p \in Nat /\ Level(doc, p) = Len(sel)
    PROVE  Unranked(doc, p, body, new, sel)
<1> DEFINE n == Len(sel)
           b == Len(body)
           r == Parent(new, p + 1)
           now(h) == SelectedUpTo(new, sel)[h]
<1>0. /\ Len(doc) \in Nat /\ b \in Nat \ {0} /\ p \in Nat /\ 0 < p /\ p < Len(doc)
      /\ Len(new) = Len(doc) + b
  BY GrownNumbers
<1>1. Parsed(doc) /\ Parsed(new) /\ n \in Nat \ {0}
  BY SelectedStep DEF Grown
<1>2. r \in 1..p /\ IsOpen(doc, r, p) /\ Level(doc, r) = Level(doc, p)
  <2>1. 1 \in 1..b
    BY <1>0
  <2> QED
    BY <2>1, GrownParentInside
<1>3. SUFFICES ASSUME NEW k \in 1..n, NEW a \in p + 1..Len(doc), a + b \in now(k), Parent(new, a + b) = r,
                      sel[k].position # Anywhere
               PROVE  FALSE
  BY DEF Unranked
<1> DEFINE x == a + b
<1>4. x \in 1..Len(new) /\ x # 1 /\ (a - 1) + b = x - 1 /\ a - 1 \in p..Len(doc) /\ r \in 0..p
      /\ a \in 1..Len(doc)
  BY <1>0, <1>2
<1>5. new[x] = doc[a]
  BY <1>0 DEF Grown, Spread
<1>6. Parent(new, x) = Moved(p, body, Parent(doc, a)) /\ Parent(doc, a) \in 1..a - 1
  BY GrownParentAfter
<1> HIDE DEF x, r
<1>7. /\ new[x].kind # "close" /\ NameMatches(sel[k], new[x])
      /\ sel[k].position = RankOf(new, x, sel[k])
  <2>1. x \in now(k)
    BY <1>3 DEF x
  <2> QED
    BY <1>3, <2>1, SelectedIs
<1>8. Level(doc, p) = k - 1
  <2>1. x \in now(k)
    BY <1>3 DEF x
  <2>2. Level(new, x - 1) = k - 1
    BY <1>1, <2>1, LevelSelected
  <2>3. Level(new, Parent(new, x)) = Level(new, x - 1)
    BY <1>1, <1>4, ParentOf
  <2>4. Level(new, r) = Level(doc, r)
    BY <1>4, GrownLevels
  <2> QED
    BY <1>2, <1>3, <2>2, <2>3, <2>4 DEF x
<1>9. CASE RightPlace(doc, sel, p)
  <2>1. PICK q : /\ Under(doc, sel, q, p)
                 /\ \/ Settled(doc, sel, q, p)
                    \/ /\ sel[n].position # Anywhere
                       /\ Cardinality(Children(doc, sel, q, p)) = sel[n].position - 1
    BY <1>9 DEF RightPlace
  <2>2. r = q /\ Level(doc, p) = n - 1 /\ Level(doc, q) = n - 1
    BY <2>1, PlaceUnder DEF r
  <2>3. k = n
    BY <1>1, <1>8, <2>2
  <2>4. Settled(doc, sel, q, p)
    BY <2>1, BodySelected
  <2>5. Parent(doc, a) = q
    <3>1. Parent(doc, a) \in 1..Len(doc) /\ q \in 1..Len(doc) /\ q <= p
      BY <1>0, <1>2, <1>4, <1>6, <2>2
    <3>2. Moved(p, body, Parent(doc, a)) = q
      BY <1>3, <1>6, <2>2 DEF x
    <3> QED
      BY <3>1, <3>2, MovedApart
  <2>6. n - 1 + 1 = n /\ a <= Len(doc) /\ ~(a <= p)
    BY <1>0, <1>1, <1>4
  <2>7. a \in Children(doc, sel, q, Len(doc))
    BY <1>4, <1>5, <1>7, <2>2, <2>3, <2>5, <2>6 DEF Children, Elements
  <2> QED
    BY <2>4, <2>6, <2>7 DEF Settled
<1>10. CASE Behind(doc, sel, p)
  <2>1. PICK c \in 1..p : /\ c \in SelectedUpTo(doc, sel)[n - 1]
                          /\ \A q : IsOpen(doc, q, p) /\ Level(doc, q) = Level(doc, p) => Parent(doc, c) = q
    BY <1>10 DEF Behind
  <2>2. Level(doc, p) = n - 2
    BY <1>10 DEF Behind
  <2>3. k = n - 1 /\ k \in 0..n
    BY <1>1, <1>8, <2>2
  <2>4. Parent(new, c) = r /\ c \in 0..p /\ c \in 1..Len(new) /\ c < x
    <3>1. Parent(doc, c) = r
      BY <1>2, <2>1
    <3>2. Parent(new, c) = Parent(doc, c)
      BY GrownParentBefore
    <3> QED
      BY <1>0, <3>1, <3>2 DEF x
  <2>5. c \in now(k)
    BY <2>1, <2>3, <2>4, PrefixSelected
  <2>6. new[c].kind # "close" /\ NameMatches(sel[k], new[c]) /\ sel[k].position = RankOf(new, c, sel[k])
    BY <1>3, <2>5, SelectedIs
  <2>7. c \in Elements(new) /\ x \in Elements(new) /\ Parent(new, c) = Parent(new, x)
    BY <1>3, <1>4, <1>7, <2>4, <2>6 DEF Elements, x
  <2>8. RankOf(new, c, sel[k]) # RankOf(new, x, sel[k])
    BY <1>1, <1>7, <2>4, <2>6, <2>7, RankGrows
  <2> QED
    BY <1>7, <2>6, <2>8
<1>11. CASE Level(doc, p) = n
  BY <1>1, <1>8, <1>11
<1> QED
  BY <1>9, <1>10, <1>11

(* An element that put inserted is the one that the selector then selects.  *)
LEMMA InsertedIs ==
    ASSUME NEW doc, Parsed(doc), NEW sel, SelectorOf(sel), Selected(doc, sel) = {},
           NEW s, s = InsertPointLocator(doc, sel), s.state = "DONE",
           NEW body, Parsed(body), NEW p, p = FixedEnd(doc, s),
           NEW new, new = Spliced(doc, p, p, body), Parsed(new),
           NEW i, Selected(new, sel) = {i}, EndOf(new, i) \in i..Len(new), TextOf(new, i) = body
    PROVE  /\ Grown(doc, p, body, new) /\ i = p + 1 /\ EndOf(new, i) = p + Len(body)
           /\ \/ RightPlace(doc, sel, p)
              \/ Behind(doc, sel, p)
              \/ p \in Nat /\ Level(doc, p) = Len(sel)
<1> DEFINE n == Len(sel)
           b == Len(body)
<1>1. p \in 0..Len(doc)
  BY PlaceIsInside DEF Parsed
<1>2. Grown(doc, p, body, new)
  BY <1>1, InsertedGrows
<1>3. /\ Len(doc) \in Nat /\ b \in Nat \ {0} /\ p \in Nat /\ 0 < p /\ p < Len(doc)
      /\ Len(new) = Len(doc) + b
  BY <1>2, GrownNumbers
<1>4. n \in Nat \ {0} /\ n \in 1..n /\ n \in 0..n
  <2>1. n \in Nat \ {0}
    BY SelectedStep
  <2> QED
    BY <2>1
<1>5. \/ RightPlace(doc, sel, p)
      \/ Behind(doc, sel, p)
      \/ p \in Nat /\ Level(doc, p) = Len(sel)
  BY <1>3, PlaceIs
<1>6. i \in SelectedUpTo(new, sel)[n] /\ SelectedUpTo(doc, sel)[n] = {}
  BY DEF Selected
<1>7. i \in 1..Len(new)
  BY <1>4, <1>6, LevelSelected
<1>8. Reads(new, i, body)
  BY <1>7, TextRead
<1>9. LooksSelected(sel, body)
  <2>1. new[i].kind # "close" /\ NameMatches(sel[n], new[i]) /\ AttMatches(sel[n], new[i])
    BY <1>4, <1>6, SelectedIs
  <2> QED
    BY <1>8, <2>1 DEF Reads, LooksSelected
<1>10. ~(i \in 1..p)
  <2> SUFFICES ASSUME i \in 1..p PROVE FALSE
    OBVIOUS
  <2>1. i \in 0..p
    OBVIOUS
  <2> QED
    BY <1>2, <1>4, <1>6, <2>1, PrefixSelected
<1>11. ~(i \in p + 2..p + b)
  BY <1>2, <1>8, NotAcross
<1>12. ~(i \in p + b + 1..Len(new))
  <2> SUFFICES ASSUME i \in p + b + 1..Len(new) PROVE FALSE
    OBVIOUS
  <2> DEFINE a == i - b
  <2>1. a \in p + 1..Len(doc) /\ a + b = i
    BY <1>3
  <2> HIDE DEF a
  <2>2. p + 1 \notin Selected(new, sel)
    BY <1>3
  <2>3. Unranked(doc, p, body, new, sel)
    BY <1>2, <1>5, <1>9, <2>2, PlaceUnranked
  <2>4. a \in SelectedUpTo(doc, sel)[n]
    BY <1>2, <1>4, <1>6, <2>1, <2>3, MovedSelected
  <2> QED
    BY <1>6, <2>4
<1>13. i = p + 1
  BY <1>3, <1>7, <1>10, <1>11, <1>12
<1>14. EndOf(new, i) = p + b
  <2>1. EndOf(new, i) = i + b - 1
    BY <1>8 DEF Reads
  <2> QED
    BY <1>3, <1>13, <2>1
<1> QED
  BY <1>2, <1>5, <1>13, <1>14

(* Without a position it comes after its siblings.                          *)
LEMMA InsertedLast ==
    ASSUME NEW doc, NEW p, NEW body, NEW new, Grown(doc, p, body, new), NEW sel, SelectorOf(sel),
           \/ RightPlace(doc, sel, p)
           \/ Behind(doc, sel, p)
           \/ p \in Nat /\ Level(doc, p) = Len(sel),
           p + 1 \in Selected(new, sel), sel[Len(sel)].position = Anywhere,
           NEW j \in Alike(new, p + 1, sel[Len(sel)])
    PROVE  j <= p + 1
<1> DEFINE n == Len(sel)
           b == Len(body)
           x == p + 1
<1>0. /\ Len(doc) \in Nat /\ b \in Nat \ {0} /\ p \in Nat /\ 0 < p /\ p < Len(doc)
      /\ Len(new) = Len(doc) + b
  BY GrownNumbers
<1>1. Parsed(doc) /\ Parsed(new) /\ n \in Nat \ {0} /\ n \in 1..n
  <2>1. n \in Nat \ {0}
    BY SelectedStep
  <2>2. n \in 1..n
    BY <2>1
  <2> QED
    BY <2>1, <2>2 DEF Grown
<1>2. Level(doc, p) = n - 1
  <2>1. x \in SelectedUpTo(new, sel)[n]
    BY DEF Selected
  <2>2. x - 1 = p /\ p \in 0..p
    BY <1>0
  <2> HIDE DEF x
  <2>3. Level(new, x - 1) = n - 1
    BY <1>1, <2>1, LevelSelected
  <2>4. Level(new, p) = Level(doc, p)
    BY <2>2, GrownLevels
  <2> QED
    BY <2>2, <2>3, <2>4
<1>3. RightPlace(doc, sel, p)
  <2>1. Behind(doc, sel, p) => Level(doc, p) = n - 2
    BY DEF Behind
  <2> QED
    BY <1>1, <1>2, <2>1
<1>4. PICK q : Under(doc, sel, q, p) /\ Settled(doc, sel, q, p)
  BY <1>3 DEF RightPlace
<1>5. Parent(new, x) = q /\ q \in 1..p /\ Level(doc, q) = n - 1
  BY <1>4, PlaceUnder
<1>6. j \in 1..Len(new) /\ new[j].kind # "close" /\ Parent(new, j) = q /\ NameMatches(sel[n], new[j])
  BY <1>5 DEF Alike, Elements
<1>7. ~(j \in p + 2..p + b)
  <2> SUFFICES ASSUME j \in p + 2..p + b PROVE FALSE
    OBVIOUS
  <2> DEFINE k == j - p
  <2>1. k \in 1..b /\ k # 1 /\ p + k = j
    BY <1>0
  <2> HIDE DEF k
  <2>2. Parent(new, p + k) \in p + 1..p + b
    BY <2>1, GrownParentInside
  <2> QED
    BY <1>0, <1>5, <1>6, <2>1, <2>2
<1>8. ~(j \in p + b + 1..Len(new))
  <2> SUFFICES ASSUME j \in p + b + 1..Len(new) PROVE FALSE
    OBVIOUS
  <2> DEFINE a == j - b
  <2>1. a \in p + 1..Len(doc) /\ a + b = j /\ a \in 1..Len(doc) /\ a <= Len(doc) /\ ~(a <= p) /\ n - 1 + 1 = n
    BY <1>0, <1>1
  <2> HIDE DEF a
  <2>2. new[j] = doc[a]
    BY <2>1 DEF Grown, Spread
  <2>3. Parent(new, j) = Moved(p, body, Parent(doc, a)) /\ Parent(doc, a) \in 1..a - 1
    BY <2>1, GrownParentAfter
  <2>4. Parent(doc, a) = q
    <3>1. Parent(doc, a) \in 1..Len(doc) /\ q \in 1..Len(doc) /\ q <= p
      BY <1>0, <1>5, <2>1, <2>3
    <3> QED
      BY <1>6, <2>3, <3>1, MovedApart
  <2>5. a \in Children(doc, sel, q, Len(doc))
    BY <1>5, <1>6, <2>1, <2>2, <2>4 DEF Children, Elements
  <2> QED
    BY <1>4, <2>1, <2>5 DEF Settled
<1> QED
  BY <1>0, <1>6, <1>7, <1>8
=============================================================================
