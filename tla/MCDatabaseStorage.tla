------------------------- MODULE MCDatabaseStorage -------------------------
(* Small instances of DatabaseStorage for TLC. *)
EXTENDS DatabaseStorage, TLC

CONSTANTS w1, w2, w3, k1, k2, e1, e2, a1

OneAttribute == (a1 :> e1)
NoAttribute  == <<>>

(* A document with the element e2 does not pass validation. *)
MCValidDocs == {d \in Docs : e2 \notin d}

AllDocs == Docs

MCConditions ==
    {Unconditional, IfMatch(AnyTag), IfMatch(Tag(1)), IfMatch(BadHeader),
     IfNoneMatch(AnyTag), IfNoneMatch(Tag(1)),
     [IfNoneMatch(AnyTag) EXCEPT !.ifModified = TRUE]}

RaceConditions == {Unconditional, IfMatch(Tag(1)), IfMatch(Tag(2)), IfNoneMatch(AnyTag),
                   [IfNoneMatch(AnyTag) EXCEPT !.ifModified = TRUE]}

FewConditions == {Unconditional} \cup {IfMatch(Tag(e)) : e \in 1 .. MaxEtags}

WorkerSymmetry == Permutations(Workers)
=============================================================================
