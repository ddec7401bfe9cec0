--------------------------- MODULE MCThorStorage ---------------------------
(* A small instance of ThorStorage for TLC. *)
EXTENDS ThorStorage, TLC

FewConditions == {Unconditional, IfMatch(Tag(1))}

Symmetry == Permutations(Workers) \cup Permutations(Docs) \cup Permutations(Databases)
=============================================================================
