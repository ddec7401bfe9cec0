--------------------------- MODULE MCDocumentLock ---------------------------
(* Small instances of DocumentLock for TLC. *)
EXTENDS DocumentLock, TLC

CONSTANTS w1, w2, w3, alice, bob
=============================================================================
