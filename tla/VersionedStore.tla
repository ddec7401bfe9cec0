--------------------------- MODULE VersionedStore ---------------------------
(***************************************************************************)
(* What a document storage promises: every key has at most one document,   *)
(* a change of a document is one atomic step that touches no other, and     *)
(* the version it makes carries an entity tag that no version of any        *)
(* document ever carried before.                                            *)
(***************************************************************************)
EXTENDS Naturals

CONSTANTS Keys, Docs

VARIABLES
    store,   \* key -> its current version
    issued,  \* how many entity tags have been drawn
    used     \* the tags some version has carried

NoVersion == [etag |-> 0, doc |-> {}]

Init == /\ store = [k \in Keys |-> NoVersion]
        /\ issued = 0
        /\ used = {}

(* A writer draws a tag before it knows whether its write will go through. *)
Issue == /\ issued' = issued + 1
         /\ UNCHANGED <<store, used>>

Write(k, e, d) ==
    /\ e \notin used
    /\ store' = [store EXCEPT ![k] = [etag |-> e, doc |-> d]]
    /\ used' = used \cup {e}
    /\ UNCHANGED issued

Remove(k) ==
    /\ store' = [store EXCEPT ![k] = NoVersion]
    /\ UNCHANGED <<issued, used>>

Next == \/ Issue
        \/ \E k \in Keys : \/ Remove(k)
                           \/ \E e \in 1 .. issued, d \in Docs : Write(k, e, d)

Spec == Init /\ [][Next]_<<store, issued, used>>
=============================================================================
