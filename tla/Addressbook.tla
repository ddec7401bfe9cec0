---------------------------- MODULE Addressbook ----------------------------
(***************************************************************************)
(* What the JSON API promises of addressbooks: each request that is not     *)
(* refused changes one in one step, from what it is. There are two licences.*)
(* A request that adds something may start from an empty addressbook, if it *)
(* could not load the one there is. And an addressbook that others wrote    *)
(* last, not through the API, may be changed as some document the request   *)
(* has read would be, their change lost.                                    *)
(***************************************************************************)
EXTENDS AddressbookRoutes

CONSTANT Users

VARIABLES book,   \* user -> its document
          ours    \* the users whose document the API wrote last

ChangeTo(u, out) == /\ out.code = "store"
                    /\ book' = [book EXCEPT ![u] = out.doc]
                    /\ ours' = ours \cup {u}

Apply(u, op)       == ChangeTo(u, Outcome(op, book[u]))
StartOver(u, op)   == StartsAfresh(op) /\ ChangeTo(u, Outcome(op, Fresh))
ApplyToRead(u, op) == u \notin ours /\ \E d \in Docs : ChangeTo(u, Outcome(op, d))

OthersWrite(u) == /\ \E d \in Docs : book' = [book EXCEPT ![u] = d]
                  /\ ours' = ours \ {u}

Init == book \in [Users -> Docs] /\ ours \subseteq Users

Next == \E u \in Users :
           \/ OthersWrite(u)
           \/ \E op \in Operations : Apply(u, op) \/ StartOver(u, op) \/ ApplyToRead(u, op)

Spec == Init /\ [][Next]_<<book, ours>>
=============================================================================
