------------------------------ MODULE UserLock ------------------------------
(***************************************************************************)
(* What lock_document promises its callers: at most one of them is inside   *)
(* the lock of a user at any time. DocumentLock implements it; AddressbookApi*)
(* is built on it.                                                          *)
(***************************************************************************)
CONSTANTS Workers, Users, Nobody

VARIABLE inside   \* worker -> the user whose lock it is inside of, or Nobody

Init == inside = [w \in Workers |-> Nobody]

Free(u) == \A w \in Workers : inside[w] # u

Enter(w, u) == /\ inside[w] = Nobody /\ Free(u)
               /\ inside' = [inside EXCEPT ![w] = u]

Leave(w) == inside' = [inside EXCEPT ![w] = Nobody]

(* The process ends, and all its workers with it.                           *)
LeaveAll == inside' = [w \in Workers |-> Nobody]

Next == \/ LeaveAll
        \/ \E w \in Workers : Leave(w) \/ \E u \in Users : Enter(w, u)

Spec == Init /\ [][Next]_inside
=============================================================================
