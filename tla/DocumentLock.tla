---------------------------- MODULE DocumentLock ----------------------------
(***************************************************************************)
(* lock_document of xcap/db/locks.py around an API request, and the pool of *)
(* database connections of xcap/db/manager.py the requests share.           *)
(*                                                                          *)
(* The lock is taken and kept on a connection of its own. The handler under *)
(* it opens further sessions, one after the other, each on another          *)
(* connection of the same pool, so a request can wait for a connection      *)
(* while it keeps one and a lock.                                           *)
(***************************************************************************)
EXTENDS Naturals, FiniteSets

CONSTANTS
    Workers,      \* API requests in flight
    Users,
    Nobody,
    Databases,    \* what the server may be configured with
    PoolSize,     \* connections the pool gives out at most
    MaxSessions   \* bound on the sessions one handler opens

ASSUME LockAssumption ==
    /\ Databases \subseteq {"sqlite", "mysql"}
    /\ PoolSize \in Nat /\ MaxSessions \in Nat
    /\ Nobody \notin Workers \cup Users

VARIABLES
    database, \* what it is configured with
    pc,       \* where each request is
    user,     \* whose lock it wants
    left,     \* the sessions its handler has still to open
    lock,     \* user -> the request the database has the lock down to, or Nobody
    severed,  \* requests whose lock connection broke while they were inside
    stuck     \* users whose row was left behind (history)

vars == <<database, pc, user, left, lock, severed, stuck>>

(* SQLite: rows of document_locks. MySQL: GET_LOCK.                         *)
LocksAreRows == database = "sqlite"

Init == /\ database \in Databases
        /\ pc = [w \in Workers |-> "idle"]
        /\ user \in [Workers -> Users]
        /\ left = [w \in Workers |-> 0]
        /\ lock = [u \in Users |-> Nobody]
        /\ severed = {} /\ stuck = {}

Goto(w, label) == pc' = [pc EXCEPT ![w] = label]

(***************************************************************************)
(* The pool. A request has its lock connection from "lock" to "release",    *)
(* and a second one while a session of its handler is open. (On SQLite the   *)
(* commit or rollback after each attempt gives the first one back, and it is  *)
(* taken again for the next statement: there the pool is less tight than      *)
(* here.)                                                                     *)
(***************************************************************************)
LockConnections    == {w \in Workers : pc[w] \in {"lock", "inside", "session", "release"}}
SessionConnections == {w \in Workers : pc[w] = "session"}

ConnectionFree == Cardinality(LockConnections) + Cardinality(SessionConnections) < PoolSize

Request(w, u) ==
    /\ pc[w] = "idle"
    /\ Goto(w, "connect")
    /\ user' = [user EXCEPT ![w] = u]
    /\ UNCHANGED <<left, lock, severed, stuck>>

Connect(w) ==
    /\ pc[w] = "connect" /\ ConnectionFree
    /\ Goto(w, "lock")
    /\ UNCHANGED <<user, left, lock, severed, stuck>>

(* The pool gives up after its timeout: a 500.                              *)
ConnectTimesOut(w) ==
    /\ pc[w] = "connect" /\ ~ConnectionFree
    /\ Goto(w, "idle")
    /\ UNCHANGED <<user, left, lock, severed, stuck>>

(* Mutant: the answer of the database is not looked at.                    *)
AcquireAlways(w) ==
    /\ pc[w] = "lock"
    /\ lock' = [lock EXCEPT ![user[w]] = w]
    /\ Goto(w, "inside")
    /\ \E n \in 0 .. MaxSessions : left' = [left EXCEPT ![w] = n]
    /\ UNCHANGED <<user, severed, stuck>>

(***************************************************************************)
(* SELECT GET_LOCK, or the INSERT that the primary key refuses while there  *)
(* is a row of the name. The attempts end with a TimeoutError; they can     *)
(* fail for other reasons than somebody having the lock.                    *)
(***************************************************************************)
Acquire(w) ==
    /\ pc[w] = "lock" /\ lock[user[w]] = Nobody
    /\ lock' = [lock EXCEPT ![user[w]] = w]
    /\ Goto(w, "inside")
    /\ \E n \in 0 .. MaxSessions : left' = [left EXCEPT ![w] = n]
    /\ UNCHANGED <<user, severed, stuck>>

(* Mutant: a request that gives up releases the lock.                      *)
AcquireTimesOutReleasing(w) ==
    /\ pc[w] = "lock"
    /\ Goto(w, "release")
    /\ UNCHANGED <<user, left, lock, severed, stuck>>

AcquireTimesOut(w) ==
    /\ pc[w] = "lock"
    /\ Goto(w, "idle")
    /\ UNCHANGED <<user, left, lock, severed, stuck>>

(***************************************************************************)
(* The handler, under "try: yield". It may raise in any session.            *)
(***************************************************************************)
OpenSession(w) ==
    /\ pc[w] = "inside" /\ left[w] > 0 /\ ConnectionFree
    /\ Goto(w, "session")
    /\ left' = [left EXCEPT ![w] = @ - 1]
    /\ UNCHANGED <<user, lock, severed, stuck>>

(* Mutant: a handler that fails leaves without releasing.                  *)
SessionTimesOutUnreleased(w) ==
    /\ pc[w] = "inside" /\ left[w] > 0 /\ ~ConnectionFree
    /\ Goto(w, "idle")
    /\ UNCHANGED <<user, left, lock, severed, stuck>>

(* Mutant: the pool lets requests wait for ever.                           *)
SessionNeverTimesOut(w) == FALSE /\ UNCHANGED vars

SessionTimesOut(w) ==
    /\ pc[w] = "inside" /\ left[w] > 0 /\ ~ConnectionFree
    /\ Goto(w, "release")
    /\ UNCHANGED <<user, left, lock, severed, stuck>>

CloseSession(w) ==
    /\ pc[w] = "session"
    /\ Goto(w, "inside") \/ Goto(w, "release")
    /\ UNCHANGED <<user, left, lock, severed, stuck>>

Return(w) ==
    /\ pc[w] = "inside" /\ left[w] = 0
    /\ Goto(w, "release")
    /\ UNCHANGED <<user, left, lock, severed, stuck>>

(***************************************************************************)
(* The finally clause. SQLite deletes the row by name, whoever inserted it; *)
(* MySQL releases what this connection holds. If that fails, SQLite's row   *)
(* stays, and MySQL frees the lock with the connection.                     *)
(***************************************************************************)
Freed(w) == IF LocksAreRows \/ lock[user[w]] = w
            THEN [lock EXCEPT ![user[w]] = Nobody]
            ELSE lock

Release(w) ==
    /\ pc[w] = "release"
    /\ lock' = Freed(w)
    /\ stuck' = stuck \ {u \in Users : lock'[u] = Nobody}
    /\ severed' = severed \ {w}
    /\ Goto(w, "idle")
    /\ UNCHANGED <<user, left>>

ReleaseFails(w) ==
    /\ pc[w] = "release" /\ LocksAreRows
    /\ stuck' = stuck \cup {user[w]}
    /\ Goto(w, "idle")
    /\ UNCHANGED <<user, left, lock, severed>>

(* MySQL frees the locks of a connection that breaks, and nobody tells the  *)
(* handler; it learns of it when it releases the lock.                      *)
ConnectionBreaks(w) ==
    /\ ~LocksAreRows /\ lock[user[w]] = w
    /\ pc[w] \in {"inside", "session", "release"}
    /\ lock' = [lock EXCEPT ![user[w]] = Nobody]
    /\ severed' = severed \cup {w}
    /\ UNCHANGED <<pc, user, left, stuck>>

(* The server process ends and is started again: rows survive it.           *)
Restart ==
    /\ pc' = [w \in Workers |-> "idle"]
    /\ lock' = IF LocksAreRows THEN lock ELSE [u \in Users |-> Nobody]
    /\ stuck' = {u \in Users : lock'[u] # Nobody}
    /\ severed' = {}
    /\ UNCHANGED <<user, left>>

Step ==
    \/ \E w \in Workers :
          \/ \E u \in Users : Request(w, u)
          \/ Connect(w) \/ ConnectTimesOut(w)
          \/ Acquire(w) \/ AcquireTimesOut(w)
          \/ OpenSession(w) \/ SessionTimesOut(w) \/ CloseSession(w) \/ Return(w)
          \/ Release(w) \/ ReleaseFails(w) \/ ConnectionBreaks(w)
    \/ Restart

Next == Step /\ UNCHANGED database

Spec == Init /\ [][Next]_vars

(* A step that can be taken is taken: connections that come free are given  *)
(* out, waits time out, and handlers and statements end.                    *)
FairSpec ==
    /\ Spec
    /\ \A w \in Workers :
          /\ WF_vars(UNCHANGED database /\ (Connect(w) \/ ConnectTimesOut(w)))
          /\ WF_vars(UNCHANGED database /\ (Acquire(w) \/ AcquireTimesOut(w)))
          /\ WF_vars(UNCHANGED database /\ (OpenSession(w) \/ SessionTimesOut(w) \/ Return(w)))
          /\ WF_vars(UNCHANGED database /\ CloseSession(w))
          /\ WF_vars(UNCHANGED database /\ (Release(w) \/ ReleaseFails(w)))

-----------------------------------------------------------------------------

Inside(w) == pc[w] \in {"inside", "session", "release"}

Keeps(w, u) == Inside(w) /\ w \notin severed /\ user[w] = u

(* Every variable has its type.                                             *)
TypeOK ==
    /\ database \in Databases
    /\ pc \in [Workers -> {"idle", "connect", "lock", "inside", "session", "release"}]
    /\ user \in [Workers -> Users]
    /\ left \in [Workers -> 0 .. MaxSessions]
    /\ lock \in [Users -> Workers \cup {Nobody}]
    /\ severed \subseteq Workers
    /\ stuck \subseteq Users

(* Two requests are never inside the lock of one user, unless the database  *)
(* dropped the connection of one of them: not when requests time out, fail  *)
(* or are cut off by a restart, and not although SQLite deletes by name.    *)
MutualExclusion == \A u \in Users, v, w \in Workers : Keeps(v, u) /\ Keeps(w, u) => v = w

(* A lock that is taken is the lock of a request inside it, which will      *)
(* release it; but for the rows of a release that failed and of a restart.  *)
NoLockIsLeftBehind ==
    \A u \in Users : lock[u] # Nobody => u \in stuck \/ Keeps(lock[u], u)

(* The inductive invariant behind mutual exclusion: the database has the    *)
(* lock down to whoever is inside it, and rows are not lost with a          *)
(* connection.                                                              *)
LockInv == /\ \A w \in Workers : Inside(w) /\ w \notin severed => lock[user[w]] = w
           /\ LocksAreRows => severed = {}

(* Every request ends, answered or refused, whatever the others hold.       *)
EveryRequestEnds == \A w \in Workers : pc[w] # "idle" ~> pc[w] = "idle"

(* The lock is the lock its callers count on.                               *)
UL == INSTANCE UserLock WITH
        inside <- [w \in Workers |-> IF Inside(w) /\ w \notin severed THEN user[w] ELSE Nobody]

ImplementsUserLock == UL!Spec
=============================================================================
