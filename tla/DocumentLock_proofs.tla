------------------------ MODULE DocumentLock_proofs ------------------------
(***************************************************************************)
(* Proofs about DocumentLock, for any number of requests, users and         *)
(* connections, and both ways of keeping the lock.                          *)
(***************************************************************************)
EXTENDS DocumentLock, TLAPS

(* Every variable keeps its type.                                           *)
THEOREM LockTypeCorrect == Spec => []TypeOK
<1>1. Init => TypeOK
  BY LockAssumption DEF Init, TypeOK
<1>2. TypeOK /\ [Next]_vars => TypeOK'
  <2> SUFFICES ASSUME TypeOK, [Next]_vars PROVE TypeOK'
    OBVIOUS
  <2>0. database' = database
    BY DEF Next, vars
  <2> USE <2>0 DEF TypeOK, Goto
  <2>1. CASE UNCHANGED vars
    BY <2>1 DEF vars
  <2>2. ASSUME NEW w \in Workers, NEW u \in Users, Request(w, u) PROVE TypeOK'
    BY <2>2 DEF Request
  <2>3. ASSUME NEW w \in Workers,
               Connect(w) \/ ConnectTimesOut(w) \/ AcquireTimesOut(w)
               \/ SessionTimesOut(w) \/ CloseSession(w) \/ Return(w)
        PROVE TypeOK'
    BY <2>3 DEF Connect, ConnectTimesOut, AcquireTimesOut, SessionTimesOut, CloseSession, Return
  <2>4. ASSUME NEW w \in Workers, Acquire(w) PROVE TypeOK'
    BY <2>4 DEF Acquire
  <2>5. ASSUME NEW w \in Workers, OpenSession(w) PROVE TypeOK'
    <3>1. left[w] - 1 \in 0 .. MaxSessions
      BY <2>5, LockAssumption DEF OpenSession
    <3> QED
      BY <2>5, <3>1 DEF OpenSession
  <2>6. ASSUME NEW w \in Workers, Release(w) PROVE TypeOK'
    BY <2>6 DEF Release, Freed
  <2>7. ASSUME NEW w \in Workers, ReleaseFails(w) PROVE TypeOK'
    BY <2>7 DEF ReleaseFails
  <2>8. ASSUME NEW w \in Workers, ConnectionBreaks(w) PROVE TypeOK'
    BY <2>8 DEF ConnectionBreaks
  <2>9. CASE Restart
    BY <2>9 DEF Restart
  <2> QED
    BY <2>1, <2>2, <2>3, <2>4, <2>5, <2>6, <2>7, <2>8, <2>9 DEF Next, Step
<1> QED
  BY <1>1, <1>2, PTL DEF Spec

(***************************************************************************)
(* The database has the lock down to whoever is inside it, so no other      *)
(* request finds it free, and no release takes another request's lock away. *)
(***************************************************************************)
LEMMA LockInvInit == Init => LockInv
  BY DEF Init, LockInv, Inside

LEMMA LockInvStep == TypeOK /\ LockInv /\ [Next]_vars => LockInv'
<1> SUFFICES ASSUME TypeOK, LockInv, [Next]_vars PROVE LockInv'
  OBVIOUS
<1>0. database' = database
  BY DEF Next, vars
<1> USE <1>0 DEF TypeOK, LockInv, Inside, Goto, LocksAreRows
<1>1. CASE UNCHANGED vars
  BY <1>1 DEF vars
<1>2. ASSUME NEW w \in Workers, NEW u \in Users, Request(w, u) PROVE LockInv'
  BY <1>2 DEF Request
<1>3. ASSUME NEW w \in Workers,
             Connect(w) \/ ConnectTimesOut(w) \/ AcquireTimesOut(w)
             \/ SessionTimesOut(w) \/ CloseSession(w) \/ Return(w)
      PROVE LockInv'
  BY <1>3 DEF Connect, ConnectTimesOut, AcquireTimesOut, SessionTimesOut, CloseSession, Return
<1>4. ASSUME NEW w \in Workers, Acquire(w) PROVE LockInv'
  BY <1>4, LockAssumption DEF Acquire
<1>5. ASSUME NEW w \in Workers, OpenSession(w) PROVE LockInv'
  BY <1>5 DEF OpenSession
<1>6. ASSUME NEW w \in Workers, Release(w) PROVE LockInv'
  <2>a. LocksAreRows => severed' = {}
    BY <1>6 DEF Release
  <2> SUFFICES ASSUME NEW v \in Workers, Inside(v)', v \notin severed'
               PROVE lock'[user'[v]] = v
    BY <2>a
  <2>1. v # w /\ Inside(v) /\ user'[v] = user[v]
    BY <1>6 DEF Release
  <2>2. v \notin severed
    BY <1>6, <2>1 DEF Release
  <2>3. lock[user[v]] = v
    BY <2>1, <2>2
  <2>4. lock'[user[v]] = v
    <3>1. CASE user[v] # user[w]
      BY <1>6, <2>3, <3>1 DEF Release, Freed
    <3>2. CASE user[v] = user[w]
      <4>1. lock[user[w]] # w
        BY <2>1, <2>3, <3>2
      <4>2. w \in severed
        BY <1>6, <4>1 DEF Release
      <4>3. ~LocksAreRows
        BY <4>2
      <4> QED
        BY <1>6, <2>3, <3>2, <4>1, <4>3 DEF Release, Freed
    <3> QED
      BY <3>1, <3>2
  <2> QED
    BY <2>1, <2>4
<1>7. ASSUME NEW w \in Workers, ReleaseFails(w) PROVE LockInv'
  BY <1>7 DEF ReleaseFails
<1>8. ASSUME NEW w \in Workers, ConnectionBreaks(w) PROVE LockInv'
  BY <1>8 DEF ConnectionBreaks
<1>9. CASE Restart
  BY <1>9 DEF Restart
<1> QED
  BY <1>1, <1>2, <1>3, <1>4, <1>5, <1>6, <1>7, <1>8, <1>9 DEF Next, Step

LEMMA LockInvariant == Spec => []LockInv
<1>1. TypeOK /\ LockInv /\ [Next]_vars => LockInv'
  BY LockInvStep
<1> QED
  BY <1>1, LockInvInit, LockTypeCorrect, PTL DEF Spec

(***************************************************************************)
(* Two requests are never inside the lock of one user, unless the database  *)
(* dropped the connection of one of them, whatever times out, fails, or is  *)
(* cut off by a restart.                                                    *)
(***************************************************************************)
THEOREM LockIsExclusive == Spec => []MutualExclusion
<1>1. LockInv => MutualExclusion
  BY DEF LockInv, MutualExclusion, Keeps
<1> QED
  BY <1>1, LockInvariant, PTL

(***************************************************************************)
(* Whoever the database has a lock down to is inside it and will release    *)
(* it, unless a release failed or the server was restarted (locks.py:42).   *)
(***************************************************************************)
SeveredInside == \A w \in severed : Inside(w)

LEMMA SeveredStep == TypeOK /\ LockInv /\ SeveredInside /\ [Next]_vars => SeveredInside'
<1> SUFFICES ASSUME TypeOK, LockInv, SeveredInside, [Next]_vars PROVE SeveredInside'
  OBVIOUS
<1> USE DEF TypeOK, SeveredInside, Inside, Goto
<1>1. CASE UNCHANGED vars
  BY <1>1 DEF vars
<1>2. ASSUME NEW w \in Workers,
             \/ \E v \in Users : Request(w, v)
             \/ Connect(w) \/ ConnectTimesOut(w) \/ Acquire(w) \/ AcquireTimesOut(w)
             \/ OpenSession(w) \/ SessionTimesOut(w) \/ CloseSession(w) \/ Return(w)
      PROVE  SeveredInside'
  BY <1>2 DEF Request, Connect, ConnectTimesOut, Acquire, AcquireTimesOut, OpenSession,
              SessionTimesOut, CloseSession, Return
<1>3. ASSUME NEW w \in Workers, Release(w) \/ ReleaseFails(w) PROVE SeveredInside'
  BY <1>3 DEF Release, ReleaseFails, LockInv
<1>4. ASSUME NEW w \in Workers, ConnectionBreaks(w) PROVE SeveredInside'
  BY <1>4 DEF ConnectionBreaks
<1>5. CASE Restart
  BY <1>5 DEF Restart
<1> QED
  BY <1>1, <1>2, <1>3, <1>4, <1>5 DEF Next, Step

LEMMA LeftBehindStep ==
    TypeOK /\ SeveredInside /\ NoLockIsLeftBehind /\ [Next]_vars => NoLockIsLeftBehind'
<1> SUFFICES ASSUME TypeOK, SeveredInside, NoLockIsLeftBehind, [Next]_vars,
                    NEW u \in Users, lock'[u] # Nobody, u \notin stuck'
             PROVE  Keeps(lock[u], u)'
  BY DEF NoLockIsLeftBehind
<1>0. lock[u] # Nobody => u \in stuck \/ Keeps(lock[u], u)
  BY DEF NoLockIsLeftBehind
<1>1. \A w \in Workers \cup Users : w # Nobody
  BY LockAssumption
<1> USE DEF TypeOK, Keeps, Inside, Goto
<1>2. CASE UNCHANGED vars
  BY <1>0, <1>2 DEF vars
<1>3. ASSUME NEW w \in Workers,
             \/ \E v \in Users : Request(w, v)
             \/ Connect(w) \/ ConnectTimesOut(w) \/ AcquireTimesOut(w) \/ OpenSession(w)
             \/ SessionTimesOut(w) \/ CloseSession(w) \/ Return(w)
      PROVE  Keeps(lock[u], u)'
  BY <1>0, <1>3 DEF Request, Connect, ConnectTimesOut, AcquireTimesOut, OpenSession,
                    SessionTimesOut, CloseSession, Return
<1>4. ASSUME NEW w \in Workers, Acquire(w) PROVE Keeps(lock[u], u)'
  <2>1. CASE u = user[w]
    <3>1. w \notin severed
      BY <1>4 DEF Acquire, SeveredInside
    <3> QED
      BY <1>4, <2>1, <3>1 DEF Acquire
  <2>2. CASE u # user[w]
    BY <1>0, <1>4, <2>2 DEF Acquire
  <2> QED
    BY <2>1, <2>2
<1>5. ASSUME NEW w \in Workers, Release(w) PROVE Keeps(lock[u], u)'
  <2>1. lock'[u] = lock[u] /\ u \notin stuck
    BY <1>5 DEF Release, Freed
  <2>2. Keeps(lock[u], u)
    BY <1>0, <2>1
  <2>3. lock[u] # w
    BY <1>5, <2>1, <2>2 DEF Release, Freed
  <2> QED
    BY <1>5, <2>1, <2>2, <2>3 DEF Release
<1>6. ASSUME NEW w \in Workers, ReleaseFails(w) PROVE Keeps(lock[u], u)'
  BY <1>0, <1>6 DEF ReleaseFails
<1>7. ASSUME NEW w \in Workers, ConnectionBreaks(w) PROVE Keeps(lock[u], u)'
  BY <1>0, <1>7 DEF ConnectionBreaks
<1>8. CASE Restart
  BY <1>8 DEF Restart
<1> QED
  BY <1>2, <1>3, <1>4, <1>5, <1>6, <1>7, <1>8 DEF Next, Step

THEOREM NoLockStaysBehind == Spec => []NoLockIsLeftBehind
<1>1. Init => SeveredInside /\ NoLockIsLeftBehind
  BY DEF Init, SeveredInside, NoLockIsLeftBehind
<1> QED
  BY <1>1, SeveredStep, LeftBehindStep, LockInvariant, LockTypeCorrect, PTL DEF Spec

(***************************************************************************)
(* Both ways of keeping the lock implement the lock AddressbookApi uses.    *)
(***************************************************************************)
Holds(w) == Inside(w) /\ w \notin severed

InsideOf == [w \in Workers |-> IF Holds(w) THEN user[w] ELSE Nobody]

LEMMA InsideChanges ==
  ASSUME NEW w \in Workers, \A v \in Workers \ {w} : InsideOf'[v] = InsideOf[v]
  PROVE  InsideOf' = [InsideOf EXCEPT ![w] = InsideOf'[w]]
  BY DEF InsideOf

LEMMA LockStepRefines == TypeOK /\ LockInv /\ [Next]_vars => [UL!Next]_InsideOf
<1> SUFFICES ASSUME TypeOK, LockInv, [Next]_vars PROVE [UL!Next]_InsideOf
  OBVIOUS
<1> USE DEF TypeOK
<1>1. CASE UNCHANGED vars
  BY <1>1 DEF vars, InsideOf, Holds, Inside
<1>2. ASSUME NEW w \in Workers, NEW u \in Users, Request(w, u) PROVE InsideOf' = InsideOf
  BY <1>2 DEF Request, InsideOf, Holds, Inside, Goto
<1>3. ASSUME NEW w \in Workers,
             Connect(w) \/ ConnectTimesOut(w) \/ AcquireTimesOut(w)
             \/ SessionTimesOut(w) \/ CloseSession(w) \/ Return(w) \/ OpenSession(w)
      PROVE InsideOf' = InsideOf
  BY <1>3 DEF Connect, ConnectTimesOut, AcquireTimesOut, SessionTimesOut, CloseSession, Return,
              OpenSession, InsideOf, Holds, Inside, Goto
<1>4. ASSUME NEW w \in Workers, Acquire(w) PROVE [UL!Next]_InsideOf
  <2>1. user[w] \in Users /\ user' = user
    BY <1>4 DEF Acquire
  <2>2. InsideOf[w] = Nobody
    BY <1>4 DEF Acquire, InsideOf, Holds, Inside
  <2>3. \A v \in Workers : InsideOf[v] # user[w]
    BY <1>4, <2>1, LockAssumption DEF Acquire, InsideOf, Holds, LockInv
  <2>4. \A v \in Workers \ {w} : InsideOf'[v] = InsideOf[v]
    BY <1>4 DEF Acquire, InsideOf, Holds, Inside, Goto
  <2>5. InsideOf'[w] \in {user[w], Nobody}
    BY <2>1 DEF InsideOf
  <2>6. InsideOf' = [InsideOf EXCEPT ![w] = InsideOf'[w]]
    BY <2>4, InsideChanges
  <2>7. CASE InsideOf'[w] = user[w]
    <3>1. PICK u \in Users : u = user[w]
      BY <2>1
    <3>2. UL!Enter(w, u)
      BY <3>1, <2>2, <2>3, <2>6, <2>7 DEF UL!Enter, UL!Free, InsideOf, Holds
    <3> QED
      BY <3>2 DEF UL!Next
  <2>8. CASE InsideOf'[w] = Nobody
    BY <2>6, <2>8 DEF UL!Next, UL!Leave, InsideOf, Holds
  <2> QED
    BY <2>5, <2>7, <2>8
<1>5. ASSUME NEW w \in Workers, Release(w) \/ ReleaseFails(w) \/ ConnectionBreaks(w)
      PROVE [UL!Next]_InsideOf
  <2>1. \A v \in Workers \ {w} : InsideOf'[v] = InsideOf[v]
    BY <1>5 DEF Release, ReleaseFails, ConnectionBreaks, InsideOf, Holds, Inside, Goto
  <2>2. InsideOf'[w] = Nobody
    BY <1>5 DEF Release, ReleaseFails, ConnectionBreaks, InsideOf, Holds, Inside, Goto
  <2>3. InsideOf' = [InsideOf EXCEPT ![w] = Nobody]
    BY <2>1, <2>2, InsideChanges
  <2> QED
    BY <2>3 DEF UL!Next, UL!Leave, InsideOf, Holds
<1>6. CASE Restart
  <2>1. InsideOf' = [w \in Workers |-> Nobody]
    BY <1>6 DEF Restart, InsideOf, Holds, Inside
  <2> QED
    BY <2>1 DEF UL!Next, UL!LeaveAll, InsideOf, Holds
<1> QED
  BY <1>1, <1>2, <1>3, <1>4, <1>5, <1>6 DEF Next, Step

THEOREM LockRefinement == Spec => ImplementsUserLock
<1>1. Init => UL!Init
  BY DEF Init, UL!Init, Inside
<1>2. TypeOK /\ LockInv /\ [Next]_vars => [UL!Next]_InsideOf
  BY LockStepRefines
<1>3. [UL!Next]_InsideOf <=> [UL!Next]_[w \in Workers |-> IF Inside(w) /\ w \notin severed THEN user[w] ELSE Nobody]
  BY DEF InsideOf, Holds
<1> QED
  BY <1>1, <1>2, <1>3, LockTypeCorrect, LockInvariant, PTL DEF Spec, ImplementsUserLock, UL!Spec
=============================================================================
