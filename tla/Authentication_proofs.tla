------------------------ MODULE Authentication_proofs ------------------------
(***************************************************************************)
(* Theorems about Authentication for any number of requests in flight, of   *)
(* subscribers and of nonces, and for every bound and lifetime of the cache. *)
(***************************************************************************)
EXTENDS Authentication, FiniteSetTheorems, WellFoundedInduction, TLAPS

-----------------------------------------------------------------------------
(* A set of numbers has a least one.                                        *)
LEMMA LeastExists ==
    ASSUME NEW S, S \subseteq Nat, S # {}
    PROVE  \E n \in S : \A m \in S : n <= m
<1> DEFINE Less == {p \in Nat \X Nat : p[1] < p[2]}
<1>1. IsWellFoundedOn(Less, Nat)
  BY NatLessThanWellFounded DEF OpToRel
<1>2. PICK n \in S : \A m \in S : ~(<<m, n>> \in Less)
  <2> HIDE DEF Less
  <2> QED
    BY <1>1, WFMin
<1>3. ASSUME NEW m \in S PROVE n <= m
  <2>1. m \in Nat /\ n \in Nat /\ ~(m < n)
    BY <1>2
  <2> QED
    BY <2>1
<1> QED
  BY <1>3

(* Room in the cache.                                                       *)

LEMMA CacheIsFinite ==
    ASSUME TypeOK
    PROVE  /\ Len(issuedAt) \in Nat /\ lost \in Nat /\ now \in Nat
           /\ \A n \in 1 .. Len(issuedAt) : issuedAt[n] \in Nat
           /\ cache \subseteq 1 .. Len(issuedAt) /\ IsFiniteSet(cache)
           /\ Cardinality(cache) \in Nat /\ Cardinality(cache) <= MaxNonces
<1>1. /\ Len(issuedAt) \in Nat /\ lost \in Nat /\ now \in Nat
      /\ \A n \in 1 .. Len(issuedAt) : issuedAt[n] \in Nat
      /\ cache \subseteq 1 .. Len(issuedAt) /\ Cardinality(cache) <= MaxNonces
  BY DEF TypeOK
<1>2. IsFiniteSet(1 .. Len(issuedAt))
  BY <1>1, FS_Interval
<1>3. IsFiniteSet(cache)
  BY <1>1, <1>2, FS_Subset
<1> QED
  BY <1>1, <1>3, FS_CardinalityType

LEMMA OneMore ==
    ASSUME NEW S, NEW x, IsFiniteSet(S)
    PROVE  /\ Cardinality(S) \in Nat /\ Cardinality(S \cup {x}) \in Nat
           /\ Cardinality(S \cup {x}) <= Cardinality(S) + 1
<1>1. /\ IsFiniteSet(S \cup {x})
      /\ Cardinality(S \cup {x}) = IF x \in S THEN Cardinality(S) ELSE Cardinality(S) + 1
  BY FS_AddElement
<1>2. Cardinality(S) \in Nat /\ Cardinality(S \cup {x}) \in Nat
  BY <1>1, FS_CardinalityType
<1> QED
  BY <1>1, <1>2

(* There is room for one more, and what had to go for it is the oldest of   *)
(* a full cache, or expired.                                                *)
LEMMA RoomIsMade ==
    ASSUME TypeOK
    PROVE  /\ Room \subseteq cache
           /\ Cardinality(Room \cup {Len(issuedAt) + 1}) <= MaxNonces
           /\ \A n \in cache \ Room :
                 ~Fresh(n) \/ Len(issuedAt) + 1 - n >= MaxNonces
<1> DEFINE live == {n \in cache : Fresh(n)}
           L == Len(issuedAt)
<1>1. /\ L \in Nat /\ cache \subseteq 1 .. L /\ IsFiniteSet(cache)
      /\ Cardinality(cache) \in Nat /\ Cardinality(cache) <= MaxNonces
      /\ MaxNonces \in Nat \ {0}
  BY CacheIsFinite, AuthAssumption
<1>2. live \subseteq cache /\ IsFiniteSet(live) /\ Cardinality(live) <= Cardinality(cache)
  <2>1. live \in SUBSET cache
    OBVIOUS
  <2> QED
    BY <1>1, <2>1, FS_Subset
<1>3. \A n \in live : n \in Nat /\ n <= L
  <2>1. \A n \in cache : n \in Nat /\ n <= L
    BY <1>1
  <2> QED
    BY <2>1
<1>4. Cardinality(live) \in Nat
  BY <1>2, FS_CardinalityType
<1>5. CASE Cardinality(live) < MaxNonces
  <2>1. Room = live
    BY <1>5 DEF Room
  <2>2. /\ Cardinality(live \cup {L + 1}) \in Nat
        /\ Cardinality(live \cup {L + 1}) <= Cardinality(live) + 1
    BY <1>2, OneMore
  <2>3. Cardinality(live \cup {L + 1}) <= MaxNonces
    BY <1>1, <1>4, <1>5, <2>2
  <2> QED
    BY <2>1, <2>3
<1>6. CASE ~(Cardinality(live) < MaxNonces)
  <2> DEFINE kept == {n \in live : \E m \in live : m < n}
  <2>1. Room = kept
    BY <1>6 DEF Room
  <2>2. Cardinality(live) = MaxNonces /\ live # {}
    BY <1>1, <1>2, <1>4, <1>6, FS_EmptySet
  <2>3. PICK least \in live : \A m \in live : least <= m
    <3>1. live \subseteq Nat
      BY <1>3
    <3> QED
      BY <1>2, <2>2, <3>1, LeastExists
  <2>4. kept = live \ {least}
    BY <1>3, <2>3
  <2>5. IsFiniteSet(kept) /\ Cardinality(kept) = MaxNonces - 1
    BY <1>2, <2>2, <2>3, <2>4, FS_RemoveElement
  <2>6. Cardinality(kept \cup {L + 1}) <= MaxNonces
    <3>1. /\ Cardinality(kept \cup {L + 1}) \in Nat
          /\ Cardinality(kept \cup {L + 1}) <= Cardinality(kept) + 1
      BY <2>5, OneMore
    <3> QED
      BY <1>1, <2>5, <3>1
  <2>7. L + 1 - least >= MaxNonces
    <3>1. live \subseteq least .. L /\ least \in Nat /\ least <= L
      <4> HIDE DEF live
      <4> QED
        BY <1>1, <1>3, <2>3
    <3>2. IsFiniteSet(least .. L) /\ Cardinality(least .. L) = L - least + 1
      BY <1>1, <3>1, FS_Interval
    <3>3. live \in SUBSET (least .. L)
      BY <3>1
    <3>4. Cardinality(live) <= Cardinality(least .. L)
      BY <3>2, <3>3, FS_Subset
    <3> QED
      BY <1>1, <2>2, <3>1, <3>2, <3>4
  <2>8. ASSUME NEW n \in cache \ kept PROVE ~Fresh(n) \/ L + 1 - n >= MaxNonces
    BY <2>4, <2>7
  <2> QED
    BY <2>1, <2>6, <2>8
<1> QED
  BY <1>5, <1>6

-----------------------------------------------------------------------------
(* Every variable keeps its type.                                           *)

State == {Idle} \cup Query \cup Compare \cup Answer

LEMMA OutcomeType ==
    ASSUME NEW r
    PROVE  /\ Entrance(r) # "authenticate" => Entrance(r) \in Outcome
           /\ Authorized(r) \in Outcome
BY DEF Entrance, Handled, Authorized, Outcome

LEMMA AnsweredType ==
    ASSUME TypeOK, NEW w \in Workers, NEW r \in Requests, NEW o \in Outcome,
           Answered(w, r, o), Len(issuedAt') \in Nat, Len(issuedAt) <= Len(issuedAt')
    PROVE  /\ worker' \in [Workers -> State']
           /\ worker'[w].pc = "answered"
           /\ worker'[w].request = r /\ worker'[w].outcome = o
           /\ \A v \in Workers \ {w} : worker'[v] = worker[v]
<1> DEFINE a == [pc |-> "answered", request |-> r, outcome |-> o]
<1>1. a \in Answer
  BY DEF Answer
<1>2. worker \in [Workers -> State] /\ worker' = [worker EXCEPT ![w] = a] /\ Len(issuedAt) \in Nat
  BY DEF TypeOK, Answered, Becomes, State
<1>3. State \subseteq State' /\ Answer \subseteq State'
  <2>1. Query \subseteq Query' /\ Compare \subseteq Compare' /\ Answer' = Answer
    BY <1>2 DEF Query, Compare, Answer
  <2> QED
    BY <2>1 DEF State
<1> QED
  BY <1>1, <1>2, <1>3

LEMMA TypeInit == Init => TypeOK
<1> SUFFICES ASSUME Init PROVE TypeOK
  OBVIOUS
<1>1. cache \subseteq lost + 1 .. Len(issuedAt) /\ Cardinality(cache) <= MaxNonces
  BY FS_EmptySet, AuthAssumption DEF Init
<1>2. worker \in [Workers -> {Idle}]
  BY DEF Init
<1> QED
  BY <1>1, <1>2 DEF Init, TypeOK

LEMMA EnterType ==
    ASSUME TypeOK, NEW w \in Workers, NEW r \in Requests, Enter(w, r)
    PROVE  TypeOK'
<1>1. /\ \E o \in Outcome : Answered(w, r, o)
      /\ UNCHANGED <<environment, nonces>>
  BY OutcomeType DEF Enter, Outcome
<1>2. worker' \in [Workers -> State']
  BY <1>1, AnsweredType DEF TypeOK, nonces
<1> QED
  BY <1>1, <1>2 DEF TypeOK, State, environment, nonces, Query, Compare, Answer

LEMMA ChallengeType ==
    ASSUME TypeOK, NEW w \in Workers, NEW r \in Requests, Challenge(w, r)
    PROVE  TypeOK'
<1>1. Answered(w, r, "challenge") /\ "challenge" \in Outcome
  BY DEF Challenge, Outcome
<1>2. CASE type = "digest"
  <2>1. /\ issuedAt' = Append(issuedAt, now) /\ cache' = Room \cup {Len(issuedAt) + 1}
        /\ UNCHANGED <<environment, spent, lost>>
    BY <1>2 DEF Challenge
  <2>2. /\ issuedAt' \in Seq(Nat) /\ Len(issuedAt') = Len(issuedAt) + 1
        /\ Len(issuedAt) \in Nat /\ lost \in 0 .. Len(issuedAt)
    BY <2>1 DEF TypeOK
  <2>3. worker' \in [Workers -> State']
    BY <1>1, <2>2, AnsweredType
  <2>4. cache' \subseteq lost + 1 .. Len(issuedAt) + 1 /\ Cardinality(cache') <= MaxNonces
    <3>1. Room \subseteq cache /\ cache \subseteq lost + 1 .. Len(issuedAt)
      BY RoomIsMade DEF TypeOK
    <3>2. Room \subseteq lost + 1 .. Len(issuedAt) + 1
      BY <2>2, <3>1
    <3>3. Len(issuedAt) + 1 \in lost + 1 .. Len(issuedAt) + 1
      BY <2>2
    <3>4. cache' \subseteq lost + 1 .. Len(issuedAt) + 1
      BY <2>1, <3>2, <3>3
    <3>5. Cardinality(cache') <= MaxNonces
      BY <2>1, RoomIsMade
    <3> QED
      BY <3>4, <3>5
  <2>5. spent \subseteq 1 .. Len(issuedAt) + 1
    BY <2>2 DEF TypeOK
  <2> QED
    BY <2>1, <2>2, <2>3, <2>4, <2>5 DEF TypeOK, State, environment
<1>3. CASE type # "digest"
  <2>1. UNCHANGED <<environment, nonces>>
    BY <1>3 DEF Challenge, nonces
  <2>2. worker' \in [Workers -> State']
    BY <1>1, <2>1, AnsweredType DEF TypeOK, nonces
  <2> QED
    BY <2>1, <2>2 DEF TypeOK, State, environment, nonces, Query, Compare, Answer
<1> QED
  BY <1>2, <1>3

LEMMA RefuseType ==
    ASSUME TypeOK, NEW w \in Workers, NEW r \in Requests, RefuseHeader(w, r)
    PROVE  TypeOK'
<1>1. /\ \E o \in Outcome : Answered(w, r, o)
      /\ UNCHANGED <<environment, nonces>>
  BY DEF RefuseHeader, Outcome
<1>2. worker' \in [Workers -> State']
  BY <1>1, AnsweredType DEF TypeOK, nonces
<1> QED
  BY <1>1, <1>2 DEF TypeOK, State, environment, nonces, Query, Compare, Answer

LEMMA RequestType ==
    ASSUME TypeOK, NEW r \in Requests
    PROVE  /\ r.user \in Users /\ r.password \in Nat /\ password[r.user] \in Nat
           /\ Account(r) \in Nat \cup {NoAccount}
           /\ Account(r) = NoAccount \/ Account(r) = password[r.user]
<1>1. r.user \in Users /\ r.password \in Nat
  BY AuthAssumption DEF Request
<1>2. password[r.user] \in Nat
  BY <1>1 DEF TypeOK
<1> QED
  BY <1>1, <1>2 DEF Account

(* A request that goes on to the query has a nonce that is cached, or none  *)
(* if it came by basic authentication.                                      *)
LEMMA PresentStates ==
    ASSUME TypeOK, NEW w \in Workers, NEW r \in Requests,
           PresentPassword(w, r) \/ \E n \in 0 .. Len(issuedAt) : PresentNonce(w, r, n)
    PROVE  /\ UNCHANGED <<environment, nonces>>
           /\ \A v \in Workers \ {w} : worker'[v] = worker[v]
           /\ worker' \in [Workers -> State]
           /\ worker'[w].pc # "query" => worker'[w].pc = "answered" /\ worker'[w].outcome = "stale"
           /\ worker'[w].pc = "query" =>
                 /\ worker'[w].request = r /\ worker'[w].since = password[r.user]
                 /\ \/ worker'[w].nonce = 0 /\ type = "basic"
                    \/ worker'[w].nonce \in cache
<1>0. worker \in [Workers -> State] /\ Len(issuedAt) \in Nat /\ password[r.user] \in Nat
  BY RequestType DEF TypeOK, State
<1>1. CASE PresentPassword(w, r)
  <2> DEFINE q == [pc |-> "query", request |-> r, nonce |-> 0, since |-> password[r.user]]
  <2>1. q \in State
    BY <1>0 DEF State, Query
  <2>2. worker' = [worker EXCEPT ![w] = q] /\ type = "basic" /\ UNCHANGED <<environment, nonces>>
    BY <1>1 DEF PresentPassword, Queries, Becomes
  <2> QED
    BY <1>0, <2>1, <2>2
<1>2. ASSUME NEW n \in 0 .. Len(issuedAt), PresentNonce(w, r, n), Live(n) PROVE
           /\ \A v \in Workers \ {w} : worker'[v] = worker[v]
           /\ worker' \in [Workers -> State]
           /\ worker'[w].pc = "query" /\ worker'[w].nonce \in cache
           /\ worker'[w].request = r /\ worker'[w].since = password[r.user]
           /\ UNCHANGED <<environment, nonces>>
  <2> DEFINE q == [pc |-> "query", request |-> r, nonce |-> n, since |-> password[r.user]]
  <2>1. q \in State
    BY <1>0 DEF State, Query
  <2>2. worker' = [worker EXCEPT ![w] = q] /\ n \in cache /\ UNCHANGED <<environment, nonces>>
    BY <1>2 DEF PresentNonce, Queries, Becomes, Live
  <2> QED
    BY <1>0, <2>1, <2>2
<1>3. ASSUME NEW n \in 0 .. Len(issuedAt), PresentNonce(w, r, n), ~Live(n) PROVE
           /\ \A v \in Workers \ {w} : worker'[v] = worker[v]
           /\ worker' \in [Workers -> State]
           /\ worker'[w].pc = "answered" /\ worker'[w].outcome = "stale"
           /\ UNCHANGED <<environment, nonces>>
  <2> DEFINE a == [pc |-> "answered", request |-> r, outcome |-> "stale"]
  <2>1. a \in State
    BY DEF State, Answer, Outcome
  <2>2. worker' = [worker EXCEPT ![w] = a] /\ UNCHANGED <<environment, nonces>>
    BY <1>3 DEF PresentNonce, Becomes, Answered
  <2> QED
    BY <1>0, <2>1, <2>2
<1> QED
  BY <1>1, <1>2, <1>3

LEMMA PresentType ==
    ASSUME TypeOK, NEW w \in Workers, NEW r \in Requests,
           PresentPassword(w, r) \/ \E n \in 0 .. Len(issuedAt) : PresentNonce(w, r, n)
    PROVE  TypeOK'
BY PresentStates DEF TypeOK, State, environment, nonces, Query, Compare, Answer

InFlight == {"query", "compare"}

LEMMA QueryStates ==
    ASSUME TypeOK, NEW w \in Workers, worker[w].pc \in InFlight
    PROVE  /\ worker[w].request \in Requests /\ worker[w].nonce \in 0 .. Len(issuedAt)
           /\ worker[w].since \in Nat
           /\ worker[w].pc = "compare" => worker[w].known \in Nat \cup {NoAccount}
<1>1. worker[w] \in Query \/ worker[w] \in Compare
  BY DEF TypeOK, Query, Compare, Answer, Idle, InFlight
<1> QED
  BY <1>1 DEF Query, Compare

(* The account is read, and nothing else changes.                           *)
LEMMA QueryUserStates ==
    ASSUME TypeOK, NEW w \in Workers, QueryUser(w)
    PROVE  /\ worker[w].pc = "query" /\ UNCHANGED <<environment, nonces>>
           /\ worker' \in [Workers -> State]
           /\ \A v \in Workers \ {w} : worker'[v] = worker[v]
           /\ worker'[w].pc = "compare"
           /\ worker'[w].request = worker[w].request
           /\ worker'[w].nonce = worker[w].nonce
           /\ worker'[w].since = worker[w].since
           /\ worker'[w].known = Account(worker[w].request)
<1> DEFINE q == worker[w]
           c == [pc |-> "compare", request |-> q.request, nonce |-> q.nonce,
                 since |-> q.since, known |-> Account(q.request)]
<1>1. /\ q.pc = "query" /\ UNCHANGED <<environment, nonces>>
      /\ worker' = [worker EXCEPT ![w] = c]
  BY DEF QueryUser, Becomes
<1>2. q.request \in Requests /\ q.nonce \in 0 .. Len(issuedAt) /\ q.since \in Nat
  BY <1>1, QueryStates DEF InFlight
<1>3. c \in State
  <2>1. Account(q.request) \in Nat \cup {NoAccount}
    BY <1>2, RequestType
  <2> QED
    BY <1>2, <2>1 DEF State, Compare
<1>4. worker \in [Workers -> State]
  BY DEF TypeOK, State
<1>5. worker'[w] = c
  BY <1>1, <1>4
<1>6. worker' \in [Workers -> State] /\ \A v \in Workers \ {w} : worker'[v] = worker[v]
  <2> HIDE DEF c
  <2> QED
    BY <1>1, <1>3, <1>4
<1> QED
  BY <1>1, <1>5, <1>6

LEMMA QueryUserType == ASSUME TypeOK, NEW w \in Workers, QueryUser(w) PROVE TypeOK'
BY QueryUserStates DEF TypeOK, State, environment, nonces, Query, Compare, Answer

LEMMA QueryFailsType == ASSUME TypeOK, NEW w \in Workers, QueryFails(w) PROVE TypeOK'
<1>1. /\ Answered(w, worker[w].request, "error") /\ "error" \in Outcome
      /\ UNCHANGED <<environment, nonces>> /\ worker[w].request \in Requests
  BY QueryStates DEF QueryFails, Outcome, InFlight
<1>2. worker' \in [Workers -> State']
  BY <1>1, AnsweredType DEF TypeOK, nonces
<1> QED
  BY <1>1, <1>2 DEF TypeOK, State, environment, nonces, Query, Compare, Answer

(* A comparison fails and changes nothing, or takes the nonce back.         *)
LEMMA VerifyStates ==
    ASSUME TypeOK, NEW w \in Workers, Verify(w)
    PROVE  LET r == worker[w].request
               n == worker[w].nonce
           IN  /\ worker[w].pc = "compare" /\ UNCHANGED <<environment, issuedAt, lost>>
               /\ r \in Requests /\ n \in 0 .. Len(issuedAt)
               /\ \/ Answered(w, r, "refused") /\ UNCHANGED <<cache, spent>>
                  \/ /\ r.password = worker[w].known /\ Answered(w, r, Authorized(r))
                     /\ cache' = cache \ {n} /\ spent' = spent \cup ({n} \ {0})
BY QueryStates DEF Verify, TakeBack, nonces, InFlight

LEMMA VerifyType == ASSUME TypeOK, NEW w \in Workers, Verify(w) PROVE TypeOK'
<1> DEFINE r == worker[w].request
           n == worker[w].nonce
<1>1. /\ UNCHANGED <<environment, issuedAt, lost>> /\ r \in Requests
      /\ n \in 0 .. Len(issuedAt) /\ Len(issuedAt) \in Nat
  BY VerifyStates DEF TypeOK
<1>2. \E o \in Outcome : Answered(w, r, o)
  BY VerifyStates, OutcomeType DEF Outcome
<1>3. worker' \in [Workers -> State']
  BY <1>1, <1>2, AnsweredType
<1>4. cache' \in SUBSET cache
  BY VerifyStates
<1>5. cache' \subseteq lost + 1 .. Len(issuedAt) /\ Cardinality(cache') <= MaxNonces
  <2>1. IsFiniteSet(cache') /\ Cardinality(cache') <= Cardinality(cache)
    BY <1>4, CacheIsFinite, FS_Subset
  <2>2. Cardinality(cache') \in Nat
    BY <2>1, FS_CardinalityType
  <2>3. /\ Cardinality(cache) \in Nat /\ Cardinality(cache) <= MaxNonces
        /\ MaxNonces \in Nat /\ cache \subseteq lost + 1 .. Len(issuedAt)
    BY CacheIsFinite, AuthAssumption DEF TypeOK
  <2> QED
    BY <1>4, <2>1, <2>2, <2>3
<1>6. spent' \subseteq 1 .. Len(issuedAt)
  <2>1. spent \subseteq 1 .. Len(issuedAt) /\ {n} \ {0} \subseteq 1 .. Len(issuedAt)
    BY <1>1 DEF TypeOK
  <2>2. spent' = spent \/ spent' = spent \cup ({n} \ {0})
    BY VerifyStates
  <2> QED
    BY <2>1, <2>2
<1> QED
  BY <1>1, <1>3, <1>5, <1>6 DEF TypeOK, State, environment, Query, Compare, Answer

LEMMA RestartType == ASSUME TypeOK, Restart PROVE TypeOK'
<1>1. /\ Cardinality(cache') <= MaxNonces
      /\ cache' = {} /\ lost' = Len(issuedAt) /\ UNCHANGED <<environment, issuedAt, spent>>
  BY FS_EmptySet, AuthAssumption DEF Restart
<1>2. worker' \in [Workers -> {Idle}]
  BY DEF Restart
<1>3. Len(issuedAt) \in Nat
  BY DEF TypeOK
<1> QED
  BY <1>1, <1>2, <1>3 DEF TypeOK, environment

LEMMA OtherType ==
    ASSUME TypeOK,
           \/ Tick \/ UNCHANGED vars
           \/ \E u \in Users : ChangePassword(u)
           \/ \E w \in Workers : Leave(w)
    PROVE  TypeOK'
<1>1. CASE Tick
  BY <1>1 DEF Tick, TypeOK, nonces, Query, Compare, Answer
<1>2. CASE UNCHANGED vars
  BY <1>2 DEF vars, environment, nonces, TypeOK, Query, Compare, Answer
<1>3. ASSUME NEW u \in Users, ChangePassword(u) PROVE TypeOK'
  <2>1. password' \in [Users -> Nat] /\ UNCHANGED <<type, now, nonces, worker>>
    BY <1>3 DEF ChangePassword, TypeOK
  <2> QED
    BY <2>1 DEF TypeOK, nonces, Query, Compare, Answer
<1>4. ASSUME NEW w \in Workers, Leave(w) PROVE TypeOK'
  <2>1. UNCHANGED <<environment, nonces>> /\ worker' = [worker EXCEPT ![w] = Idle]
    BY <1>4 DEF Leave, Becomes
  <2>2. worker' \in [Workers -> State]
    BY <2>1 DEF TypeOK, State
  <2> QED
    BY <2>1, <2>2 DEF TypeOK, State, environment, nonces, Query, Compare, Answer
<1> QED
  BY <1>1, <1>2, <1>3, <1>4

LEMMA TypeStep == TypeOK /\ [Next]_vars => TypeOK'
<1> SUFFICES ASSUME TypeOK, [Next]_vars PROVE TypeOK'
  OBVIOUS
<1>1. ASSUME NEW w \in Workers, NEW r \in Requests,
             \/ Enter(w, r) \/ Challenge(w, r) \/ RefuseHeader(w, r) \/ PresentPassword(w, r)
             \/ \E n \in 0 .. Len(issuedAt) : PresentNonce(w, r, n)
      PROVE  TypeOK'
  BY <1>1, EnterType, ChallengeType, RefuseType, PresentType
<1>2. ASSUME NEW w \in Workers, QueryUser(w) \/ QueryFails(w) \/ Verify(w) PROVE TypeOK'
  BY <1>2, QueryUserType, QueryFailsType, VerifyType
<1>3. CASE Restart
  BY <1>3, RestartType
<1>4. CASE \/ Tick \/ UNCHANGED vars
           \/ \E u \in Users : ChangePassword(u)
           \/ \E w \in Workers : Leave(w)
  BY <1>4, OtherType
<1> QED
  BY <1>1, <1>2, <1>3, <1>4 DEF Next

(* Every variable keeps its type, and the cache its bound: a challenge to a *)
(* full cache makes room first (auth.py:177).                               *)
THEOREM CacheIsBounded == Spec => []TypeOK
BY TypeInit, TypeStep, PTL DEF Spec

-----------------------------------------------------------------------------
(* What becomes of nonces.                                                  *)

LEMMA NoncesInit == Init => NoNonceIsLost
BY DEF Init, NoNonceIsLost

LEMMA ChallengeKeeps ==
    ASSUME TypeOK, NoNonceIsLost, NEW w \in Workers, NEW r \in Requests, Challenge(w, r),
           type = "digest"
    PROVE  NoNonceIsLost'
<1> DEFINE L == Len(issuedAt)
<1>1. /\ issuedAt' = Append(issuedAt, now) /\ cache' = Room \cup {L + 1}
      /\ now' = now /\ spent' = spent /\ lost' = lost
  BY DEF Challenge, environment
<1>2. /\ L \in Nat /\ now \in Nat /\ lost \in Nat /\ L + 1 = Len(issuedAt')
      /\ issuedAt'[L + 1] = now /\ \A n \in 1 .. L : issuedAt'[n] = issuedAt[n]
      /\ Expiration \in Nat \ {0} /\ MaxNonces \in Nat \ {0}
  BY <1>1, CacheIsFinite, AuthAssumption DEF TypeOK
<1> SUFFICES ASSUME NEW n \in 1 .. Len(issuedAt')
             PROVE  \/ Live(n)' \/ n \in spent' \/ ~Fresh(n)' \/ n <= lost'
                    \/ Len(issuedAt') - n >= MaxNonces
  BY DEF NoNonceIsLost
<1>3. CASE n = L + 1
  BY <1>1, <1>2, <1>3 DEF Live, Fresh
<1>4. CASE n \in 1 .. L
  <2>1. Fresh(n)' <=> Fresh(n)
    BY <1>1, <1>2, <1>4 DEF Fresh
  <2>2. CASE Live(n)
    <3>1. n \in Room \/ ~Fresh(n) \/ L + 1 - n >= MaxNonces
      BY <2>2, RoomIsMade DEF Live
    <3> QED
      BY <1>1, <1>2, <2>1, <3>1 DEF Live
  <2>3. CASE L - n >= MaxNonces
    BY <1>2, <1>4, <2>3
  <2> QED
    BY <1>1, <1>4, <2>1, <2>2, <2>3 DEF NoNonceIsLost
<1> QED
  BY <1>2, <1>3, <1>4

LEMMA NoncesStep == TypeOK /\ NoNonceIsLost /\ [Next]_vars => NoNonceIsLost'
<1> SUFFICES ASSUME TypeOK, NoNonceIsLost, [Next]_vars PROVE NoNonceIsLost'
  OBVIOUS
<1>1. ASSUME NEW w \in Workers, NEW r \in Requests, Challenge(w, r), type = "digest"
      PROVE  NoNonceIsLost'
  BY <1>1, ChallengeKeeps
<1>2. ASSUME UNCHANGED <<issuedAt, lost, now>>, cache \subseteq cache' \cup spent', spent \subseteq spent'
      PROVE  NoNonceIsLost'
  BY <1>2 DEF NoNonceIsLost, Live, Fresh
<1>3. ASSUME NEW w \in Workers, NEW r \in Requests,
             \/ Enter(w, r) \/ RefuseHeader(w, r) \/ PresentPassword(w, r)
             \/ Challenge(w, r) /\ type # "digest"
             \/ \E n \in 0 .. Len(issuedAt) : PresentNonce(w, r, n)
      PROVE  UNCHANGED <<issuedAt, lost, now, cache, spent>>
  BY <1>3 DEF Enter, RefuseHeader, PresentPassword, Challenge, PresentNonce, environment, nonces
<1>4. ASSUME NEW w \in Workers, QueryUser(w) \/ QueryFails(w) \/ Leave(w)
      PROVE  UNCHANGED <<issuedAt, lost, now, cache, spent>>
  BY <1>4 DEF QueryUser, QueryFails, Leave, environment, nonces
<1>5. ASSUME NEW w \in Workers, Verify(w) PROVE NoNonceIsLost'
  <2>1. 0 \notin cache
    BY CacheIsFinite
  <2>2. UNCHANGED <<issuedAt, lost, now>> /\ cache \subseteq cache' \cup spent' /\ spent \subseteq spent'
    BY <1>5, <2>1, VerifyStates DEF environment
  <2> QED
    BY <1>2, <2>2
<1>6. CASE Tick
  <2>1. /\ now' = now + 1 /\ now \in Nat /\ Expiration \in Nat
        /\ UNCHANGED <<issuedAt, lost, cache, spent>>
        /\ \A n \in 1 .. Len(issuedAt) : issuedAt[n] \in Nat
    BY <1>6, CacheIsFinite, AuthAssumption DEF Tick, nonces
  <2>2. \A n \in 1 .. Len(issuedAt) : ~Fresh(n) => ~Fresh(n)'
    BY <2>1 DEF Fresh
  <2> QED
    BY <2>1, <2>2 DEF NoNonceIsLost, Live
<1>7. CASE Restart
  <2>1. UNCHANGED issuedAt /\ lost' = Len(issuedAt) /\ Len(issuedAt) \in Nat
    BY <1>7, CacheIsFinite DEF Restart
  <2> QED
    BY <2>1 DEF NoNonceIsLost
<1>8. CASE UNCHANGED vars \/ \E u \in Users : ChangePassword(u)
  BY <1>2, <1>8 DEF vars, environment, nonces, ChangePassword
<1> QED
  BY <1>1, <1>2, <1>3, <1>4, <1>5, <1>6, <1>7, <1>8 DEF Next

(* A nonce is good until a request is accepted with it, it expires, the     *)
(* server restarts, or MaxNonces others were given out after it.            *)
THEOREM NoncesAreKept == Spec => []NoNonceIsLost
BY NoncesInit, NoncesStep, CacheIsBounded, PTL DEF Spec

-----------------------------------------------------------------------------
(* What is cached has not been spent, a digest is checked with a nonce, and *)
(* the password that was read was the user's at some moment since the       *)
(* request came: passwords are counted upwards.                             *)

CredentialsInv ==
    /\ cache \cap spent = {}
    /\ \A w \in Workers : worker[w].pc \in InFlight /\ type = "digest" => worker[w].nonce # 0
    /\ \A w \in Workers :
          worker[w].pc = "query" => worker[w].since <= password[worker[w].request.user]
    /\ \A w \in Workers :
          worker[w].pc = "compare" =>
              \/ worker[w].known = NoAccount
              \/ worker[w].known \in worker[w].since .. password[worker[w].request.user]

LEMMA CredentialsInit == Init => CredentialsInv
BY DEF Init, CredentialsInv, Idle, InFlight

(* How the worker of a step and the others change.                          *)
LEMMA AnswerLeaves ==
    ASSUME TypeOK, NEW w \in Workers, NEW r, NEW o, Answered(w, r, o)
    PROVE  /\ worker'[w].pc = "answered" /\ worker'[w].request = r /\ worker'[w].outcome = o
           /\ \A v \in Workers \ {w} : worker'[v] = worker[v]
BY DEF TypeOK, Answered, Becomes

Presents(w, r) == PresentPassword(w, r) \/ \E n \in 0 .. Len(issuedAt) : PresentNonce(w, r, n)

(* Only PresentNonce and PresentPassword bring a request to its query, and  *)
(* only QueryUser to its comparison.                                        *)
LEMMA HowInFlight ==
    ASSUME TypeOK, [Next]_vars, NEW w \in Workers, worker'[w].pc \in InFlight
    PROVE  \/ worker'[w] = worker[w]
           \/ worker'[w].pc = "query" /\ worker[w] = Idle /\ \E r \in Requests : Presents(w, r)
           \/ QueryUser(w)
<1> DEFINE kept == worker'[w] = worker[w]
<1>1. ASSUME NEW v \in Workers, NEW r, NEW o, Answered(v, r, o) PROVE kept
  <2>1. v = w => worker'[w].pc = "answered"
    BY <1>1, AnswerLeaves
  <2>2. v # w => kept
    BY <1>1, AnswerLeaves
  <2> QED
    BY <2>1, <2>2 DEF InFlight
<1>2. ASSUME NEW v \in Workers, NEW r \in Requests, Enter(v, r) \/ Challenge(v, r) \/ RefuseHeader(v, r)
      PROVE  kept
  BY <1>1, <1>2 DEF Enter, Challenge, RefuseHeader
<1>3. ASSUME NEW v \in Workers, QueryFails(v) \/ Verify(v) PROVE kept
  BY <1>1, <1>3 DEF QueryFails, Verify
<1>4. CASE Tick \/ UNCHANGED vars \/ \E u \in Users : ChangePassword(u)
  BY <1>4 DEF Tick, vars, ChangePassword
<1>5. CASE Restart \/ \E v \in Workers : Leave(v)
  BY <1>5 DEF Restart, Leave, Becomes, Idle, TypeOK, InFlight
<1>6. ASSUME NEW v \in Workers, v # w, QueryUser(v) PROVE kept
  BY <1>6, QueryUserStates
<1>7. ASSUME NEW v \in Workers, v # w, NEW r \in Requests, Presents(v, r) PROVE kept
  BY <1>7, PresentStates DEF Presents
<1>8. ASSUME NEW r \in Requests, Presents(w, r) PROVE worker'[w].pc = "query" /\ worker[w] = Idle
  <2>1. worker[w] = Idle
    BY <1>8 DEF Presents, PresentPassword, PresentNonce, NeedsCredentials
  <2>2. worker'[w].pc # "query" => worker'[w].pc = "answered"
    BY <1>8, PresentStates DEF Presents
  <2> QED
    BY <2>1, <2>2 DEF InFlight
<1> QED
  BY <1>2, <1>3, <1>4, <1>5, <1>6, <1>7, <1>8 DEF Next, Presents

(* The type of authentication stays as it is configured; passwords only     *)
(* change to later ones.                                                    *)
LEMMA EnvironmentStep ==
    ASSUME TypeOK, [Next]_vars
    PROVE  /\ type' = type
           /\ \A u \in Users : password[u] \in Nat /\ password'[u] \in Nat /\ password[u] <= password'[u]
<1>0. \A u \in Users : password[u] \in Nat
  BY DEF TypeOK
<1>1. ASSUME NEW w \in Workers, NEW r \in Requests,
             Enter(w, r) \/ RefuseHeader(w, r) \/ Challenge(w, r) \/ Presents(w, r)
      PROVE  type' = type /\ password' = password
  BY <1>1 DEF Enter, RefuseHeader, Challenge, Presents, PresentPassword, PresentNonce, environment
<1>2. ASSUME NEW w \in Workers, QueryUser(w) \/ QueryFails(w) \/ Verify(w) \/ Leave(w)
      PROVE  type' = type /\ password' = password
  BY <1>2 DEF QueryUser, QueryFails, Verify, Leave, environment
<1>3. CASE Tick \/ Restart \/ UNCHANGED vars
  BY <1>0, <1>3 DEF Tick, Restart, vars, environment
<1>4. ASSUME NEW u \in Users, ChangePassword(u)
      PROVE  type' = type /\ password' = [password EXCEPT ![u] = @ + 1]
  BY <1>4 DEF ChangePassword
<1>5. ASSUME NEW u \in Users, ChangePassword(u)
      PROVE  \A v \in Users : password'[v] \in Nat /\ password[v] <= password'[v]
  <2> SUFFICES ASSUME NEW v \in Users PROVE password'[v] \in Nat /\ password[v] <= password'[v]
    OBVIOUS
  <2>1. password'[v] = IF v = u THEN password[u] + 1 ELSE password[v]
    BY <1>4, <1>5 DEF TypeOK
  <2> QED
    BY <1>0, <2>1
<1> QED
  BY <1>0, <1>1, <1>2, <1>3, <1>4, <1>5 DEF Next, Presents

LEMMA SpentStep ==
    ASSUME TypeOK, CredentialsInv, [Next]_vars
    PROVE  cache' \cap spent' = {}
<1>1. ASSUME NEW w \in Workers, NEW r \in Requests, Challenge(w, r) PROVE cache' \cap spent' = {}
  <2>1. spent' = spent /\ (cache' = cache \/ cache' = Room \cup {Len(issuedAt) + 1})
    BY <1>1 DEF Challenge
  <2>2. Room \subseteq cache /\ Len(issuedAt) + 1 \notin spent
    BY RoomIsMade DEF TypeOK
  <2> QED
    BY <2>1, <2>2 DEF CredentialsInv
<1>2. ASSUME NEW w \in Workers, Verify(w) PROVE cache' \cap spent' = {}
  BY <1>2, VerifyStates DEF CredentialsInv
<1>3. ASSUME NEW w \in Workers, NEW r \in Requests,
             Enter(w, r) \/ RefuseHeader(w, r) \/ Presents(w, r)
      PROVE  UNCHANGED <<cache, spent>>
  BY <1>3 DEF Enter, RefuseHeader, Presents, PresentPassword, PresentNonce, nonces
<1>4. ASSUME NEW w \in Workers, QueryUser(w) \/ QueryFails(w) \/ Leave(w) PROVE UNCHANGED <<cache, spent>>
  BY <1>4 DEF QueryUser, QueryFails, Leave, nonces
<1>5. CASE Restart
  BY <1>5 DEF Restart
<1>6. CASE Tick \/ UNCHANGED vars \/ \E u \in Users : ChangePassword(u)
  BY <1>6 DEF Tick, vars, nonces, ChangePassword, CredentialsInv
<1> QED
  BY <1>1, <1>2, <1>3, <1>4, <1>5, <1>6 DEF Next, Presents, CredentialsInv

(* What is known of the credentials of one request.                         *)
Known(w) ==
    /\ type = "digest" => worker[w].nonce # 0
    /\ worker[w].pc = "query" => worker[w].since <= password[worker[w].request.user]
    /\ worker[w].pc = "compare" =>
          \/ worker[w].known = NoAccount
          \/ worker[w].known \in worker[w].since .. password[worker[w].request.user]

LEMMA KnownStep ==
    ASSUME TypeOK, TypeOK', CredentialsInv, [Next]_vars, NEW w \in Workers, worker'[w].pc \in InFlight
    PROVE  Known(w)'
<1>1. /\ type' = type
      /\ \A u \in Users : password[u] \in Nat /\ password'[u] \in Nat /\ password[u] <= password'[u]
  BY EnvironmentStep
<1>2. CASE worker'[w] = worker[w]
  <2> DEFINE u == worker[w].request.user
  <2>1. worker[w].pc \in InFlight
    BY <1>2
  <2>2. u \in Users /\ worker[w].since \in Nat
    BY <2>1, QueryStates, RequestType
  <2>3. password[u] \in Nat /\ password'[u] \in Nat /\ password[u] <= password'[u]
    BY <1>1, <2>2
  <2>4. Known(w)
    BY <2>1 DEF CredentialsInv, Known
  <2>5. worker[w].pc = "compare" => worker[w].known \in Nat \cup {NoAccount}
    BY <2>1, QueryStates
  <2>6. worker[w].pc = "query" => worker[w].since <= password'[u]
    BY <2>2, <2>3, <2>4 DEF Known
  <2>7. worker[w].pc = "compare" =>
            worker[w].known = NoAccount \/ worker[w].known \in worker[w].since .. password'[u]
    BY <2>2, <2>3, <2>4 DEF Known
  <2> QED
    BY <1>1, <1>2, <2>4, <2>6, <2>7 DEF Known
<1>3. ASSUME worker'[w].pc = "query", NEW r \in Requests, Presents(w, r) PROVE Known(w)'
  <2>1. /\ UNCHANGED <<environment, nonces>>
        /\ worker'[w].request = r /\ worker'[w].since = password[r.user]
        /\ \/ worker'[w].nonce = 0 /\ type = "basic"
           \/ worker'[w].nonce \in cache
    BY <1>3, PresentStates DEF Presents
  <2>2. 0 \notin cache /\ password[r.user] \in Nat
    BY CacheIsFinite, RequestType
  <2> QED
    BY <1>3, <2>1, <2>2 DEF Known, environment
<1>4. CASE QueryUser(w)
  <2> DEFINE q == worker[w]
             u == q.request.user
  <2>1. /\ q.pc = "query" /\ UNCHANGED <<environment, nonces>>
        /\ worker'[w].pc = "compare" /\ worker'[w].request = q.request
        /\ worker'[w].nonce = q.nonce /\ worker'[w].since = q.since
        /\ worker'[w].known = Account(q.request)
    BY <1>4, QueryUserStates
  <2>2. q.request \in Requests /\ q.since \in Nat
    BY <2>1, QueryStates DEF InFlight
  <2>3. password[u] \in Nat /\ (Account(q.request) = NoAccount \/ Account(q.request) = password[u])
    BY <2>2, RequestType
  <2>4. q.since <= password[u] /\ (type = "digest" => q.nonce # 0)
    BY <2>1 DEF CredentialsInv, InFlight
  <2>5. password' = password
    BY <2>1 DEF environment
  <2>6. Account(q.request) = NoAccount \/ Account(q.request) \in q.since .. password[u]
    BY <2>2, <2>3, <2>4
  <2> QED
    BY <1>1, <2>1, <2>4, <2>5, <2>6 DEF Known
<1> QED
  BY <1>2, <1>3, <1>4, HowInFlight

LEMMA CredentialsStep == TypeOK /\ CredentialsInv /\ [Next]_vars => CredentialsInv'
<1> SUFFICES ASSUME TypeOK, CredentialsInv, [Next]_vars PROVE CredentialsInv'
  OBVIOUS
<1>1. TypeOK'
  BY TypeStep
<1>2. cache' \cap spent' = {}
  BY SpentStep
<1>3. \A w \in Workers : worker'[w].pc \in InFlight => Known(w)'
  BY <1>1, KnownStep
<1> QED
  BY <1>2, <1>3 DEF CredentialsInv, Known, InFlight

LEMMA CredentialsInvariant == Spec => []CredentialsInv
BY CredentialsInit, CredentialsStep, CacheIsBounded, PTL DEF Spec

(* A nonce serves once: no request passes the nonce check with a nonce that *)
(* another was accepted with, across expiries, evictions and restarts.      *)
THEOREM NoncesServeOnce == Spec => NonceServesOnce
<1>1. ASSUME TypeOK, CredentialsInv, [Next]_vars, NEW w \in Workers,
             worker[w] = Idle, worker'[w].pc = "query"
      PROVE  worker'[w].nonce \notin spent
  <2>1. worker[w].pc # "query"
    BY <1>1 DEF Idle
  <2>2. \E r \in Requests : Presents(w, r)
    BY <1>1, <2>1, HowInFlight, QueryUserStates DEF InFlight
  <2>3. worker'[w].nonce = 0 \/ worker'[w].nonce \in cache
    BY <1>1, <2>2, PresentStates DEF Presents
  <2>4. 0 \notin spent
    BY <1>1 DEF TypeOK
  <2> QED
    BY <1>1, <2>3, <2>4 DEF CredentialsInv
<1>2. TypeOK /\ CredentialsInv /\ [Next]_vars =>
        [\A w \in Workers :
            worker[w] = Idle /\ worker'[w].pc = "query" => worker'[w].nonce \notin spent]_vars
  BY <1>1
<1> QED
  BY <1>2, CacheIsBounded, CredentialsInvariant, PTL DEF Spec, NonceServesOnce

-----------------------------------------------------------------------------
(* Who is served.                                                           *)

OwnerIsServed(w) ==
    LET r == worker'[w].request IN
    /\ worker[w] # worker'[w] /\ worker'[w].pc = "answered"
    /\ worker'[w].outcome = "served" /\ Entrance(r) = "authenticate"
    => /\ worker[w].pc = "compare" /\ r.user = r.owner
       /\ r.password \in worker[w].since .. password[r.owner]
       /\ type = "digest" => worker[w].nonce \in 1 .. Len(issuedAt)

LEMMA ServedByVerify ==
    ASSUME TypeOK, CredentialsInv, NEW w \in Workers, Verify(w)
    PROVE  OwnerIsServed(w)
<1> DEFINE r == worker[w].request
<1>1. /\ worker[w].pc = "compare" /\ worker[w].nonce \in 0 .. Len(issuedAt) /\ r \in Requests
      /\ \/ Answered(w, r, "refused")
         \/ r.password = worker[w].known /\ Answered(w, r, Authorized(r))
  BY VerifyStates
<1>2. worker'[w].request = r
  BY <1>1, AnswerLeaves
<1>3. CASE worker'[w].outcome = "served"
  <2>1. r.password = worker[w].known /\ Authorized(r) = "served"
    BY <1>1, <1>3, AnswerLeaves
  <2>2. r.user = r.owner
    BY <2>1 DEF Authorized
  <2>3. r.password \in worker[w].since .. password[r.owner]
    <3>1. r.password \in Nat
      BY <1>1, RequestType
    <3>2. worker[w].known # NoAccount
      BY <2>1, <3>1 DEF NoAccount
    <3>3. worker[w].known \in worker[w].since .. password[r.user]
      BY <1>1, <3>2 DEF CredentialsInv
    <3> QED
      BY <2>1, <2>2, <3>3
  <2>4. type = "digest" => worker[w].nonce \in 1 .. Len(issuedAt)
    BY <1>1 DEF CredentialsInv, TypeOK, InFlight
  <2> QED
    BY <1>1, <1>2, <2>2, <2>3, <2>4 DEF OwnerIsServed
<1> QED
  BY <1>3 DEF OwnerIsServed

LEMMA OthersAreNotServed ==
    ASSUME TypeOK, NEW w \in Workers, NEW v \in Workers, NEW r, NEW o, Answered(v, r, o),
           o = "served" => Entrance(r) # "authenticate" \/ v # w
    PROVE  OwnerIsServed(w)
BY AnswerLeaves DEF OwnerIsServed

(* Behind the entrance only the owner of a document is served, with a       *)
(* password that was the owner's at some moment since the nonce was checked *)
(* (it is read in a session that ends before it is compared), and by digest *)
(* with a nonce that was given out (auth.py:144-160, 213-243).              *)
THEOREM OwnersAreServed == Spec => OnlyTheOwnerIsServed
<1>1. ASSUME TypeOK, CredentialsInv, [Next]_vars, NEW w \in Workers PROVE OwnerIsServed(w)
  <2>1. ASSUME NEW v \in Workers, NEW r \in Requests, Enter(v, r) PROVE OwnerIsServed(w)
    <3>1. \/ Entrance(r) # "authenticate" /\ Answered(v, r, Entrance(r))
          \/ Answered(v, r, "error")
      BY <2>1 DEF Enter
    <3> QED
      BY <1>1, <3>1, OthersAreNotServed
  <2>2. ASSUME NEW v \in Workers, NEW r \in Requests, Challenge(v, r) \/ RefuseHeader(v, r)
        PROVE  OwnerIsServed(w)
    <3>1. Answered(v, r, "challenge") \/ Answered(v, r, "refused") \/ Answered(v, r, "error")
      BY <2>2 DEF Challenge, RefuseHeader
    <3> QED
      BY <1>1, <3>1, OthersAreNotServed
  <2>3. ASSUME NEW v \in Workers, NEW r \in Requests, Presents(v, r) PROVE OwnerIsServed(w)
    BY <1>1, <2>3, PresentStates DEF Presents, OwnerIsServed
  <2>4. ASSUME NEW v \in Workers, QueryFails(v) PROVE OwnerIsServed(w)
    BY <1>1, <2>4, OthersAreNotServed DEF QueryFails
  <2>5. ASSUME NEW v \in Workers, Verify(v) PROVE OwnerIsServed(w)
    <3>1. CASE v = w
      BY <1>1, <2>5, <3>1, ServedByVerify
    <3>2. CASE v # w
      BY <1>1, <2>5, <3>2, VerifyStates, OthersAreNotServed
    <3> QED
      BY <3>1, <3>2
  <2>6. CASE Tick \/ UNCHANGED vars \/ \E u \in Users : ChangePassword(u)
    BY <2>6 DEF Tick, vars, ChangePassword, OwnerIsServed
  <2>7. CASE Restart \/ \E v \in Workers : Leave(v)
    BY <1>1, <2>7 DEF Restart, Leave, Becomes, Idle, TypeOK, OwnerIsServed
  <2>8. ASSUME NEW v \in Workers, QueryUser(v) PROVE OwnerIsServed(w)
    BY <1>1, <2>8, QueryUserStates DEF OwnerIsServed
  <2> QED
    BY <1>1, <2>1, <2>2, <2>3, <2>4, <2>5, <2>6, <2>7, <2>8 DEF Next, Presents
<1>2. TypeOK /\ CredentialsInv /\ [Next]_vars => [\A w \in Workers : OwnerIsServed(w)]_vars
  BY <1>1
<1>3. Spec => [][\A w \in Workers : OwnerIsServed(w)]_vars
  BY <1>2, CacheIsBounded, CredentialsInvariant, PTL DEF Spec
<1> QED
  BY <1>3, PTL DEF OnlyTheOwnerIsServed, OwnerIsServed
=============================================================================
