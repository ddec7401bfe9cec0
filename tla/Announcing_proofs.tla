-------------------------- MODULE Announcing_proofs --------------------------
(***************************************************************************)
(* Theorems about XcapDiff, and about Announcing, which puts what           *)
(* subscribers are sent behind it: for any number of requests, documents    *)
(* and users, for every length of the wait, and however lookups overlap and *)
(* fail.                                                                    *)
(***************************************************************************)
EXTENDS Announcing, FiniteSetTheorems, WellFoundedInduction, SequenceTheorems, TLAPS

-----------------------------------------------------------------------------
(* A set of numbers has a least one.                                        *)
LEMMA LeastExists ==
    ASSUME NEW S, S \subseteq Nat, S # {}
    PROVE  \E n \in S : \A m \in S : n <= m
<1> DEFINE Less == {p \in Nat \X Nat : p[1] < p[2]}
<1>1. IsWellFoundedOn(Less, Nat)
  BY NatLessThanWellFounded DEF OpToRel
<1>2. PICK n \in S : \A m \in S : ~(<<m, n>> \in Less)
  <2> HIDE DEF Less
  <2> QED
    BY <1>1, WFMin
<1>3. ASSUME NEW m \in S PROVE n <= m
  <2>1. m \in Nat /\ n \in Nat /\ ~(m < n)
    BY <1>2
  <2> QED
    BY <2>1
<1> QED
  BY <1>3

(* One with an upper bound has a greatest: the one least far from the bound. *)
LEMMA GreatestExists ==
    ASSUME NEW n \in Nat, NEW S, S \subseteq 1 .. n, S # {}
    PROVE  \E k \in S : \A m \in S : m <= k
<1> DEFINE T == {n - k : k \in S}
<1>1. T \subseteq Nat /\ T # {}
  <2>1. \A k \in S : n - k \in Nat
    OBVIOUS
  <2> QED
    BY <2>1
<1>2. PICK t \in T : \A s \in T : t <= s
  <2> HIDE DEF T
  <2> QED
    BY <1>1, LeastExists
<1>3. PICK k \in S : t = n - k
  OBVIOUS
<1>4. ASSUME NEW m \in S PROVE m <= k
  <2>1. n - m \in T /\ m \in Int /\ k \in Int
    OBVIOUS
  <2> QED
    BY <1>2, <1>3, <2>1
<1> QED
  BY <1>4

(* Diffs and what is pending.                                               *)

Tags == [old : Nat, new : Nat]

LEMMA NoChanges == ASSUME NEW u PROVE IsDiffOf(u, <<>>) /\ DOMAIN <<>> = {}
<1>1. <<>> \in Seq(Tags) /\ Len(<<>>) = 0
  OBVIOUS
<1>2. <<>> \in [1 .. 0 -> Tags]
  BY <1>1, LenProperties
<1>3. 1 .. 0 = {}
  OBVIOUS
<1> QED
  BY <1>2, <1>3 DEF IsDiffOf, Tags

LEMMA DiffType ==
    ASSUME NEW u, NEW f, IsDiffOf(u, f)
    PROVE  /\ \A d \in DOMAIN f : d \in Documents /\ User[d] = u /\ f[d] \in Tags
           /\ f = [d \in DOMAIN f |-> f[d]]
BY DEF IsDiffOf, Tags

LEMMA AddChangeType ==
    ASSUME NEW u, NEW f, IsDiffOf(u, f), NEW c \in Change, User[c.doc] = u
    PROVE  /\ IsDiffOf(u, AddChange(f, c))
           /\ DOMAIN AddChange(f, c) = DOMAIN f \cup {c.doc}
           /\ AddChange(f, c)[c.doc].new = c.new
           /\ AddChange(f, c)[c.doc].old = IF c.doc \in DOMAIN f THEN f[c.doc].old ELSE c.old
           /\ \A d \in DOMAIN f \ {c.doc} : AddChange(f, c)[d] = f[d]
<1> DEFINE D == DOMAIN f \cup {c.doc}
<1>1. D \in SUBSET {d \in Documents : User[d] = u}
  BY DiffType DEF Change
<1>2. \A d \in DOMAIN f : f[d] \in Tags
  BY DiffType
<1>3. AddChange(f, c) \in [D -> Tags]
  BY <1>2 DEF AddChange, Change, Tags
<1>4. IsDiffOf(u, AddChange(f, c))
  BY <1>1, <1>3 DEF IsDiffOf, Tags
<1>5. DOMAIN AddChange(f, c) = D
  BY <1>3
<1> QED
  BY <1>4, <1>5, <1>2 DEF AddChange, Tags

(* f is p with the change c of the user u added.                            *)
IsAdded(u, p, c, f) ==
    /\ IsDiffOf(u, f) /\ DOMAIN f = DOMAIN p \cup {c.doc}
    /\ f[c.doc].new = c.new
    /\ f[c.doc].old = IF c.doc \in DOMAIN p THEN p[c.doc].old ELSE c.old
    /\ \A e \in DOMAIN p \ {c.doc} : f[e] = p[e]

LEMMA AddedChange ==
    ASSUME NEW u, NEW p, IsDiffOf(u, p), NEW c \in Change, User[c.doc] = u,
           NEW f, f = AddChange(p, c)
    PROVE  IsAdded(u, p, c, f)
BY AddChangeType DEF IsAdded

LEMMA IdleType == Idle \in State
BY DEF Idle, State

LEMMA AnsweredType ==
    ASSUME TypeOK, NEW w \in Workers, writer[w].pc = "answered"
    PROVE  /\ writer[w].change \in Change
           /\ User[writer[w].change.doc] \in Users
BY DEF TypeOK, State, Idle, Users, Change

LEMMA WriteType ==
    ASSUME TypeOK, NEW w \in Workers, writer[w].pc = "write"
    PROVE  /\ writer[w].doc \in Documents /\ writer[w].row \in [etag : Nat, born : Nat]
           /\ writer[w].kind \in {"put", "delete"}
BY DEF TypeOK, State, Idle

LEMMA AnnounceType ==
    ASSUME NEW d \in Documents, NEW old \in Nat, NEW new \in Nat
    PROVE  /\ Announce(d, old, new) \in State /\ Announce(d, old, new).pc = "answered"
           /\ Announce(d, old, new).change.doc = d
           /\ Announce(d, old, new).change.old = old
           /\ Announce(d, old, new).change.new = new
BY DEF Announce, State, Change

LEMMA PublishedType ==
    ASSUME TypeOK, NEW u \in Users, NEW f, IsDiffOf(u, f), Published(u, f)
    PROVE  /\ published' = [i \in 1 .. Len(published') |-> published'[i]]
           /\ Len(published) \in Nat /\ Len(published') = Len(published) + 1
           /\ DOMAIN published = 1 .. Len(published)
           /\ DOMAIN published' = 1 .. Len(published) + 1
           /\ published'[Len(published) + 1] = [user |-> u, at |-> now, diff |-> f]
           /\ \A i \in 1 .. Len(published) : published'[i] = published[i]
           /\ missed' \subseteq missed
<1> DEFINE new == [user |-> u, at |-> now, diff |-> f]
           S == {published[i] : i \in 1 .. Len(published)} \cup {new}
<1>1. published \in [1 .. Len(published) -> S] /\ Len(published) \in Nat
  BY DEF TypeOK
<1>2. published \in Seq(S)
  BY <1>1, SeqDef
<1>3. published' = Append(published, new) /\ missed' \subseteq missed /\ new \in S
  BY DEF Published
<1>4. published' \in Seq(S) /\ Len(published') = Len(published) + 1
  BY <1>2, <1>3
<1> HIDE DEF new, S
<1>5. published' \in [1 .. Len(published') -> S]
  BY <1>4
<1> QED
  BY <1>1, <1>2, <1>3, <1>4, <1>5 DEF new

-----------------------------------------------------------------------------
(* How the notifier changes.                                                *)

(* Both publications: on the spot and by the delayed call.                  *)
Publishes(u, f) ==
    /\ changes' = [changes EXCEPT ![u] = <<>>]
    /\ \/ Published(u, f)
       \/ Raised(f)

LEMMA ChangesSet ==
    ASSUME TypeOK, NEW u \in Users, NEW f, IsDiffOf(u, f), changes' = [changes EXCEPT ![u] = f]
    PROVE  /\ changes' = [v \in Users |-> changes'[v]]
           /\ changes'[u] = f /\ \A v \in Users \ {u} : changes'[v] = changes[v]
           /\ \A v \in Users : IsDiffOf(v, changes'[v])
<1>1. /\ changes' = [v \in Users |-> changes'[v]]
      /\ changes'[u] = f /\ \A v \in Users \ {u} : changes'[v] = changes[v]
  BY DEF TypeOK
<1> QED
  BY <1>1 DEF TypeOK

LEMMA PublishesType ==
    ASSUME TypeOK, NEW u \in Users, NEW f, IsDiffOf(u, f), Publishes(u, f)
    PROVE  /\ changes' = [v \in Users |-> changes'[v]]
           /\ changes'[u] = <<>> /\ \A v \in Users \ {u} : changes'[v] = changes[v]
           /\ \A v \in Users : IsDiffOf(v, changes'[v])
           /\ missed' \subseteq Documents
           /\ published' = [i \in 1 .. Len(published') |-> published'[i]] /\ Len(published') \in Nat
           /\ \A i \in DOMAIN published' : published'[i].user \in Users
                                           /\ IsDiffOf(published'[i].user, published'[i].diff)
<1>1. /\ changes' = [v \in Users |-> changes'[v]]
      /\ changes'[u] = <<>> /\ \A v \in Users \ {u} : changes'[v] = changes[v]
      /\ \A v \in Users : IsDiffOf(v, changes'[v])
  BY NoChanges, ChangesSet DEF Publishes
<1>2. CASE Published(u, f)
  <2>1. \A i \in DOMAIN published : published[i].user \in Users
                                    /\ IsDiffOf(published[i].user, published[i].diff)
    BY DEF TypeOK
  <2>2. missed \subseteq Documents
    BY DEF TypeOK
  <2>3. /\ published' = [i \in 1 .. Len(published') |-> published'[i]]
        /\ Len(published) \in Nat /\ Len(published') = Len(published) + 1
        /\ DOMAIN published = 1 .. Len(published)
        /\ DOMAIN published' = 1 .. Len(published) + 1
        /\ published'[Len(published) + 1] = [user |-> u, at |-> now, diff |-> f]
        /\ \A i \in 1 .. Len(published) : published'[i] = published[i]
        /\ missed' \subseteq missed
    BY <1>2, PublishedType
  <2>4. ASSUME NEW i \in DOMAIN published'
        PROVE  published'[i].user \in Users /\ IsDiffOf(published'[i].user, published'[i].diff)
    <3>1. CASE i = Len(published) + 1
      BY <2>3, <3>1
    <3>2. CASE i \in DOMAIN published
      BY <2>1, <2>3, <3>2
    <3> QED
      BY <2>3, <3>1, <3>2
  <2> QED
    BY <1>1, <2>2, <2>3, <2>4
<1>3. CASE Raised(f)
  <2>1. DOMAIN f \subseteq Documents
    BY DiffType
  <2> QED
    BY <1>1, <1>3, <2>1 DEF Raised, TypeOK
<1> QED
  BY <1>2, <1>3 DEF Publishes

(* The two outcomes of on_change: the changes are published or they wait.   *)
LEMMA OnChangeStates ==
    ASSUME TypeOK, NEW w \in Workers, OnChange(w)
    PROVE  LET c == writer[w].change
               u == User[c.doc]
               f == AddChange(changes[u], c)
           IN  /\ writer[w].pc = "answered" /\ writer' = [writer EXCEPT ![w] = Idle]
               /\ UNCHANGED <<now, drawn, row, cleanups>>
               /\ c \in Change /\ u \in Users
               /\ IsDiffOf(u, changes[u]) /\ IsDiffOf(u, f) /\ f # <<>>
               /\ \/ /\ timer[u] = 0 /\ timer' = timer /\ Publishes(u, f)
                     /\ \E t \in {0, now} : lastCall' = [lastCall EXCEPT ![u] = t]
                     /\ entries' = entries \ {u} \/ entries' = entries \cup {u}
                  \/ PublishLater(u, f)
<1> DEFINE c == writer[w].change
           u == User[c.doc]
           f == AddChange(changes[u], c)
<1>1. /\ writer[w].pc = "answered" /\ writer' = [writer EXCEPT ![w] = Idle]
      /\ UNCHANGED <<now, drawn, row>>
      /\ \/ timer[u] = 0 /\ PublishNow(u, f)
         \/ PublishLater(u, f)
  BY DEF OnChange, Becomes, storage
<1>2. c \in Change /\ u \in Users
  BY <1>1, AnsweredType
<1>3. IsDiffOf(u, changes[u])
  BY <1>2 DEF TypeOK
<1>4. IsDiffOf(u, f) /\ f # <<>>
  <2>1. User[c.doc] = u /\ f = AddChange(changes[u], c)
    OBVIOUS
  <2> HIDE DEF c, u, f
  <2>2. c \in Change
    BY <1>2
  <2>3. /\ IsDiffOf(u, AddChange(changes[u], c))
        /\ DOMAIN AddChange(changes[u], c) = DOMAIN changes[u] \cup {c.doc}
    BY <1>3, <2>1, <2>2, AddChangeType
  <2> QED
    BY <2>1, <2>3, NoChanges
<1> HIDE DEF c, u, f
<1>5. ASSUME PublishNow(u, f)
      PROVE  /\ timer' = timer /\ cleanups' = cleanups /\ Publishes(u, f)
             /\ \E t \in {0, now} : lastCall' = [lastCall EXCEPT ![u] = t]
             /\ entries' = entries \ {u} \/ entries' = entries \cup {u}
  BY <1>5 DEF PublishNow, Publishes
<1>6. PublishLater(u, f) => cleanups' = cleanups
  BY DEF PublishLater
<1> QED
  BY <1>1, <1>2, <1>3, <1>4, <1>5, <1>6 DEF c, u, f

LEMMA OnChangeType == ASSUME TypeOK, NEW w \in Workers, OnChange(w) PROVE TypeOK'
<1> DEFINE c == writer[w].change
           u == User[c.doc]
           f == AddChange(changes[u], c)
<1>1. /\ writer' = [writer EXCEPT ![w] = Idle]
      /\ UNCHANGED <<now, drawn, row, cleanups>> /\ u \in Users /\ IsDiffOf(u, f)
  BY OnChangeStates
<1>2. writer' \in [Workers -> State]
  BY <1>1, IdleType DEF TypeOK
<1>3. CASE /\ timer' = timer /\ Publishes(u, f)
           /\ \E t \in {0, now} : lastCall' = [lastCall EXCEPT ![u] = t]
           /\ entries' = entries \ {u} \/ entries' = entries \cup {u}
  <2> HIDE DEF u, f
  <2>1. /\ changes' = [v \in Users |-> changes'[v]] /\ \A v \in Users : IsDiffOf(v, changes'[v])
        /\ missed' \subseteq Documents
        /\ published' = [i \in 1 .. Len(published') |-> published'[i]] /\ Len(published') \in Nat
        /\ \A i \in DOMAIN published' : published'[i].user \in Users
                                        /\ IsDiffOf(published'[i].user, published'[i].diff)
    BY <1>1, <1>3, PublishesType
  <2>2. lastCall' \in [Users -> Nat] /\ timer' \in [Users -> Nat] /\ entries' \subseteq Users
    BY <1>1, <1>3 DEF TypeOK
  <2> QED
    BY <1>1, <1>2, <2>1, <2>2 DEF TypeOK
<1>4. CASE PublishLater(u, f)
  <2> HIDE DEF u, f
  <2>1. changes' = [v \in Users |-> changes'[v]] /\ \A v \in Users : IsDiffOf(v, changes'[v])
    BY <1>1, <1>4, ChangesSet DEF PublishLater
  <2>2. timer' \in [Users -> Nat]
    BY <1>1, <1>4, DiffAssumption DEF PublishLater, Due, TypeOK
  <2> QED
    BY <1>1, <1>2, <1>4, <2>1, <2>2 DEF PublishLater, TypeOK
<1> QED
  BY <1>3, <1>4, OnChangeStates

LEMMA DelayedCallStates ==
    ASSUME TypeOK, NEW u \in Users, DelayedCall(u)
    PROVE  /\ timer[u] # 0 /\ Publishes(u, changes[u]) /\ IsDiffOf(u, changes[u])
           /\ lastCall' = [lastCall EXCEPT ![u] = now] /\ timer' = [timer EXCEPT ![u] = 0]
           /\ cleanups' = cleanups \cup {u} /\ UNCHANGED <<now, drawn, row, writer, entries>>
BY DEF DelayedCall, Publishes, Raised, storage, TypeOK

LEMMA DelayedCallType == ASSUME TypeOK, NEW u \in Users, DelayedCall(u) PROVE TypeOK'
<1>1. /\ lastCall' = [lastCall EXCEPT ![u] = now] /\ timer' = [timer EXCEPT ![u] = 0]
      /\ cleanups' = cleanups \cup {u} /\ UNCHANGED <<now, drawn, row, writer, entries>>
      /\ Publishes(u, changes[u]) /\ IsDiffOf(u, changes[u])
  BY DelayedCallStates
<1>2. lastCall' \in [Users -> Nat] /\ timer' \in [Users -> Nat] /\ cleanups' \subseteq Users
  BY <1>1 DEF TypeOK
<1>3. /\ changes' = [v \in Users |-> changes'[v]] /\ \A v \in Users : IsDiffOf(v, changes'[v])
      /\ missed' \subseteq Documents
      /\ published' = [i \in 1 .. Len(published') |-> published'[i]] /\ Len(published') \in Nat
      /\ \A i \in DOMAIN published' : published'[i].user \in Users
                                      /\ IsDiffOf(published'[i].user, published'[i].diff)
  BY <1>1, PublishesType
<1> QED
  BY <1>1, <1>2, <1>3 DEF TypeOK

LEMMA CommitStates ==
    ASSUME TypeOK, NEW w \in Workers, Commit(w)
    PROVE  LET d    == writer[w].doc
               read == writer[w].row
               put  == [etag |-> drawn + 1, born |-> IF read = NoRow THEN drawn + 1 ELSE read.born]
           IN  /\ writer[w].pc = "write" /\ drawn' = drawn + 1
               /\ UNCHANGED <<now, entries, changes, lastCall, timer, cleanups, published>>
               /\ d \in Documents /\ read \in [etag : Nat, born : Nat]
               /\ put \in [etag : Nat, born : Nat] /\ put.etag = drawn + 1
               /\ \/ /\ row' = [row EXCEPT ![d] = put]
                     /\ \/ /\ writer' = [writer EXCEPT ![w] = Announce(d, read.etag, drawn + 1)]
                           /\ missed' = missed
                        \/ writer' = [writer EXCEPT ![w] = Idle] /\ missed' = missed \cup {d}
                  \/ /\ \/ row' = [row EXCEPT ![d] = NoRow]
                        \/ row' = row /\ row[d].born # read.born
                     /\ writer' = [writer EXCEPT ![w] = Announce(d, read.etag, 0)]
                     /\ missed' = missed
<1> DEFINE d    == writer[w].doc
           read == writer[w].row
           put  == [etag |-> drawn + 1, born |-> IF read = NoRow THEN drawn + 1 ELSE read.born]
<1>1. writer[w].pc = "write" /\ drawn' = drawn + 1
      /\ UNCHANGED <<now, entries, changes, lastCall, timer, cleanups, published>>
  BY DEF Commit, notifier
<1>2. d \in Documents /\ read \in [etag : Nat, born : Nat] /\ drawn \in Nat
  BY <1>1, WriteType DEF TypeOK
<1>3. put \in [etag : Nat, born : Nat]
  BY <1>2
<1>4. \/ /\ row' = [row EXCEPT ![d] = put]
         /\ \/ /\ writer' = [writer EXCEPT ![w] = Announce(d, read.etag, drawn + 1)]
               /\ missed' = missed
            \/ writer' = [writer EXCEPT ![w] = Idle] /\ missed' = missed \cup {d}
      \/ /\ row' = [row EXCEPT ![d] = IF @.born = read.born THEN NoRow ELSE @]
         /\ writer' = [writer EXCEPT ![w] = Announce(d, read.etag, 0)]
         /\ missed' = missed
  BY DEF Commit, Becomes
<1>5. ASSUME row' = [row EXCEPT ![d] = IF @.born = read.born THEN NoRow ELSE @]
      PROVE  \/ row' = [row EXCEPT ![d] = NoRow]
             \/ row' = row /\ row[d].born # read.born
  <2>1. row = [e \in Documents |-> row[e]]
    BY DEF TypeOK
  <2>2. CASE row[d].born = read.born
    BY <1>5, <2>2
  <2>3. CASE row[d].born # read.born
    <3>1. row' = [row EXCEPT ![d] = row[d]]
      BY <1>5, <2>3
    <3> QED
      BY <2>1, <2>3, <3>1
  <2> QED
    BY <2>2, <2>3
<1> QED
  BY <1>1, <1>2, <1>3, <1>4, <1>5

LEMMA CommitType == ASSUME TypeOK, NEW w \in Workers, Commit(w) PROVE TypeOK'
<1> DEFINE d    == writer[w].doc
           read == writer[w].row
<1>1. /\ drawn' = drawn + 1 /\ drawn \in Nat /\ d \in Documents /\ read.etag \in Nat
      /\ UNCHANGED <<now, entries, changes, lastCall, timer, cleanups, published>>
      /\ missed' \subseteq missed \cup {d}
  BY CommitStates DEF TypeOK
<1>2. Announce(d, read.etag, drawn + 1) \in State /\ Announce(d, read.etag, 0) \in State
  BY <1>1, AnnounceType
<1>3. writer' \in [Workers -> State]
  BY <1>2, IdleType, CommitStates DEF TypeOK
<1>4. row' \in [Documents -> [etag : Nat, born : Nat]]
  <2>1. row \in [Documents -> [etag : Nat, born : Nat]] /\ NoRow \in [etag : Nat, born : Nat]
    BY DEF TypeOK, NoRow
  <2>2. \/ row' = row \/ row' = [row EXCEPT ![d] = NoRow]
        \/ \E r \in [etag : Nat, born : Nat] : row' = [row EXCEPT ![d] = r]
    BY CommitStates
  <2> QED
    BY <2>1, <2>2
<1> QED
  BY <1>1, <1>3, <1>4 DEF TypeOK

LEMMA TypeInit == Init => TypeOK
<1> SUFFICES ASSUME Init PROVE TypeOK
  OBVIOUS
<1>1. Len(published) = 0 /\ DOMAIN published = {} /\ 1 .. 0 = {} /\ published = [i \in {} |-> published[i]]
  BY NoChanges, EmptySeq DEF Init
<1>2. changes = [u \in Users |-> changes[u]] /\ \A u \in Users : IsDiffOf(u, changes[u])
  BY NoChanges DEF Init
<1>3. row \in [Documents -> [etag : Nat, born : Nat]] /\ writer \in [Workers -> State]
  BY IdleType DEF Init, NoRow
<1> QED
  BY <1>1, <1>2, <1>3, DiffAssumption DEF Init, TypeOK

LEMMA TypeStep == TypeOK /\ [Next]_vars => TypeOK'
<1> SUFFICES ASSUME TypeOK, [Next]_vars PROVE TypeOK'
  OBVIOUS
<1>1. ASSUME NEW w \in Workers, NEW s \in State, Becomes(w, s),
             UNCHANGED <<now, storage, notifier, published, missed>>
      PROVE  TypeOK'
  <2>1. writer' \in [Workers -> State]
    BY <1>1 DEF Becomes, TypeOK
  <2> QED
    BY <1>1, <2>1 DEF TypeOK, storage, notifier
<1>2. ASSUME NEW w \in Workers, NEW d \in Documents, PutIdentical(w, d) PROVE TypeOK'
  <2>1. Announce(d, 0, row[d].etag) \in State
    BY AnnounceType DEF TypeOK
  <2> QED
    BY <1>1, <1>2, <2>1 DEF PutIdentical
<1>3. ASSUME NEW w \in Workers, NEW d \in Documents, NEW kind \in {"put", "delete"}, Fetch(w, d, kind)
      PROVE  TypeOK'
  <2>1. [pc |-> "write", kind |-> kind, doc |-> d, row |-> row[d]] \in State
    BY DEF TypeOK, State
  <2> QED
    BY <1>1, <1>3, <2>1 DEF Fetch
<1>4. ASSUME NEW w \in Workers, WriteFails(w) PROVE TypeOK'
  BY <1>1, <1>4, IdleType DEF WriteFails
<1>5. ASSUME NEW w \in Workers, Commit(w) \/ OnChange(w) PROVE TypeOK'
  BY <1>5, CommitType, OnChangeType
<1>6. ASSUME NEW u \in Users, DelayedCall(u) PROVE TypeOK'
  BY <1>6, DelayedCallType
<1>7. ASSUME NEW u \in Users, TryCleanup(u) PROVE TypeOK'
  <2>1. lastCall' \in [Users -> Nat] /\ entries' \subseteq Users /\ cleanups' \subseteq Users
    <3>1. /\ entries \subseteq Users /\ cleanups \subseteq Users /\ lastCall \in [Users -> Nat]
          /\ cleanups' = cleanups \ {u}
          /\ \/ entries' = entries \ {u} /\ lastCall' = [lastCall EXCEPT ![u] = 0]
             \/ entries' = entries /\ lastCall' = lastCall
      BY <1>7 DEF TryCleanup, TypeOK
    <3> QED
      BY <3>1
  <2> QED
    BY <1>7, <2>1 DEF TryCleanup, TypeOK, storage
<1>8. CASE Tick
  BY <1>8 DEF Tick, TypeOK, storage, notifier
<1>9. CASE UNCHANGED vars
  BY <1>9 DEF vars, TypeOK, storage, notifier
<1> QED
  BY <1>2, <1>3, <1>4, <1>5, <1>6, <1>7, <1>8, <1>9 DEF Next

(* Every variable keeps its type, and what waits for a user, or was         *)
(* published for one, is of that user's documents.                          *)
THEOREM NotifierTypeCorrect == Spec => []TypeOK
BY TypeInit, TypeStep, PTL DEF Spec

-----------------------------------------------------------------------------
(* Pending changes are never stranded.                                      *)

LEMMA TimedInit == Init => PendingChangesAreTimed
BY DEF Init, PendingChangesAreTimed

LEMMA TimedStep == TypeOK /\ PendingChangesAreTimed /\ [Next]_vars => PendingChangesAreTimed'
<1> SUFFICES ASSUME TypeOK, PendingChangesAreTimed, [Next]_vars PROVE PendingChangesAreTimed'
  OBVIOUS
<1>1. ASSUME UNCHANGED notifier PROVE PendingChangesAreTimed'
  BY <1>1 DEF notifier, PendingChangesAreTimed
<1>2. ASSUME NEW w \in Workers, OnChange(w) PROVE PendingChangesAreTimed'
  <2> DEFINE c == writer[w].change
             u == User[c.doc]
             f == AddChange(changes[u], c)
  <2>1. u \in Users /\ f # <<>> /\ IsDiffOf(u, f)
    BY <1>2, OnChangeStates
  <2>2. CASE PublishLater(u, f)
    <3> HIDE DEF u, f
    <3>1. changes'[u] = f /\ \A v \in Users \ {u} : changes'[v] = changes[v]
      BY <2>1, <2>2, ChangesSet DEF PublishLater
    <3>2. /\ timer'[u] = (IF timer[u] = 0 THEN lastCall[u] + MinWait ELSE timer[u])
          /\ \A v \in Users \ {u} : timer'[v] = timer[v]
      BY <2>1, <2>2 DEF PublishLater, Due, TypeOK
    <3>3. lastCall' = lastCall /\ entries \subseteq entries' /\ u \in entries'
      BY <2>2 DEF PublishLater
    <3>4. lastCall[u] \in Nat /\ timer[u] \in Nat /\ MinWait \in Nat \ {0}
      BY <2>1, DiffAssumption DEF TypeOK
    <3> QED
      BY <2>1, <3>1, <3>2, <3>3, <3>4 DEF PendingChangesAreTimed
  <2>3. CASE /\ timer[u] = 0 /\ timer' = timer /\ Publishes(u, f)
             /\ \E t \in {0, now} : lastCall' = [lastCall EXCEPT ![u] = t]
             /\ entries' = entries \ {u} \/ entries' = entries \cup {u}
    <3> HIDE DEF u, f
    <3>1. changes'[u] = <<>> /\ \A v \in Users \ {u} : changes'[v] = changes[v]
      BY <2>1, <2>3, PublishesType
    <3>2. \A v \in Users \ {u} : lastCall'[v] = lastCall[v] /\ (v \in entries' <=> v \in entries)
      BY <2>3 DEF TypeOK
    <3> QED
      BY <2>1, <2>3, <3>1, <3>2 DEF PendingChangesAreTimed
  <2> QED
    BY <1>2, <2>2, <2>3, OnChangeStates
<1>3. ASSUME NEW u \in Users, DelayedCall(u) PROVE PendingChangesAreTimed'
  <2>1. changes'[u] = <<>> /\ \A v \in Users \ {u} : changes'[v] = changes[v]
    BY <1>3, DelayedCallStates, PublishesType
  <2>2. /\ timer'[u] = 0
        /\ \A v \in Users \ {u} : timer'[v] = timer[v] /\ lastCall'[v] = lastCall[v]
        /\ entries' = entries
    BY <1>3, DelayedCallStates DEF TypeOK
  <2> QED
    BY <2>1, <2>2 DEF PendingChangesAreTimed
<1>4. ASSUME NEW u \in Users, TryCleanup(u) PROVE PendingChangesAreTimed'
  <2>1. changes' = changes /\ timer' = timer
    BY <1>4 DEF TryCleanup
  <2>2. \A v \in Users : \/ lastCall'[v] = lastCall[v] /\ (v \in entries' <=> v \in entries)
                         \/ v = u /\ changes[v] = <<>>
    BY <1>4 DEF TryCleanup, Unneeded, TypeOK
  <2> QED
    BY <2>1, <2>2 DEF PendingChangesAreTimed
<1>5. ASSUME NEW w \in Workers, Commit(w) PROVE UNCHANGED notifier
  BY <1>5 DEF Commit
<1>6. ASSUME NEW w \in Workers, NEW d \in Documents,
             PutIdentical(w, d) \/ \E kind \in {"put", "delete"} : Fetch(w, d, kind)
      PROVE  UNCHANGED notifier
  BY <1>6 DEF PutIdentical, Fetch
<1>7. ASSUME NEW w \in Workers, WriteFails(w) PROVE UNCHANGED notifier
  BY <1>7 DEF WriteFails
<1>8. CASE Tick \/ UNCHANGED vars
  BY <1>1, <1>8 DEF Tick, vars
<1> QED
  BY <1>1, <1>2, <1>3, <1>4, <1>5, <1>6, <1>7, <1>8 DEF Next

(* Pending changes always wait in an entry the notifier knows, with a       *)
(* delayed call one MinWait after the last call (xcapdiff.py:94).           *)
THEOREM PendingAlwaysTimed == Spec => []PendingChangesAreTimed
BY TimedInit, TimedStep, NotifierTypeCorrect, PTL DEF Spec

-----------------------------------------------------------------------------
(* Documents whose requests do not overlap.                                 *)

Answers(w, d) == writer[w].pc = "answered" /\ writer[w].change.doc = d

LEMMA OneWriter ==
    ASSUME NEW d \in Serial, NEW v \in Writers[d], NEW w \in Writers[d]
    PROVE  v = w
<1> SUFFICES ASSUME v # w PROVE FALSE
  OBVIOUS
<1>1. IsFiniteSet(Writers[d]) /\ Cardinality(Writers[d]) <= 1
  <2>1. Writers[d] \in SUBSET Workers /\ IsFiniteSet(Workers)
    BY DiffAssumption DEF Serial
  <2> QED
    BY <2>1, FS_Subset DEF Serial
<1>2. IsFiniteSet({v}) /\ Cardinality({v}) = 1
  BY FS_Singleton
<1>3. Cardinality({v} \cup {w}) = 2 /\ IsFiniteSet({v} \cup {w})
  <2>1. /\ IsFiniteSet({v} \cup {w})
        /\ Cardinality({v} \cup {w}) = IF w \in {v} THEN Cardinality({v})
                                                  ELSE Cardinality({v}) + 1
    BY <1>2, FS_AddElement
  <2>2. w \notin {v}
    OBVIOUS
  <2> QED
    BY <1>2, <2>1, <2>2
<1>4. {v} \cup {w} \in SUBSET Writers[d]
  OBVIOUS
<1>5. Cardinality({v} \cup {w}) <= Cardinality(Writers[d])
  BY <1>1, <1>4, FS_Subset
<1>6. Cardinality(Writers[d]) \in Nat
  BY <1>1, FS_CardinalityType
<1> QED
  BY <1>1, <1>3, <1>5, <1>6

(* What a request carries is what is stored: it read the row nobody else    *)
(* writes, or is about to announce the tag it wrote.                        *)
WritersInv ==
    \A w \in Workers :
        /\ writer[w].pc = "write" =>
              /\ w \in Writers[writer[w].doc]
              /\ writer[w].doc \in Serial => writer[w].row = row[writer[w].doc]
        /\ writer[w].pc = "answered" =>
              /\ w \in Writers[writer[w].change.doc]
              /\ writer[w].change.doc \in Serial =>
                    writer[w].change.new = row[writer[w].change.doc].etag

LEMMA WritersInit == Init => WritersInv
BY DEF Init, WritersInv, Idle

(* After the commit of a request its announcement, if any, is of the tag    *)
(* stored, and other documents are as they were.                            *)
LEMMA CommitLeaves ==
    ASSUME TypeOK, WritersInv, NEW w \in Workers, Commit(w)
    PROVE  LET d == writer[w].doc
           IN  /\ writer[w].pc = "write" /\ w \in Writers[d] /\ d \in Documents
               /\ UNCHANGED <<now, notifier, published>>
               /\ \A v \in Workers \ {w} : writer'[v] = writer[v]
               /\ \A e \in Documents \ {d} : row'[e] = row[e]
               /\ \/ writer'[w] = Idle /\ missed' = missed \cup {d}
                  \/ /\ writer'[w].pc = "answered" /\ writer'[w].change.doc = d
                     /\ writer'[w].change.old = writer[w].row.etag
                     /\ d \in Serial => writer'[w].change.new = row'[d].etag
                     /\ missed' = missed
<1> DEFINE d    == writer[w].doc
           read == writer[w].row
<1>1. /\ writer[w].pc = "write" /\ UNCHANGED <<now, notifier, published>>
      /\ d \in Documents /\ read.etag \in Nat /\ drawn \in Nat
      /\ row = [e \in Documents |-> row[e]] /\ writer = [v \in Workers |-> writer[v]]
  BY CommitStates DEF notifier, TypeOK
<1>2. w \in Writers[d] /\ (d \in Serial => read = row[d])
  BY <1>1 DEF WritersInv
<1>3. ASSUME NEW r, row' = [row EXCEPT ![d] = r] \/ row' = row
      PROVE  \A e \in Documents \ {d} : row'[e] = row[e]
  BY <1>1, <1>3
<1>4. ASSUME NEW s, writer' = [writer EXCEPT ![w] = s]
      PROVE  writer'[w] = s /\ \A v \in Workers \ {w} : writer'[v] = writer[v]
  BY <1>1, <1>4
<1>5. /\ Announce(d, read.etag, drawn + 1).pc = "answered"
      /\ Announce(d, read.etag, drawn + 1).change.doc = d
      /\ Announce(d, read.etag, drawn + 1).change.old = read.etag
      /\ Announce(d, read.etag, drawn + 1).change.new = drawn + 1
      /\ Announce(d, read.etag, 0).pc = "answered"
      /\ Announce(d, read.etag, 0).change.doc = d
      /\ Announce(d, read.etag, 0).change.old = read.etag
      /\ Announce(d, read.etag, 0).change.new = 0
  <2> DEFINE was  == read.etag
             next == drawn + 1
  <2>1. d \in Documents /\ was \in Nat /\ next \in Nat /\ 0 \in Nat
    BY <1>1
  <2> HIDE DEF d, was, next
  <2>2. /\ Announce(d, was, next).pc = "answered" /\ Announce(d, was, next).change.doc = d
        /\ Announce(d, was, next).change.old = was /\ Announce(d, was, next).change.new = next
    BY ONLY <2>1, AnnounceType
  <2>3. /\ Announce(d, was, 0).pc = "answered" /\ Announce(d, was, 0).change.doc = d
        /\ Announce(d, was, 0).change.old = was /\ Announce(d, was, 0).change.new = 0
    BY ONLY <2>1, AnnounceType
  <2> QED
    BY <2>2, <2>3 DEF was, next
<1>6. CASE \E r : /\ row' = [row EXCEPT ![d] = r] /\ r.etag = drawn + 1
                  /\ \/ /\ writer' = [writer EXCEPT ![w] = Announce(d, read.etag, drawn + 1)]
                        /\ missed' = missed
                     \/ writer' = [writer EXCEPT ![w] = Idle] /\ missed' = missed \cup {d}
  <2>1. row'[d].etag = drawn + 1 /\ \A e \in Documents \ {d} : row'[e] = row[e]
    BY <1>1, <1>3, <1>6
  <2>2. \A v \in Workers \ {w} : writer'[v] = writer[v]
    BY <1>4, <1>6
  <2>3. \/ writer'[w] = Announce(d, read.etag, drawn + 1) /\ missed' = missed
        \/ writer'[w] = Idle /\ missed' = missed \cup {d}
    BY <1>4, <1>6
  <2> QED
    BY <1>1, <1>2, <1>5, <2>1, <2>2, <2>3
<1>7. CASE /\ \/ row' = [row EXCEPT ![d] = NoRow]
              \/ row' = row /\ row[d].born # read.born
           /\ writer' = [writer EXCEPT ![w] = Announce(d, read.etag, 0)]
           /\ missed' = missed
  <2>1. /\ writer'[w] = Announce(d, read.etag, 0) /\ missed' = missed
        /\ \A v \in Workers \ {w} : writer'[v] = writer[v]
    BY <1>4, <1>7
  <2>2. \A e \in Documents \ {d} : row'[e] = row[e]
    BY <1>3, <1>7
  <2>3. d \in Serial => row'[d].etag = 0
    BY <1>1, <1>2, <1>7 DEF NoRow
  <2> QED
    BY <1>1, <1>2, <1>5, <2>1, <2>2, <2>3
<1> QED
  BY <1>6, <1>7, CommitStates

LEMMA WritersStep == TypeOK /\ WritersInv /\ [Next]_vars => WritersInv'
<1> SUFFICES ASSUME TypeOK, WritersInv, [Next]_vars PROVE WritersInv'
  OBVIOUS
<1>0. writer = [w \in Workers |-> writer[w]]
  BY DEF TypeOK
<1>1. ASSUME UNCHANGED row, \A w \in Workers : writer'[w] = writer[w] \/ writer'[w] = Idle
      PROVE  WritersInv'
  BY <1>1 DEF WritersInv, Idle
<1>2. ASSUME NEW w \in Workers, NEW d \in Documents, PutIdentical(w, d) PROVE WritersInv'
  <2>1. /\ UNCHANGED row /\ w \in Writers[d] /\ row[d].etag \in Nat
        /\ writer'[w] = Announce(d, 0, row[d].etag) /\ \A v \in Workers \ {w} : writer'[v] = writer[v]
    BY <1>0, <1>2 DEF PutIdentical, Becomes, storage, TypeOK
  <2>2. /\ writer'[w].pc = "answered" /\ writer'[w].change.doc = d
        /\ writer'[w].change.new = row[d].etag
    BY <2>1, AnnounceType
  <2> QED
    BY <2>1, <2>2 DEF WritersInv
<1>3. ASSUME NEW w \in Workers, NEW d \in Documents, NEW kind \in {"put", "delete"}, Fetch(w, d, kind)
      PROVE  WritersInv'
  <2>1. /\ UNCHANGED row /\ w \in Writers[d]
        /\ writer'[w] = [pc |-> "write", kind |-> kind, doc |-> d, row |-> row[d]]
        /\ \A v \in Workers \ {w} : writer'[v] = writer[v]
    BY <1>0, <1>3 DEF Fetch, Becomes, storage
  <2> QED
    BY <2>1 DEF WritersInv
<1>4. ASSUME NEW w \in Workers, Commit(w) PROVE WritersInv'
  <2> DEFINE d == writer[w].doc
  <2>1. /\ writer[w].pc = "write" /\ w \in Writers[d] /\ d \in Documents
        /\ \A v \in Workers \ {w} : writer'[v] = writer[v]
        /\ \A e \in Documents \ {d} : row'[e] = row[e]
        /\ \/ writer'[w] = Idle
           \/ /\ writer'[w].pc = "answered" /\ writer'[w].change.doc = d
              /\ d \in Serial => writer'[w].change.new = row'[d].etag
    BY <1>4, CommitLeaves
  <2>2. ASSUME NEW v \in Workers \ {w}, NEW e \in Serial, v \in Writers[e] PROVE row'[e] = row[e]
    <3>1. e = d => v = w
      BY <2>1, <2>2, OneWriter
    <3> QED
      BY <2>1, <2>2, <3>1 DEF Serial
  <2>3. ASSUME NEW v \in Workers \ {w}
        PROVE  /\ writer[v].pc = "write" => writer[v].doc \in Documents
               /\ writer[v].pc = "answered" => writer[v].change.doc \in Documents
    BY WriteType, AnsweredType DEF Change
  <2>4. ASSUME NEW v \in Workers \ {w}
        PROVE  /\ writer'[v].pc = "write" =>
                     /\ v \in Writers[writer'[v].doc]
                     /\ writer'[v].doc \in Serial => writer'[v].row = row'[writer'[v].doc]
               /\ writer'[v].pc = "answered" =>
                     /\ v \in Writers[writer'[v].change.doc]
                     /\ writer'[v].change.doc \in Serial =>
                           writer'[v].change.new = row'[writer'[v].change.doc].etag
    BY <2>1, <2>2, <2>3 DEF WritersInv
  <2>5. /\ writer'[w].pc # "write"
        /\ writer'[w].pc = "answered" =>
              /\ w \in Writers[writer'[w].change.doc]
              /\ writer'[w].change.doc \in Serial =>
                    writer'[w].change.new = row'[writer'[w].change.doc].etag
    BY <2>1 DEF Idle
  <2> QED
    BY <2>4, <2>5 DEF WritersInv
<1>5. ASSUME NEW w \in Workers, WriteFails(w) PROVE WritersInv'
  BY <1>0, <1>1, <1>5 DEF WriteFails, Becomes, storage
<1>6. ASSUME NEW w \in Workers, OnChange(w) PROVE WritersInv'
  BY <1>0, <1>1, <1>6, OnChangeStates
<1>7. ASSUME NEW u \in Users, DelayedCall(u) \/ TryCleanup(u) PROVE WritersInv'
  BY <1>1, <1>7 DEF DelayedCall, TryCleanup, storage
<1>8. CASE Tick \/ UNCHANGED vars
  BY <1>1, <1>8 DEF Tick, vars, storage
<1> QED
  BY <1>2, <1>3, <1>4, <1>5, <1>6, <1>7, <1>8 DEF Next

-----------------------------------------------------------------------------
(* What subscribers know, and what they will know.                          *)

(* A document is known by the last diff that names it.                      *)
LEMMA KnownAfter ==
    ASSUME TypeOK, NEW u \in Users, NEW f, IsDiffOf(u, f), Published(u, f), NEW d
    PROVE  Known(d)' = IF d \in DOMAIN f THEN f[d].new ELSE Known(d)
<1> DEFINE L == Len(published)
           told == {i \in DOMAIN published : d \in DOMAIN published[i].diff}
           last == CHOOSE i \in told : \A j \in told : j <= i
<1>1. /\ L \in Nat /\ DOMAIN published = 1 .. L /\ DOMAIN published' = 1 .. L + 1
      /\ published'[L + 1].diff = f
      /\ \A i \in 1 .. L : published'[i] = published[i]
  <2>1. /\ L \in Nat /\ DOMAIN published = 1 .. L /\ DOMAIN published' = 1 .. L + 1
        /\ published'[L + 1] = [user |-> u, at |-> now, diff |-> f]
        /\ \A i \in 1 .. L : published'[i] = published[i]
    BY PublishedType
  <2>2. [user |-> u, at |-> now, diff |-> f].diff = f
    OBVIOUS
  <2> QED
    BY <2>1, <2>2
<1>2. told' = IF d \in DOMAIN f THEN told \cup {L + 1} ELSE told
  <2>1. ASSUME NEW i \in 1 .. L + 1, i # L + 1 PROVE i \in 1 .. L
    BY <1>1, <2>1
  <2> QED
    BY <1>1, <2>1
<1>3. told \subseteq 1 .. L /\ \A i \in told : i \in Nat /\ i <= L
  BY <1>1
<1>4. Known(d) = IF told = {} THEN 0 ELSE published[last].diff[d].new
  BY DEF Known
<1>5. Known(d)' = IF told' = {} THEN 0 ELSE published'[last'].diff[d].new
  BY DEF Known
<1>6. CASE d \in DOMAIN f
  <2> HIDE DEF told
  <2>1. L + 1 \in told' /\ \A j \in told' : j <= L + 1 /\ j \in Nat
    BY <1>1, <1>2, <1>3, <1>6
  <2>2. last' \in told' /\ \A j \in told' : j <= last'
    BY <2>1
  <2>3. last' = L + 1
    BY <1>1, <2>1, <2>2
  <2> QED
    BY <1>1, <1>5, <1>6, <2>1, <2>3
<1>7. CASE d \notin DOMAIN f
  <2>1. told' = told
    BY <1>2, <1>7
  <2>2. CASE told = {}
    BY <1>4, <1>5, <1>7, <2>1, <2>2
  <2>3. CASE told # {}
    <3>1. \E k \in told : \A j \in told : j <= k
      <4> HIDE DEF told
      <4> QED
        BY <1>1, <1>3, <2>3, GreatestExists
    <3>2. last \in told
      <4> HIDE DEF told
      <4> QED
        BY <3>1
    <3>3. last' = last
      BY <2>1
    <3>4. published'[last] = published[last]
      BY <1>1, <1>3, <3>2
    <3>5. Known(d) = published[last].diff[d].new
      BY <1>4, <2>3
    <3>6. Known(d)' = published'[last'].diff[d].new
      BY <1>5, <2>1, <2>3
    <3> QED
      BY <1>7, <3>3, <3>4, <3>5, <3>6
  <2> QED
    BY <2>2, <2>3
<1> QED
  BY <1>6, <1>7

Waits(d) == d \in DOMAIN changes[User[d]]

(* What subscribers know when what waits has been published.                *)
Tip(d) == IF Waits(d) THEN changes[User[d]][d].new ELSE Known(d)

(* Of a document with no change missed: subscribers know, or will know from *)
(* what waits, the tag that is stored, unless its change is yet to be       *)
(* announced; and each change starts where the one before it ends.          *)
AnnouncedInv ==
    \A d \in Serial \ missed :
        /\ ~OnItsWay(d) => Tip(d) = row[d].etag
        /\ \A w \in Workers : Answers(w, d) => writer[w].change.old \in {0, Tip(d)}
        /\ Waits(d) => changes[User[d]][d].old \in {0, Known(d)}

LEMMA AnnouncedInit == Init => AnnouncedInv
<1> SUFFICES ASSUME Init, NEW d \in Serial
             PROVE  Tip(d) = row[d].etag /\ ~Waits(d) /\ \A w \in Workers : ~Answers(w, d)
  BY DEF AnnouncedInv
<1>1. d \in Documents /\ User[d] \in Users
  BY DEF Serial, Users
<1>2. ~Waits(d)
  BY <1>1, NoChanges DEF Init, Waits
<1>3. Known(d) = 0
  <2>1. DOMAIN published = {}
    BY NoChanges DEF Init
  <2> QED
    BY <2>1 DEF Known
<1> QED
  BY <1>1, <1>2, <1>3 DEF Init, Tip, Answers, NoRow, Idle

(* No request for d starts or stops to announce a change of it.             *)
SameAnnouncements(d) ==
    \A w \in Workers : /\ Answers(w, d)' <=> Answers(w, d)
                       /\ Answers(w, d) => writer'[w] = writer[w]

LEMMA AnnouncedStays ==
    ASSUME AnnouncedInv, NEW d \in Serial, d \notin missed,
           UNCHANGED <<changes, published>>, row'[d] = row[d], SameAnnouncements(d)
    PROVE  /\ ~OnItsWay(d)' => Tip(d)' = row'[d].etag
           /\ \A w \in Workers : Answers(w, d)' => writer'[w].change.old \in {0, Tip(d)'}
           /\ Waits(d)' => changes'[User[d]][d].old \in {0, Known(d)'}
<1>1. Tip(d)' = Tip(d) /\ Known(d)' = Known(d) /\ (Waits(d)' <=> Waits(d))
  BY DEF Tip, Known, Waits
<1>2. OnItsWay(d)' <=> OnItsWay(d)
  BY DEF OnItsWay, SameAnnouncements, Answers
<1> QED
  BY <1>1, <1>2 DEF AnnouncedInv, SameAnnouncements

LEMMA AnnouncedByCommit ==
    ASSUME TypeOK, WritersInv, AnnouncedInv, NEW w \in Workers, Commit(w)
    PROVE  AnnouncedInv'
<1> DEFINE d == writer[w].doc
<1>1. /\ writer[w].pc = "write" /\ w \in Writers[d] /\ d \in Documents
      /\ UNCHANGED <<changes, published>>
      /\ \A v \in Workers \ {w} : writer'[v] = writer[v]
      /\ \A e \in Documents \ {d} : row'[e] = row[e]
      /\ \/ writer'[w] = Idle /\ missed' = missed \cup {d}
         \/ /\ writer'[w].pc = "answered" /\ writer'[w].change.doc = d
            /\ writer'[w].change.old = writer[w].row.etag
            /\ missed' = missed
  BY CommitLeaves DEF notifier
<1>2. SUFFICES ASSUME NEW e \in Serial, e \notin missed'
               PROVE  /\ ~OnItsWay(e)' => Tip(e)' = row'[e].etag
                      /\ \A v \in Workers : Answers(v, e)' => writer'[v].change.old \in {0, Tip(e)'}
                      /\ Waits(e)' => changes'[User[e]][e].old \in {0, Known(e)'}
  BY DEF AnnouncedInv
<1>3. e \notin missed /\ e \in Documents
  BY <1>1, <1>2 DEF Serial
<1>4. CASE e # d
  <2>1. SameAnnouncements(e)
    BY <1>1, <1>4 DEF SameAnnouncements, Answers, Idle
  <2> QED
    BY <1>1, <1>2, <1>3, <1>4, <2>1, AnnouncedStays
<1>5. CASE e = d
  <2>1. Tip(e)' = Tip(e) /\ Known(e)' = Known(e) /\ (Waits(e)' <=> Waits(e))
    BY <1>1 DEF Tip, Known, Waits
  <2>2. \A v \in Workers : ~Answers(v, e)
    <3>1. ASSUME NEW v \in Workers, Answers(v, e) PROVE v = w
      BY <1>1, <1>2, <1>5, <3>1, OneWriter DEF WritersInv, Answers
    <3> QED
      BY <1>1, <3>1 DEF Answers
  <2>3. Tip(e) = row[e].etag /\ writer[w].row = row[e]
    BY <1>1, <1>2, <1>3, <1>5, <2>2 DEF AnnouncedInv, WritersInv, OnItsWay, Answers
  <2>4. /\ writer'[w].pc = "answered" /\ writer'[w].change.doc = e
        /\ writer'[w].change.old = writer[w].row.etag
    BY <1>1, <1>2, <1>5
  <2>5. OnItsWay(e)'
    BY <2>4 DEF OnItsWay
  <2>6. ASSUME NEW v \in Workers, Answers(v, e)' PROVE writer'[v].change.old = Tip(e)
    <3>1. v = w
      BY <1>1, <2>2, <2>6 DEF Answers
    <3> QED
      BY <2>3, <2>4, <3>1
  <2>7. Waits(e)' => changes'[User[e]][e].old \in {0, Known(e)'}
    BY <1>1, <1>2, <1>3, <2>1 DEF AnnouncedInv
  <2> QED
    BY <2>1, <2>5, <2>6, <2>7
<1> QED
  BY <1>4, <1>5

(* A publication moves what waits, and a change of the moment, to what is   *)
(* known.                                                                   *)
LEMMA AnnouncedByPublishing ==
    ASSUME TypeOK, AnnouncedInv, row' = row,
           NEW u \in Users, NEW f, IsDiffOf(u, f), Publishes(u, f),
           \A d \in Serial : d \in DOMAIN f =>
               \/ SameAnnouncements(d) /\ f[d].new = Tip(d)
               \/ ~OnItsWay(d)' /\ f[d].new = row[d].etag,
           \A d \in Serial : d \notin DOMAIN f =>
               SameAnnouncements(d) /\ (User[d] = u => ~Waits(d))
    PROVE  AnnouncedInv'
<1>1. SUFFICES ASSUME NEW d \in Serial, d \notin missed'
               PROVE  /\ ~OnItsWay(d)' => Tip(d)' = row[d].etag
                      /\ \A v \in Workers : Answers(v, d)' => writer'[v].change.old \in {0, Tip(d)'}
                      /\ Waits(d)' => changes'[User[d]][d].old \in {0, Known(d)'}
  BY DEF AnnouncedInv
<1>2. d \in Documents /\ User[d] \in Users /\ (d \in DOMAIN f => User[d] = u)
  BY DiffType DEF Serial, Users
<1>3. changes'[u] = <<>> /\ \A v \in Users \ {u} : changes'[v] = changes[v]
  BY PublishesType
<1>4. CASE d \in DOMAIN f
  <2>1. Published(u, f)
    BY <1>1, <1>4 DEF Publishes, Raised
  <2>2. ~Waits(d)' /\ Tip(d)' = f[d].new
    BY <1>2, <1>3, <1>4, <2>1, KnownAfter, NoChanges DEF Waits, Tip
  <2>3. CASE ~OnItsWay(d)' /\ f[d].new = row[d].etag
    BY <2>2, <2>3 DEF OnItsWay, Answers
  <2>4. CASE SameAnnouncements(d) /\ f[d].new = Tip(d) /\ d \notin missed
    <3>1. OnItsWay(d)' <=> OnItsWay(d)
      BY <2>4 DEF OnItsWay, SameAnnouncements, Answers
    <3> QED
      BY <2>2, <2>4, <3>1 DEF AnnouncedInv, SameAnnouncements
  <2>5. d \in missed => ~OnItsWay(d)' /\ f[d].new = row[d].etag
    BY <1>1, <1>4, <2>1 DEF Published
  <2> QED
    BY <1>4, <2>3, <2>4, <2>5
<1>5. CASE d \notin DOMAIN f
  <2>1. d \notin missed
    BY <1>1, <1>5 DEF Publishes, Published, Raised
  <2>2. Known(d)' = Known(d)
    <3>1. CASE Published(u, f)
      BY <1>5, <3>1, KnownAfter
    <3>2. CASE Raised(f)
      BY <3>2 DEF Raised, Known
    <3> QED
      BY <3>1, <3>2 DEF Publishes
  <2>3. (Waits(d)' <=> Waits(d)) /\ (Waits(d) => changes'[User[d]] = changes[User[d]])
    BY <1>2, <1>3, <1>5, NoChanges DEF Waits
  <2>4. Tip(d)' = Tip(d)
    BY <2>2, <2>3 DEF Tip
  <2>5. SameAnnouncements(d)
    BY <1>5
  <2>6. OnItsWay(d)' <=> OnItsWay(d)
    BY <2>5 DEF OnItsWay, SameAnnouncements, Answers
  <2> QED
    BY <2>1, <2>2, <2>3, <2>4, <2>5, <2>6 DEF AnnouncedInv, SameAnnouncements
<1> QED
  BY <1>4, <1>5

(* A change of the moment joins what waits of its user.                     *)
LEMMA AnnouncedByWaiting ==
    ASSUME TypeOK, WritersInv, AnnouncedInv, NEW w \in Workers, writer[w].pc = "answered",
           writer' = [writer EXCEPT ![w] = Idle], row' = row,
           PublishLater(User[writer[w].change.doc],
                        AddChange(changes[User[writer[w].change.doc]], writer[w].change))
    PROVE  AnnouncedInv'
<1> PICK c : c = writer[w].change
  OBVIOUS
<1> PICK u : u = User[c.doc]
  OBVIOUS
<1> PICK f : f = AddChange(changes[u], c)
  OBVIOUS
<1>1. c \in Change /\ u \in Users /\ IsDiffOf(u, changes[u]) /\ w \in Writers[c.doc]
  BY AnsweredType DEF TypeOK, WritersInv
<1>2. /\ IsDiffOf(u, f) /\ DOMAIN f = DOMAIN changes[u] \cup {c.doc}
      /\ f[c.doc].new = c.new
      /\ f[c.doc].old = IF c.doc \in DOMAIN changes[u] THEN changes[u][c.doc].old ELSE c.old
      /\ \A d \in DOMAIN changes[u] \ {c.doc} : f[d] = changes[u][d]
  <2> PICK p : p = changes[u]
    OBVIOUS
  <2>1. User[c.doc] = u /\ IsDiffOf(u, p) /\ f = AddChange(p, c)
    BY <1>1
  <2>2. IsAdded(u, p, c, f)
    BY ONLY <1>1, <2>1, AddedChange
  <2> QED
    BY <2>2 DEF IsAdded
<1>3. /\ changes'[u] = f /\ \A v \in Users \ {u} : changes'[v] = changes[v]
      /\ published' = published /\ missed' = missed
  BY <1>1, <1>2, ChangesSet DEF PublishLater
<1>4. writer'[w] = Idle /\ \A v \in Workers \ {w} : writer'[v] = writer[v]
  BY DEF TypeOK
<1>5. SUFFICES ASSUME NEW d \in Serial, d \notin missed
               PROVE  /\ ~OnItsWay(d)' => Tip(d)' = row[d].etag
                      /\ \A v \in Workers : Answers(v, d)' => writer'[v].change.old \in {0, Tip(d)'}
                      /\ Waits(d)' => changes'[User[d]][d].old \in {0, Known(d)'}
  BY <1>3 DEF AnnouncedInv
<1>6. d \in Documents /\ User[d] \in Users /\ Known(d)' = Known(d)
  BY <1>3 DEF Serial, Users, Known
<1>7. CASE d = c.doc
  <2>1. Answers(w, d) /\ c.new = row[d].etag
    BY <1>5, <1>7 DEF Answers, WritersInv
  <2>2. ASSUME NEW v \in Workers PROVE ~Answers(v, d)'
    <3>1. CASE v = w
      BY <1>4, <3>1 DEF Answers, Idle
    <3>2. CASE v # w
      BY <1>1, <1>4, <1>5, <1>7, <3>2, OneWriter DEF WritersInv, Answers
    <3> QED
      BY <3>1, <3>2
  <2>3. Waits(d)' /\ Tip(d)' = row[d].etag
    BY <1>2, <1>3, <1>7, <2>1 DEF Waits, Tip
  <2>4. c.old \in {0, Tip(d)} /\ (Waits(d) => changes[u][d].old \in {0, Known(d)})
    BY <1>5, <1>7, <2>1 DEF AnnouncedInv
  <2>5. changes'[User[d]][d].old \in {0, Known(d)}
    BY <1>2, <1>3, <1>7, <2>4 DEF Waits, Tip
  <2> QED
    BY <1>6, <2>2, <2>3, <2>5
<1>8. CASE d # c.doc
  <2>1. (Waits(d)' <=> Waits(d)) /\ (Waits(d) => changes'[User[d]][d] = changes[User[d]][d])
    <3>1. CASE User[d] = u
      <4>1. changes'[User[d]] = f /\ (d \in DOMAIN f <=> d \in DOMAIN changes[u])
        BY <1>2, <1>3, <1>8, <3>1
      <4>2. d \in DOMAIN changes[u] => f[d] = changes[u][d]
        BY <1>2, <1>8
      <4> QED
        BY <3>1, <4>1, <4>2 DEF Waits
    <3>2. CASE User[d] # u
      BY <1>3, <1>6, <3>2 DEF Waits
    <3> QED
      BY <3>1, <3>2
  <2>2. Tip(d)' = Tip(d)
    BY <1>6, <2>1 DEF Tip
  <2>3. SameAnnouncements(d)
    BY <1>4, <1>8 DEF SameAnnouncements, Answers, Idle
  <2>4. OnItsWay(d)' <=> OnItsWay(d)
    BY <2>3 DEF OnItsWay, SameAnnouncements, Answers
  <2> QED
    BY <1>5, <1>6, <2>1, <2>2, <2>3, <2>4 DEF AnnouncedInv, SameAnnouncements
<1> QED
  BY <1>7, <1>8

(* What waits of a serial document starts where subscribers are and ends    *)
(* with the tag stored, or with the one its next announcement follows.      *)
LEMMA AnnouncedByDelayedCall ==
    ASSUME TypeOK, AnnouncedInv, NEW u \in Users, DelayedCall(u) PROVE AnnouncedInv'
<1> PICK f : f = changes[u]
  OBVIOUS
<1>1. Publishes(u, f) /\ IsDiffOf(u, f) /\ row' = row /\ writer' = writer
  BY DelayedCallStates
<1>2. ASSUME NEW d \in Serial PROVE SameAnnouncements(d)
  BY <1>1 DEF SameAnnouncements, Answers
<1>3. ASSUME NEW d \in Serial, d \in DOMAIN f PROVE f[d].new = Tip(d)
  BY <1>1, <1>3, DiffType DEF Tip, Waits
<1>4. ASSUME NEW d \in Serial, d \notin DOMAIN f, User[d] = u PROVE ~Waits(d)
  BY <1>4 DEF Waits
<1> QED
  BY <1>1, <1>2, <1>3, <1>4, AnnouncedByPublishing

LEMMA AnnouncedByOnChange ==
    ASSUME TypeOK, WritersInv, AnnouncedInv, NEW w \in Workers, OnChange(w) PROVE AnnouncedInv'
<1> PICK c : c = writer[w].change
  OBVIOUS
<1> PICK u : u = User[c.doc]
  OBVIOUS
<1> PICK f : f = AddChange(changes[u], c)
  OBVIOUS
<1>1. /\ writer[w].pc = "answered" /\ writer' = [writer EXCEPT ![w] = Idle] /\ row' = row
      /\ c \in Change /\ u \in Users /\ IsDiffOf(u, changes[u]) /\ IsDiffOf(u, f)
      /\ Publishes(u, f) \/ PublishLater(u, f)
  BY OnChangeStates
<1>2. CASE PublishLater(u, f)
  BY <1>1, <1>2, AnnouncedByWaiting
<1>3. CASE Publishes(u, f)
  <2>1. /\ DOMAIN f = DOMAIN changes[u] \cup {c.doc} /\ f[c.doc].new = c.new
        /\ \A d \in DOMAIN changes[u] \ {c.doc} : f[d] = changes[u][d]
    <3> PICK p : p = changes[u]
      OBVIOUS
    <3>1. User[c.doc] = u /\ IsDiffOf(u, p) /\ f = AddChange(p, c)
      BY <1>1
    <3>2. IsAdded(u, p, c, f)
      BY ONLY <1>1, <3>1, AddedChange
    <3> QED
      BY <3>2 DEF IsAdded
  <2>2. writer'[w] = Idle /\ \A v \in Workers \ {w} : writer'[v] = writer[v]
    BY <1>1 DEF TypeOK
  <2>3. ASSUME NEW d \in Serial, d # c.doc PROVE SameAnnouncements(d)
    BY <2>2, <2>3 DEF SameAnnouncements, Answers, Idle
  <2>4. ASSUME NEW d \in Serial, d \in DOMAIN f, d # c.doc PROVE f[d].new = Tip(d)
    <3>1. d \in DOMAIN changes[u] /\ f[d] = changes[u][d]
      BY <2>1, <2>4
    <3>2. User[d] = u
      <4>1. IsDiffOf(u, changes[u])
        BY <1>1
      <4> QED
        BY ONLY <3>1, <4>1, DiffType
    <3> QED
      BY <3>1, <3>2 DEF Tip, Waits
  <2>5. ASSUME NEW d \in Serial, d = c.doc PROVE ~OnItsWay(d)' /\ f[d].new = row[d].etag
    <3>1. w \in Writers[d] /\ c.new = row[d].etag
      BY <1>1, <2>5 DEF WritersInv
    <3>2. ASSUME NEW v \in Workers PROVE ~Answers(v, d)'
      <4>1. CASE v = w
        BY <2>2, <4>1 DEF Answers, Idle
      <4>2. CASE v # w
        BY <2>2, <2>5, <3>1, <4>2, OneWriter DEF WritersInv, Answers
      <4> QED
        BY <4>1, <4>2
    <3> QED
      BY <2>1, <2>5, <3>1, <3>2 DEF OnItsWay, Answers
  <2>6. ASSUME NEW d \in Serial, d \notin DOMAIN f
        PROVE  SameAnnouncements(d) /\ (User[d] = u => ~Waits(d))
    BY <2>1, <2>3, <2>6 DEF Waits
  <2>7. \A d \in Serial : d \in DOMAIN f =>
            \/ SameAnnouncements(d) /\ f[d].new = Tip(d)
            \/ ~OnItsWay(d)' /\ f[d].new = row[d].etag
    BY <2>3, <2>4, <2>5
  <2> QED
    BY <1>1, <1>3, <2>6, <2>7, AnnouncedByPublishing
<1> QED
  BY <1>1, <1>2, <1>3

LEMMA AnnouncedStep == TypeOK /\ WritersInv /\ AnnouncedInv /\ [Next]_vars => AnnouncedInv'
<1> SUFFICES ASSUME TypeOK, WritersInv, AnnouncedInv, [Next]_vars PROVE AnnouncedInv'
  OBVIOUS
<1>0. writer = [w \in Workers |-> writer[w]]
  BY DEF TypeOK
<1>1. ASSUME UNCHANGED <<row, changes, published, missed>>, \A d \in Serial : SameAnnouncements(d)
      PROVE  AnnouncedInv'
  <2>1. SUFFICES ASSUME NEW d \in Serial, d \notin missed
                 PROVE  /\ ~OnItsWay(d)' => Tip(d)' = row'[d].etag
                        /\ \A w \in Workers : Answers(w, d)' => writer'[w].change.old \in {0, Tip(d)'}
                        /\ Waits(d)' => changes'[User[d]][d].old \in {0, Known(d)'}
    BY <1>1 DEF AnnouncedInv
  <2> QED
    BY <1>1, <2>1, AnnouncedStays
<1>2. ASSUME NEW w \in Workers, NEW e \in Documents, PutIdentical(w, e) PROVE AnnouncedInv'
  <2>1. /\ UNCHANGED <<row, changes, published, missed>> /\ row[e].etag \in Nat
        /\ writer[w].pc = "idle" /\ writer'[w] = Announce(e, 0, row[e].etag)
        /\ \A v \in Workers \ {w} : writer'[v] = writer[v]
    BY <1>0, <1>2 DEF PutIdentical, Becomes, storage, notifier, TypeOK
  <2>2. /\ writer'[w].pc = "answered" /\ writer'[w].change.doc = e
        /\ writer'[w].change.old = 0
    BY <2>1, AnnounceType
  <2>3. SUFFICES ASSUME NEW d \in Serial, d \notin missed
                 PROVE  /\ ~OnItsWay(d)' => Tip(d)' = row'[d].etag
                        /\ \A v \in Workers : Answers(v, d)' => writer'[v].change.old \in {0, Tip(d)'}
                        /\ Waits(d)' => changes'[User[d]][d].old \in {0, Known(d)'}
    BY <2>1 DEF AnnouncedInv
  <2>4. Tip(d)' = Tip(d) /\ Known(d)' = Known(d) /\ (Waits(d)' <=> Waits(d))
    BY <2>1 DEF Tip, Known, Waits
  <2>5. OnItsWay(d) => OnItsWay(d)'
    BY <2>1 DEF OnItsWay
  <2>6. ASSUME NEW v \in Workers, Answers(v, d)' PROVE writer'[v].change.old \in {0, Tip(d)}
    <3>1. CASE v = w
      BY <2>2, <3>1
    <3>2. CASE v # w
      BY <2>1, <2>3, <2>6, <3>2 DEF Answers, AnnouncedInv
    <3> QED
      BY <3>1, <3>2
  <2> QED
    BY <2>1, <2>3, <2>4, <2>5, <2>6 DEF AnnouncedInv
<1>3. ASSUME NEW w \in Workers, NEW e \in Documents, NEW kind \in {"put", "delete"}, Fetch(w, e, kind)
      PROVE  AnnouncedInv'
  <2>1. /\ UNCHANGED <<row, changes, published, missed>> /\ writer[w].pc = "idle"
        /\ writer'[w] = [pc |-> "write", kind |-> kind, doc |-> e, row |-> row[e]]
        /\ \A v \in Workers \ {w} : writer'[v] = writer[v]
    BY <1>0, <1>3 DEF Fetch, Becomes, storage, notifier
  <2>2. \A d \in Serial : SameAnnouncements(d)
    BY <2>1 DEF SameAnnouncements, Answers
  <2> QED
    BY <1>1, <2>1, <2>2
<1>4. ASSUME NEW w \in Workers, Commit(w) PROVE AnnouncedInv'
  BY <1>4, AnnouncedByCommit
<1>5. ASSUME NEW w \in Workers, WriteFails(w) PROVE AnnouncedInv'
  <2>1. /\ UNCHANGED <<row, changes, published, missed>> /\ writer[w].pc = "write"
        /\ writer'[w] = Idle /\ \A v \in Workers \ {w} : writer'[v] = writer[v]
    BY <1>0, <1>5 DEF WriteFails, Becomes, storage, notifier
  <2>2. \A d \in Serial : SameAnnouncements(d)
    BY <2>1 DEF SameAnnouncements, Answers, Idle
  <2> QED
    BY <1>1, <2>1, <2>2
<1>6. ASSUME NEW w \in Workers, OnChange(w) PROVE AnnouncedInv'
  BY <1>6, AnnouncedByOnChange
<1>7. ASSUME NEW u \in Users, DelayedCall(u) PROVE AnnouncedInv'
  BY <1>7, AnnouncedByDelayedCall
<1>8. ASSUME UNCHANGED <<row, changes, published, missed, writer>> PROVE AnnouncedInv'
  BY <1>1, <1>8 DEF SameAnnouncements, Answers
<1>9. ASSUME NEW u \in Users, TryCleanup(u) PROVE AnnouncedInv'
  BY <1>8, <1>9 DEF TryCleanup, storage
<1>10. CASE Tick \/ UNCHANGED vars
  BY <1>8, <1>10 DEF Tick, vars, storage, notifier
<1> QED
  BY <1>2, <1>3, <1>4, <1>5, <1>6, <1>7, <1>9, <1>10 DEF Next

-----------------------------------------------------------------------------

LEMMA NotifierInvariants ==
    Spec => [](TypeOK /\ PendingChangesAreTimed /\ WritersInv /\ AnnouncedInv)
<1>1. Init => WritersInv /\ AnnouncedInv
  BY WritersInit, AnnouncedInit
<1>2. /\ TypeOK /\ WritersInv /\ [Next]_vars => WritersInv'
      /\ TypeOK /\ WritersInv /\ AnnouncedInv /\ [Next]_vars => AnnouncedInv'
  BY WritersStep, AnnouncedStep
<1> QED
  BY <1>1, <1>2, NotifierTypeCorrect, PendingAlwaysTimed, PTL DEF Spec

(* Where the requests for a document do not overlap, once all is calm       *)
(* subscribers know the tag stored, whatever was merged (xcapdiff.py:36).   *)
THEOREM LatestAlwaysPublished == Spec => []LatestIsPublished
<1>1. TypeOK /\ PendingChangesAreTimed /\ AnnouncedInv => LatestIsPublished
  <2> SUFFICES ASSUME TypeOK, PendingChangesAreTimed, AnnouncedInv, NEW d \in Serial,
                      \A w \in Workers : writer[w] = Idle, timer[User[d]] = 0, d \notin missed
               PROVE  Known(d) = row[d].etag
    BY DEF LatestIsPublished
  <2>1. User[d] \in Users
    BY DEF Serial, Users
  <2>2. changes[User[d]] = <<>>
    BY <2>1 DEF PendingChangesAreTimed
  <2>3. ~Waits(d)
    BY <2>2, NoChanges DEF Waits
  <2>4. ~OnItsWay(d)
    BY DEF OnItsWay, Idle
  <2> QED
    BY <2>3, <2>4 DEF AnnouncedInv, Tip
<1> QED
  BY <1>1, NotifierInvariants, PTL

(* A publication starts, for each serial document, where subscribers are.   *)
LEMMA PublicationStarts ==
    ASSUME TypeOK, AnnouncedInv, NEW u \in Users, NEW f, IsDiffOf(u, f), Publishes(u, f),
           published' # published, NEW d \in Serial \ missed,
           d \in DOMAIN published'[Len(published')].diff,
           d \in DOMAIN f => f[d].old \in {0, Known(d)}
    PROVE  published'[Len(published')].diff[d].old \in {0, Known(d)}
<1>1. Published(u, f)
  BY DEF Publishes, Raised
<1>2. /\ Len(published') = Len(published) + 1
      /\ published'[Len(published) + 1] = [user |-> u, at |-> now, diff |-> f]
  BY <1>1, PublishedType
<1>3. [user |-> u, at |-> now, diff |-> f].diff = f
  OBVIOUS
<1>4. published'[Len(published')].diff = f
  BY <1>2, <1>3
<1> QED
  BY <1>4

LEMMA OnChangeStarts ==
    ASSUME TypeOK, WritersInv, AnnouncedInv, NEW w \in Workers, OnChange(w),
           published' # published, NEW d \in Serial \ missed,
           d \in DOMAIN published'[Len(published')].diff
    PROVE  published'[Len(published')].diff[d].old \in {0, Known(d)}
<1> PICK c : c = writer[w].change
  OBVIOUS
<1> PICK u : u = User[c.doc]
  OBVIOUS
<1> PICK f : f = AddChange(changes[u], c)
  OBVIOUS
<1>1. /\ writer[w].pc = "answered"
      /\ c \in Change /\ u \in Users /\ IsDiffOf(u, changes[u]) /\ IsDiffOf(u, f)
      /\ Publishes(u, f) \/ PublishLater(u, f)
  BY OnChangeStates
<1>2. Publishes(u, f)
  BY <1>1 DEF PublishLater
<1>3. /\ DOMAIN f = DOMAIN changes[u] \cup {c.doc}
      /\ f[c.doc].old = IF c.doc \in DOMAIN changes[u] THEN changes[u][c.doc].old ELSE c.old
      /\ \A e \in DOMAIN changes[u] \ {c.doc} : f[e] = changes[u][e]
  <2> PICK p : p = changes[u]
    OBVIOUS
  <2>1. User[c.doc] = u /\ IsDiffOf(u, p) /\ f = AddChange(p, c)
    BY <1>1
  <2>2. IsAdded(u, p, c, f)
    BY ONLY <1>1, <2>1, AddedChange
  <2> QED
    BY <2>2 DEF IsAdded
<1>4. ASSUME d \in DOMAIN f PROVE f[d].old \in {0, Known(d)}
  <2>1. CASE d \in DOMAIN changes[u]
    <3>1. User[d] = u
      BY <1>1, <2>1, DiffType
    <3>2. changes[u][d].old \in {0, Known(d)}
      BY <2>1, <3>1 DEF AnnouncedInv, Waits
    <3> QED
      BY <1>3, <2>1, <3>2
  <2>2. CASE d \notin DOMAIN changes[u]
    <3>1. d = c.doc /\ User[d] = u /\ f[d].old = c.old
      BY <1>3, <1>4, <2>2
    <3>2. c.old \in {0, Tip(d)}
      BY <1>1, <3>1 DEF AnnouncedInv, Answers
    <3> QED
      BY <2>2, <3>1, <3>2 DEF Tip, Waits
  <2> QED
    BY <2>1, <2>2
<1> QED
  BY <1>1, <1>2, <1>4, PublicationStarts

LEMMA DelayedCallStarts ==
    ASSUME TypeOK, AnnouncedInv, NEW u \in Users, DelayedCall(u),
           published' # published, NEW d \in Serial \ missed,
           d \in DOMAIN published'[Len(published')].diff
    PROVE  published'[Len(published')].diff[d].old \in {0, Known(d)}
<1> PICK f : f = changes[u]
  OBVIOUS
<1>1. Publishes(u, f) /\ IsDiffOf(u, f)
  BY DelayedCallStates
<1>2. ASSUME d \in DOMAIN f PROVE f[d].old \in {0, Known(d)}
  <2>1. User[d] = u
    BY <1>1, <1>2, DiffType
  <2> QED
    BY <1>2, <2>1 DEF AnnouncedInv, Waits
<1> QED
  BY <1>1, <1>2, PublicationStarts

(* However many changes of however many documents are merged, a published   *)
(* diff of a serial document starts where the last one ended, or is that of *)
(* a creation (xcapdiff.py:36, opensips.py:104).                            *)
THEOREM DiffsAlwaysStartFromKnown == Spec => DiffsStartFromKnown
<1>1. /\ TypeOK /\ WritersInv /\ AnnouncedInv /\ [Next]_vars
      => [\A d \in Serial \ missed :
            LET last == published'[Len(published')] IN
            published' # published /\ d \in DOMAIN last.diff
            => last.diff[d].old \in {0, Known(d)}]_vars
  <2> SUFFICES ASSUME TypeOK, WritersInv, AnnouncedInv, [Next]_vars, published' # published,
                      NEW d \in Serial \ missed, d \in DOMAIN published'[Len(published')].diff
               PROVE  published'[Len(published')].diff[d].old \in {0, Known(d)}
    OBVIOUS
  <2>1. \/ \E w \in Workers : OnChange(w)
        \/ \E u \in Users : DelayedCall(u)
    BY DEF Next, PutIdentical, Fetch, Commit, WriteFails, TryCleanup, Tick, vars
  <2> QED
    BY <2>1, OnChangeStarts, DelayedCallStarts
<1> QED
  BY <1>1, NotifierInvariants, PTL DEF Spec, DiffsStartFromKnown

-----------------------------------------------------------------------------
(* The notifier and what is behind it.                                      *)

(* The composition is the notifier of XcapDiff with something behind it.    *)
LEMMA NotifierOfAnnouncing == AnnouncingSpec => Spec
<1>1. AnnouncingInit => Init
  BY DEF AnnouncingInit
<1>2. [AnnouncingNext]_all => [Next]_vars
  BY DEF AnnouncingNext, Notify, TakeUp, Send, Fail, all
<1> QED
  BY <1>1, <1>2, PTL DEF AnnouncingSpec, Spec

LEMMA NotifierKeepsItsInvariants ==
    AnnouncingSpec => [](TypeOK /\ WritersInv /\ LatestIsPublished)
BY NotifierOfAnnouncing, NotifierInvariants, LatestAlwaysPublished, PTL

-----------------------------------------------------------------------------
(* The order of the tags of a document.                                     *)

Names(i, d) == i \in DOMAIN published /\ d \in DOMAIN published[i].diff
New(i, d)   == published[i].diff[d].new

LEMMA NewType == ASSUME TypeOK, NEW i, NEW d, Names(i, d) PROVE New(i, d) \in Nat
<1>1. IsDiffOf(published[i].user, published[i].diff)
  BY DEF TypeOK, Names
<1>2. published[i].diff[d] \in Tags
  BY <1>1, DiffType DEF Names
<1> QED
  BY <1>2 DEF New, Tags

LEMMA WaitingType ==
    ASSUME TypeOK, NEW d \in Serial, Waits(d) PROVE changes[User[d]][d].new \in Nat
<1>1. IsDiffOf(User[d], changes[User[d]])
  BY DEF TypeOK, Serial, Users
<1> QED
  BY <1>1, DiffType DEF Waits, Tags

(* A tag that may be announced of d now: it was drawn, and unless d was     *)
(* deleted it is not newer than the one stored; unless it is that of a      *)
(* deletion, none announced so far is newer.                                *)
IsDue(d, tag) ==
    /\ tag <= drawn /\ (row[d].etag # 0 => tag <= row[d].etag)
    /\ tag # 0 => \A i : Names(i, d) => New(i, d) <= tag

OrderInv ==
    \A d \in Serial :
        /\ row[d].etag <= drawn
        /\ \A i : Names(i, d) =>
              New(i, d) <= drawn /\ (row[d].etag # 0 => New(i, d) <= row[d].etag)
        /\ Waits(d) => IsDue(d, changes[User[d]][d].new)
        /\ \A i, j : Names(i, d) /\ Names(j, d) /\ i < j /\ New(j, d) # 0 => New(i, d) <= New(j, d)

LEMMA OrderInit == Init => OrderInv
<1> SUFFICES ASSUME Init, NEW d \in Serial
             PROVE  row[d].etag <= drawn /\ ~Waits(d) /\ \A i : ~Names(i, d)
  BY DEF OrderInv
<1>1. d \in Documents /\ User[d] \in Users
  BY DEF Serial, Users
<1>2. ~Waits(d)
  BY <1>1, NoChanges DEF Init, Waits
<1>3. DOMAIN published = {}
  BY NoChanges DEF Init
<1> QED
  BY <1>1, <1>2, <1>3 DEF Init, NoRow, Names

(* The tag stored is due.                                                   *)
LEMMA StoredIsDue == ASSUME TypeOK, OrderInv, NEW d \in Serial PROVE IsDue(d, row[d].etag)
<1>1. row[d].etag \in Nat
  BY DEF TypeOK, Serial
<1> QED
  BY <1>1 DEF OrderInv, IsDue

(* A write of one document leaves every other tag due.                      *)
LEMMA OrderByCommit ==
    ASSUME TypeOK, OrderInv, drawn' = drawn + 1, UNCHANGED <<changes, published>>,
           \A d \in Serial : row'[d].etag \in {row[d].etag, 0, drawn + 1}
    PROVE  OrderInv'
<1> SUFFICES ASSUME NEW d \in Serial
             PROVE  /\ row'[d].etag <= drawn'
                    /\ \A i : Names(i, d)' =>
                          New(i, d)' <= drawn' /\ (row'[d].etag # 0 => New(i, d)' <= row'[d].etag)
                    /\ Waits(d)' => IsDue(d, changes[User[d]][d].new)'
                    /\ \A i, j : Names(i, d)' /\ Names(j, d)' /\ i < j /\ New(j, d)' # 0
                                 => New(i, d)' <= New(j, d)'
  BY DEF OrderInv
<1>1. drawn \in Nat /\ row[d].etag \in Nat
  BY DEF TypeOK, Serial
<1>2. \A i : (Names(i, d)' <=> Names(i, d)) /\ New(i, d)' = New(i, d)
  BY DEF Names, New
<1>3. \A i : Names(i, d) => New(i, d) \in Nat
  BY NewType
<1>4. row'[d].etag \in {row[d].etag, 0, drawn + 1} /\ row[d].etag <= drawn
  BY DEF OrderInv
<1>5. row'[d].etag <= drawn'
  BY <1>1, <1>4
<1>6. ASSUME NEW tag \in Nat, tag <= drawn, row[d].etag # 0 => tag <= row[d].etag
      PROVE  tag <= drawn' /\ (row'[d].etag # 0 => tag <= row'[d].etag)
  BY <1>1, <1>4, <1>6
<1>7. ASSUME NEW i, Names(i, d)'
      PROVE  New(i, d)' <= drawn' /\ (row'[d].etag # 0 => New(i, d)' <= row'[d].etag)
  BY <1>2, <1>3, <1>6, <1>7 DEF OrderInv
<1>8. ASSUME Waits(d)' PROVE IsDue(d, changes[User[d]][d].new)'
  <2>1. PICK tag : tag = changes[User[d]][d].new
    OBVIOUS
  <2>2. Waits(d) /\ changes' = changes
    BY <1>8 DEF Waits
  <2>3. tag \in Nat /\ IsDue(d, tag)
    BY <2>1, <2>2, WaitingType DEF OrderInv
  <2>4. tag <= drawn' /\ (row'[d].etag # 0 => tag <= row'[d].etag)
    BY <1>6, <2>3 DEF IsDue
  <2>5. tag # 0 => \A i : Names(i, d)' => New(i, d)' <= tag
    BY <1>2, <2>3 DEF IsDue
  <2> QED
    BY <2>1, <2>2, <2>4, <2>5 DEF IsDue
<1>9. \A i, j : Names(i, d)' /\ Names(j, d)' /\ i < j /\ New(j, d)' # 0 => New(i, d)' <= New(j, d)'
  BY <1>2 DEF OrderInv
<1> QED
  BY <1>5, <1>7, <1>8, <1>9

(* A diff whose tags are due keeps the order.                               *)
LEMMA OrderByPublishing ==
    ASSUME TypeOK, OrderInv, UNCHANGED <<drawn, row>>,
           NEW u \in Users, NEW f, IsDiffOf(u, f), Publishes(u, f),
           \A d \in Serial : d \in DOMAIN f => IsDue(d, f[d].new)
    PROVE  OrderInv'
<1> SUFFICES ASSUME NEW d \in Serial
             PROVE  /\ row[d].etag <= drawn
                    /\ \A i : Names(i, d)' =>
                          New(i, d)' <= drawn /\ (row[d].etag # 0 => New(i, d)' <= row[d].etag)
                    /\ Waits(d)' => IsDue(d, changes[User[d]][d].new)'
                    /\ \A i, j : Names(i, d)' /\ Names(j, d)' /\ i < j /\ New(j, d)' # 0
                                 => New(i, d)' <= New(j, d)'
  BY DEF OrderInv
<1>1. User[d] \in Users /\ (d \in DOMAIN f => User[d] = u)
  BY DiffType DEF Serial, Users
<1>2. changes'[u] = <<>> /\ \A v \in Users \ {u} : changes'[v] = changes[v]
  BY PublishesType
<1>3. ASSUME Waits(d)'
      PROVE  /\ User[d] # u /\ d \notin DOMAIN f /\ Waits(d)
             /\ changes'[User[d]][d].new = changes[User[d]][d].new
  BY <1>1, <1>2, <1>3, NoChanges DEF Waits
<1>4. CASE Raised(f)
  <2>1. \A i : (Names(i, d)' <=> Names(i, d)) /\ New(i, d)' = New(i, d)
    BY <1>4 DEF Names, New, Raised
  <2>2. ASSUME Waits(d)' PROVE IsDue(d, changes[User[d]][d].new)'
    <3>1. PICK tag : tag = changes[User[d]][d].new
      OBVIOUS
    <3>2. IsDue(d, tag) /\ changes'[User[d]][d].new = tag
      BY <1>3, <2>2, <3>1 DEF OrderInv
    <3> QED
      BY <2>1, <3>2 DEF IsDue
  <2> QED
    BY <2>1, <2>2 DEF OrderInv
<1>5. CASE Published(u, f)
  <2> DEFINE L == Len(published)
  <2>1. /\ L \in Nat /\ DOMAIN published = 1 .. L /\ DOMAIN published' = 1 .. L + 1
        /\ published'[L + 1] = [user |-> u, at |-> now, diff |-> f]
        /\ \A i \in 1 .. L : published'[i] = published[i]
    BY <1>5, PublishedType
  <2>2. [user |-> u, at |-> now, diff |-> f].diff = f
    OBVIOUS
  <2>3. published'[L + 1].diff = f
    BY <2>1, <2>2
  <2>4. ASSUME NEW i, Names(i, d)'
        PROVE  \/ Names(i, d) /\ New(i, d)' = New(i, d) /\ i \in 1 .. L
               \/ i = L + 1 /\ d \in DOMAIN f /\ New(i, d)' = f[d].new
    <3>1. CASE i = L + 1
      BY <2>1, <2>3, <2>4, <3>1 DEF Names, New
    <3>2. CASE i # L + 1
      <4>1. i \in 1 .. L /\ published'[i] = published[i]
        BY <2>1, <2>4, <3>2 DEF Names
      <4> QED
        BY <2>1, <2>4, <4>1 DEF Names, New
    <3> QED
      BY <3>1, <3>2
  <2> HIDE DEF L
  <2>5. d \in DOMAIN f => IsDue(d, f[d].new)
    OBVIOUS
  <2>6. ASSUME NEW i, Names(i, d)'
        PROVE  New(i, d)' <= drawn /\ (row[d].etag # 0 => New(i, d)' <= row[d].etag)
    BY <2>4, <2>5, <2>6 DEF OrderInv, IsDue
  <2>7. ASSUME Waits(d)' PROVE IsDue(d, changes[User[d]][d].new)'
    <3>1. PICK tag : tag = changes[User[d]][d].new
      OBVIOUS
    <3>2. IsDue(d, tag) /\ changes'[User[d]][d].new = tag /\ d \notin DOMAIN f
      BY <1>3, <2>7, <3>1 DEF OrderInv
    <3>3. \A i : Names(i, d)' => Names(i, d) /\ New(i, d)' = New(i, d)
      BY <2>4, <3>2
    <3> QED
      BY <3>2, <3>3 DEF IsDue
  <2>8. ASSUME NEW i, NEW j, Names(i, d)', Names(j, d)', i < j, New(j, d)' # 0
        PROVE  New(i, d)' <= New(j, d)'
    <3>1. CASE j \in 1 .. L
      <4>1. i \in 1 .. L
        BY <2>1, <2>4, <2>8, <3>1
      <4> QED
        BY <2>1, <2>4, <2>8, <3>1, <4>1 DEF OrderInv
    <3>2. CASE j = L + 1 /\ d \in DOMAIN f /\ New(j, d)' = f[d].new
      <4>1. Names(i, d) /\ New(i, d)' = New(i, d)
        BY <2>1, <2>4, <2>8, <3>2
      <4> QED
        BY <2>5, <2>8, <3>2, <4>1 DEF IsDue
    <3> QED
      BY <2>4, <2>8, <3>1, <3>2
  <2> QED
    BY <2>6, <2>7, <2>8 DEF OrderInv
<1> QED
  BY <1>4, <1>5 DEF Publishes

LEMMA OrderByDelayedCall ==
    ASSUME TypeOK, OrderInv, NEW u \in Users, DelayedCall(u) PROVE OrderInv'
<1> PICK f : f = changes[u]
  OBVIOUS
<1>1. Publishes(u, f) /\ IsDiffOf(u, f) /\ row' = row /\ drawn' = drawn
  BY DelayedCallStates
<1>2. ASSUME NEW d \in Serial, d \in DOMAIN f PROVE IsDue(d, f[d].new)
  <2>1. User[d] = u
    BY <1>1, <1>2, DiffType
  <2> QED
    BY <1>2, <2>1 DEF OrderInv, Waits
<1> QED
  BY <1>1, <1>2, OrderByPublishing

(* A change that waits is due as long as it waits.                          *)
LEMMA OrderByWaiting ==
    ASSUME TypeOK, OrderInv, UNCHANGED <<drawn, row>>,
           NEW u \in Users, NEW f, IsDiffOf(u, f), PublishLater(u, f),
           \A d \in Serial : d \in DOMAIN f => IsDue(d, f[d].new)
    PROVE  OrderInv'
<1>1. /\ changes'[u] = f /\ \A v \in Users \ {u} : changes'[v] = changes[v]
      /\ published' = published
  BY ChangesSet DEF PublishLater
<1>2. ASSUME NEW d \in Serial
      PROVE  \A i : (Names(i, d)' <=> Names(i, d)) /\ New(i, d)' = New(i, d)
  BY <1>1 DEF Names, New
<1>3. ASSUME NEW d \in Serial, Waits(d)' PROVE IsDue(d, changes[User[d]][d].new)'
  <2>1. PICK tag : tag = changes'[User[d]][d].new
    OBVIOUS
  <2>2. User[d] \in Users
    BY DEF Serial, Users
  <2>3. IsDue(d, tag)
    <3>1. CASE User[d] = u
      BY <1>1, <1>3, <2>1, <3>1 DEF Waits
    <3>2. CASE User[d] # u
      BY <1>1, <1>3, <2>1, <2>2, <3>2 DEF Waits, OrderInv
    <3> QED
      BY <3>1, <3>2
  <2> QED
    BY <1>2, <2>1, <2>3 DEF IsDue
<1> QED
  BY <1>2, <1>3 DEF OrderInv

LEMMA OrderByOnChange ==
    ASSUME TypeOK, WritersInv, OrderInv, NEW w \in Workers, OnChange(w) PROVE OrderInv'
<1> PICK c : c = writer[w].change
  OBVIOUS
<1> PICK u : u = User[c.doc]
  OBVIOUS
<1> PICK f : f = AddChange(changes[u], c)
  OBVIOUS
<1>1. /\ writer[w].pc = "answered" /\ row' = row /\ drawn' = drawn
      /\ c \in Change /\ u \in Users /\ IsDiffOf(u, changes[u]) /\ IsDiffOf(u, f)
      /\ Publishes(u, f) \/ PublishLater(u, f)
  BY OnChangeStates
<1>2. /\ DOMAIN f = DOMAIN changes[u] \cup {c.doc} /\ f[c.doc].new = c.new
      /\ \A d \in DOMAIN changes[u] \ {c.doc} : f[d] = changes[u][d]
  <2> PICK p : p = changes[u]
    OBVIOUS
  <2>1. User[c.doc] = u /\ IsDiffOf(u, p) /\ f = AddChange(p, c)
    BY <1>1
  <2>2. IsAdded(u, p, c, f)
    BY ONLY <1>1, <2>1, AddedChange
  <2> QED
    BY <2>2 DEF IsAdded
<1>3. ASSUME NEW d \in Serial, d \in DOMAIN f PROVE IsDue(d, f[d].new)
  <2>1. CASE d = c.doc
    <3>1. f[d].new = row[d].etag
      BY <1>1, <1>2, <2>1 DEF WritersInv
    <3> QED
      BY <3>1, StoredIsDue
  <2>2. CASE d # c.doc
    <3>1. d \in DOMAIN changes[u] /\ f[d] = changes[u][d]
      BY <1>2, <1>3, <2>2
    <3>2. User[d] = u
      <4>1. IsDiffOf(u, changes[u])
        BY <1>1
      <4> QED
        BY ONLY <3>1, <4>1, DiffType
    <3> QED
      BY <3>1, <3>2 DEF OrderInv, Waits
  <2> QED
    BY <2>1, <2>2
<1> QED
  BY <1>1, <1>3, OrderByPublishing, OrderByWaiting

LEMMA OrderStep == TypeOK /\ WritersInv /\ OrderInv /\ [Next]_vars => OrderInv'
<1> SUFFICES ASSUME TypeOK, WritersInv, OrderInv, [Next]_vars PROVE OrderInv'
  OBVIOUS
<1>1. ASSUME NEW w \in Workers, Commit(w) PROVE OrderInv'
  <2> PICK e : e = writer[w].doc
    OBVIOUS
  <2> PICK put : put = [etag |-> drawn + 1,
                        born |-> IF writer[w].row = NoRow THEN drawn + 1 ELSE writer[w].row.born]
    OBVIOUS
  <2>1. /\ drawn' = drawn + 1 /\ UNCHANGED <<changes, published>> /\ put.etag = drawn + 1
        /\ \/ row' = [row EXCEPT ![e] = put]
           \/ row' = [row EXCEPT ![e] = NoRow]
           \/ row' = row
    BY <1>1, CommitStates
  <2>2. ASSUME NEW d \in Serial PROVE row'[d].etag \in {row[d].etag, 0, drawn + 1}
    <3>1. row = [x \in Documents |-> row[x]] /\ d \in Documents
      BY DEF TypeOK, Serial
    <3>2. row'[d] \in {row[d], put, NoRow}
      BY <2>1, <3>1
    <3> QED
      BY <2>1, <3>2 DEF NoRow
  <2> QED
    BY <2>1, <2>2, OrderByCommit
<1>2. ASSUME UNCHANGED <<drawn, row, changes, published>> PROVE OrderInv'
  BY <1>2 DEF OrderInv, IsDue, Names, New, Waits
<1>3. ASSUME NEW w \in Workers, NEW d \in Documents, PutIdentical(w, d) PROVE OrderInv'
  BY <1>2, <1>3 DEF PutIdentical, storage, notifier
<1>4. ASSUME NEW w \in Workers, NEW d \in Documents, NEW kind \in {"put", "delete"}, Fetch(w, d, kind)
      PROVE  OrderInv'
  BY <1>2, <1>4 DEF Fetch, storage, notifier
<1>5. ASSUME NEW w \in Workers, WriteFails(w) PROVE OrderInv'
  BY <1>2, <1>5 DEF WriteFails, storage, notifier
<1>6. ASSUME NEW w \in Workers, OnChange(w) PROVE OrderInv'
  BY <1>6, OrderByOnChange
<1>7. ASSUME NEW u \in Users, DelayedCall(u) PROVE OrderInv'
  BY <1>7, OrderByDelayedCall
<1>8. ASSUME NEW u \in Users, TryCleanup(u) PROVE OrderInv'
  BY <1>2, <1>8 DEF TryCleanup, storage
<1>9. CASE Tick \/ UNCHANGED vars
  BY <1>2, <1>9 DEF Tick, vars, storage, notifier
<1> QED
  BY <1>1, <1>3, <1>4, <1>5, <1>6, <1>7, <1>8, <1>9 DEF Next

LEMMA TagsInOrder == AnnouncingSpec => []OrderInv
<1>1. Init => OrderInv
  BY OrderInit
<1>2. TypeOK /\ WritersInv /\ OrderInv /\ [Next]_vars => OrderInv'
  BY OrderStep
<1> QED
  BY <1>1, <1>2, NotifierOfAnnouncing, NotifierKeepsItsInvariants, PTL DEF Spec

-----------------------------------------------------------------------------
(* What is sent.                                                            *)

Calls == [i \in DOMAIN published |-> published[i].user]

LEMMA CallsType ==
    ASSUME TypeOK
    PROVE  /\ Calls \in Seq(Users) /\ Len(Calls) = Len(published) /\ Len(published) \in Nat
           /\ DOMAIN published = 1 .. Len(published)
           /\ \A i \in 1 .. Len(published) : Calls[i] = published[i].user
<1>1. /\ DOMAIN published = 1 .. Len(published) /\ Len(published) \in Nat
      /\ \A i \in DOMAIN published : published[i].user \in Users
  BY DEF TypeOK
<1>2. Calls \in [1 .. Len(published) -> Users]
  BY <1>1 DEF Calls
<1>3. Calls \in Seq(Users) /\ DOMAIN Calls = 1 .. Len(published)
  BY <1>1, <1>2, SeqDef
<1>4. Len(Calls) = Len(published)
  BY <1>1, <1>3, LenProperties
<1> QED
  BY <1>1, <1>3, <1>4 DEF Calls

LEMMA PublishedGrows ==
    ASSUME TypeOK, [Next]_vars
    PROVE  /\ Len(published) <= Len(published')
           /\ \A i \in 1 .. Len(published) : published'[i] = published[i]
<1>1. Len(published) \in Nat
  BY DEF TypeOK
<1>2. ASSUME NEW u \in Users, NEW f, IsDiffOf(u, f), Publishes(u, f)
      PROVE  /\ Len(published) <= Len(published')
             /\ \A i \in 1 .. Len(published) : published'[i] = published[i]
  <2>1. CASE Raised(f)
    BY <1>1, <2>1 DEF Raised
  <2>2. CASE Published(u, f)
    <3>1. /\ Len(published') = Len(published) + 1
          /\ \A i \in 1 .. Len(published) : published'[i] = published[i]
      BY <1>2, <2>2, PublishedType
    <3> QED
      BY <1>1, <3>1
  <2> QED
    BY <1>2, <2>1, <2>2 DEF Publishes
<1>3. ASSUME NEW w \in Workers, OnChange(w)
      PROVE  \/ published' = published
             \/ \E u \in Users : \E f : IsDiffOf(u, f) /\ Publishes(u, f)
  BY <1>3, OnChangeStates DEF PublishLater
<1>4. ASSUME NEW u \in Users, DelayedCall(u)
      PROVE  IsDiffOf(u, changes[u]) /\ Publishes(u, changes[u])
  BY <1>4, DelayedCallStates
<1>5. \/ published' = published
      \/ \E w \in Workers : OnChange(w)
      \/ \E u \in Users : DelayedCall(u)
  BY DEF Next, PutIdentical, Fetch, Commit, WriteFails, TryCleanup, Tick, vars
<1>6. Len(published) <= Len(published)
  BY <1>1
<1>7. CASE published' = published
  BY <1>6, <1>7
<1>8. CASE \E u \in Users : \E f : IsDiffOf(u, f) /\ Publishes(u, f)
  BY <1>2, <1>8
<1>9. \/ published' = published
      \/ \E u \in Users : \E f : IsDiffOf(u, f) /\ Publishes(u, f)
  BY <1>3, <1>4, <1>5
<1> QED
  BY <1>7, <1>8, <1>9

(* A body goes out with the user it is of, and no body after a later one.   *)
SentInv ==
    /\ taken \in 0 .. Len(published) /\ body = taken /\ uri \in Users
    /\ taken # 0 => uri = published[taken].user
    /\ lookups \subseteq 1 .. taken /\ failed \subseteq 1 .. taken /\ calm \in BOOLEAN
    /\ sent \in Seq([user : Users, body : Nat])
    /\ \A i \in DOMAIN sent : /\ sent[i].body \in 1 .. taken
                              /\ sent[i].user = published[sent[i].body].user
    /\ \A i, j \in DOMAIN sent : i <= j => sent[i].body <= sent[j].body

(* When no lookup overlapped another or failed, each diff taken up was sent, *)
(* but for the one whose lookup is under way.                               *)
CalmInv ==
    calm /\ failed = {} =>
        /\ lookups \subseteq {taken}
        /\ Len(sent) = IF lookups = {} THEN taken ELSE taken - 1
        /\ \A i \in DOMAIN sent : sent[i].body = i

LEMMA SentInit == AnnouncingInit => SentInv /\ CalmInv
<1> SUFFICES ASSUME AnnouncingInit PROVE SentInv /\ CalmInv
  OBVIOUS
<1>1. TypeOK
  BY TypeInit DEF AnnouncingInit
<1>2. /\ taken = 0 /\ body = 0 /\ uri \in Users /\ lookups = {} /\ sent = <<>>
      /\ failed = {} /\ calm = TRUE
  BY DEF AnnouncingInit, Publisher!Init
<1>3. 0 \in 0 .. Len(published)
  BY <1>1 DEF TypeOK
<1> QED
  BY <1>2, <1>3 DEF SentInv, CalmInv

LEMMA SentByNotify ==
    ASSUME TypeOK, SentInv, CalmInv, [Next]_vars, UNCHANGED <<publisher, failed, calm>>
    PROVE  SentInv' /\ CalmInv'
<1>1. /\ Len(published) \in Nat /\ Len(published') \in Nat /\ Len(published) <= Len(published')
      /\ \A i \in 1 .. Len(published) : published'[i] = published[i]
  <2>1. TypeOK'
    BY TypeStep
  <2> QED
    BY <2>1, PublishedGrows DEF TypeOK
<1>2. UNCHANGED <<taken, body, uri, lookups, sent, failed, calm>>
  BY DEF publisher
<1>3. taken \in 0 .. Len(published') /\ \A i \in 1 .. taken : published'[i] = published[i]
  BY <1>1 DEF SentInv
<1>4. taken # 0 => uri = published'[taken].user
  BY <1>3 DEF SentInv
<1>5. \A i \in DOMAIN sent : sent[i].user = published'[sent[i].body].user
  BY <1>3 DEF SentInv
<1>6. SentInv'
  BY <1>2, <1>3, <1>4, <1>5 DEF SentInv
<1>7. CalmInv'
  BY <1>2 DEF CalmInv
<1> QED
  BY <1>6, <1>7

LEMMA SentByTakeUp ==
    ASSUME TypeOK, SentInv, CalmInv, TakeUp PROVE SentInv' /\ CalmInv'
<1>1. /\ taken < Len(Calls) /\ taken' = taken + 1 /\ body' = taken + 1
      /\ uri' = Calls[taken + 1] /\ lookups' = lookups \cup {taken + 1}
      /\ UNCHANGED <<sent, failed, published>> /\ calm' = (calm /\ lookups = {})
  BY DEF TakeUp, Publisher!SendPublish, Calls, vars
<1>2. taken \in Nat /\ taken + 1 \in 1 .. Len(published) /\ Len(published) \in Nat
  BY <1>1, CallsType DEF SentInv
<1>3. uri' = published[taken + 1].user /\ uri' \in Users
  BY <1>1, <1>2, CallsType DEF TypeOK
<1>4. lookups' \subseteq 1 .. taken' /\ failed' \subseteq 1 .. taken'
  <2>1. taken' = taken + 1 /\ 1 .. taken \subseteq 1 .. taken + 1 /\ taken + 1 \in 1 .. taken + 1
    BY <1>1, <1>2
  <2>2. lookups \subseteq 1 .. taken /\ failed \subseteq 1 .. taken
    BY DEF SentInv
  <2> QED
    BY <1>1, <2>1, <2>2
<1>5. \A i \in DOMAIN sent : sent[i].body \in 1 .. taken'
  BY <1>1, <1>2 DEF SentInv
<1>6. SentInv'
  BY <1>1, <1>2, <1>3, <1>4, <1>5 DEF SentInv
<1>7. CalmInv'
  <2> SUFFICES ASSUME calm', failed' = {}
               PROVE  /\ lookups' \subseteq {taken'}
                      /\ Len(sent') = IF lookups' = {} THEN taken' ELSE taken' - 1
                      /\ \A i \in DOMAIN sent' : sent'[i].body = i
    BY DEF CalmInv
  <2>1. lookups = {} /\ Len(sent) = taken /\ \A i \in DOMAIN sent : sent[i].body = i
    BY <1>1 DEF CalmInv
  <2> QED
    BY <1>1, <1>2, <2>1
<1> QED
  BY <1>6, <1>7

LEMMA SentBySend ==
    ASSUME TypeOK, SentInv, CalmInv, NEW i \in lookups, Send(i) PROVE SentInv' /\ CalmInv'
<1> PICK m : m = [user |-> uri, body |-> body]
  OBVIOUS
<1>1. /\ lookups' = lookups \ {i} /\ sent' = Append(sent, m)
      /\ UNCHANGED <<taken, body, uri, failed, calm, published>>
  BY DEF Send, Publisher!LookupSucceeds, Publisher!Publication, vars
<1>2. taken \in Nat /\ taken # 0 /\ taken \in 1 .. taken
  BY DEF SentInv
<1>3. m.user = published[taken].user /\ m.body = taken /\ m \in [user : Users, body : Nat]
  BY <1>2 DEF SentInv
<1> DEFINE L == Len(sent)
<1>4. /\ L \in Nat /\ DOMAIN sent = 1 .. L /\ DOMAIN sent' = 1 .. L + 1 /\ Len(sent') = L + 1
      /\ sent'[L + 1] = m /\ \A k \in 1 .. L : sent'[k] = sent[k]
      /\ sent' \in Seq([user : Users, body : Nat])
  BY <1>1, <1>3 DEF SentInv
<1> HIDE DEF L
<1>5. ASSUME NEW k \in DOMAIN sent'
      PROVE  /\ sent'[k].body \in 1 .. taken
             /\ sent'[k].user = published[sent'[k].body].user
  BY <1>2, <1>3, <1>4, <1>5 DEF SentInv
<1>6. ASSUME NEW k \in DOMAIN sent', NEW l \in DOMAIN sent', k <= l
      PROVE  sent'[k].body <= sent'[l].body
  <2>1. CASE l = L + 1
    BY <1>2, <1>3, <1>4, <1>5, <2>1
  <2>2. CASE l # L + 1
    <3>1. k \in 1 .. L /\ l \in 1 .. L
      BY <1>4, <1>6, <2>2
    <3> QED
      BY <1>4, <1>6, <3>1 DEF SentInv
  <2> QED
    BY <2>1, <2>2
<1>7. SentInv'
  BY <1>1, <1>4, <1>5, <1>6 DEF SentInv
<1>8. CalmInv'
  <2> SUFFICES ASSUME calm, failed = {}
               PROVE  /\ lookups' \subseteq {taken}
                      /\ Len(sent') = IF lookups' = {} THEN taken ELSE taken - 1
                      /\ \A k \in DOMAIN sent' : sent'[k].body = k
    BY <1>1 DEF CalmInv
  <2>1. i = taken /\ lookups' = {} /\ L = taken - 1 /\ \A k \in DOMAIN sent : sent[k].body = k
    BY <1>1 DEF CalmInv, L
  <2> QED
    BY <1>2, <1>3, <1>4, <2>1
<1> QED
  BY <1>7, <1>8

LEMMA SentByFail ==
    ASSUME TypeOK, SentInv, CalmInv, NEW i \in lookups, Fail(i) PROVE SentInv' /\ CalmInv'
<1>1. /\ lookups' = lookups \ {i} /\ failed' = failed \cup {i}
      /\ UNCHANGED <<taken, body, uri, sent, calm, published>>
  BY DEF Fail, Publisher!LookupFails, vars
<1> QED
  BY <1>1 DEF SentInv, CalmInv

LEMMA SentStep ==
    TypeOK /\ SentInv /\ CalmInv /\ [AnnouncingNext]_all => SentInv' /\ CalmInv'
<1> SUFFICES ASSUME TypeOK, SentInv, CalmInv, [AnnouncingNext]_all PROVE SentInv' /\ CalmInv'
  OBVIOUS
<1>1. CASE Notify
  BY <1>1, SentByNotify DEF Notify
<1>2. CASE TakeUp
  BY <1>2, SentByTakeUp
<1>3. ASSUME NEW i \in lookups, Send(i) \/ Fail(i) PROVE SentInv' /\ CalmInv'
  BY <1>3, SentBySend, SentByFail
<1>4. CASE UNCHANGED all
  BY <1>4, SentByNotify DEF all
<1> QED
  BY <1>1, <1>2, <1>3, <1>4 DEF AnnouncingNext

LEMMA SentInvariants == AnnouncingSpec => [](SentInv /\ CalmInv)
<1>1. AnnouncingInit => SentInv /\ CalmInv
  BY SentInit
<1>2. TypeOK /\ SentInv /\ CalmInv /\ [AnnouncingNext]_all => SentInv' /\ CalmInv'
  BY SentStep
<1> QED
  BY <1>1, <1>2, NotifierKeepsItsInvariants, PTL DEF AnnouncingSpec

-----------------------------------------------------------------------------
(* What subscribers learn.                                                  *)

(* The notifier and the publisher agree on how far they are; the types of   *)
(* SIPNotifier's user and body (opensips.py:47).                            *)
THEOREM PublisherTypeCorrect == AnnouncingSpec => []PublisherTypeOK
<1>1. TypeOK /\ SentInv => PublisherTypeOK
  <2> SUFFICES ASSUME TypeOK, SentInv PROVE PublisherTypeOK
    OBVIOUS
  <2>1. Calls \in Seq(Users) /\ taken \in 0 .. Len(Calls)
    BY CallsType DEF SentInv
  <2>2. body \in 0 .. taken
    BY DEF SentInv
  <2> QED
    BY <2>1, <2>2 DEF SentInv, PublisherTypeOK, Publisher!TypeOK, Calls
<1> QED
  BY <1>1, NotifierKeepsItsInvariants, SentInvariants, PTL

(* However lookups overlap, a body is only sent to the user its documents   *)
(* are of, though SIPNotifier keeps both in attributes that every call      *)
(* overwrites (opensips.py:47).                                             *)
THEOREM DiffsGoToTheirOwner == AnnouncingSpec => []OwnDiffsOnly
<1>1. TypeOK /\ SentInv => OwnDiffsOnly
  <2> SUFFICES ASSUME TypeOK, SentInv PROVE OwnDiffsOnly
    OBVIOUS
  <2>1. ASSUME NEW i \in DOMAIN sent
        PROVE  /\ sent[i].body # 0 /\ sent[i].user = Calls[sent[i].body]
               /\ \A d \in DOMAIN published[sent[i].body].diff : User[d] = sent[i].user
    <3> PICK k : k = sent[i].body
      OBVIOUS
    <3>1. k \in 1 .. Len(published) /\ k # 0 /\ sent[i].user = published[k].user
      BY <2>1, CallsType DEF SentInv
    <3>2. IsDiffOf(published[k].user, published[k].diff) /\ Calls[k] = published[k].user
      BY <3>1, CallsType DEF TypeOK
    <3>3. \A d \in DOMAIN published[k].diff : User[d] = published[k].user
      BY <3>2, DiffType
    <3> QED
      BY <3>1, <3>2, <3>3
  <2> QED
    BY <2>1 DEF OwnDiffsOnly, Publisher!OwnDiffsOnly, Calls
<1> QED
  BY <1>1, NotifierKeepsItsInvariants, SentInvariants, PTL

(* However many diffs are lost to lookups that overlap or fail, the tags    *)
(* sent of a serial document never go back.                                 *)
THEOREM SubscribersNeverGoBack == AnnouncingSpec => []ToldInOrder
<1>1. TypeOK /\ SentInv /\ OrderInv => ToldInOrder
  <2> SUFFICES ASSUME TypeOK, SentInv, OrderInv, NEW d \in Serial,
                      NEW i \in Diffs(d), NEW j \in Diffs(d), i < j,
                      New(sent[j].body, d) # 0
               PROVE  New(sent[i].body, d) <= New(sent[j].body, d)
    BY DEF ToldInOrder, New
  <2> PICK k : k = sent[i].body
    OBVIOUS
  <2> PICK l : l = sent[j].body
    OBVIOUS
  <2>1. i \in DOMAIN sent /\ j \in DOMAIN sent /\ i \in Nat /\ j \in Nat
    BY DEF Diffs, SentInv
  <2>2. /\ k \in 1 .. Len(published) /\ l \in 1 .. Len(published) /\ k <= l
    BY <2>1, CallsType DEF SentInv
  <2>3. Names(k, d) /\ Names(l, d)
    BY <2>2, CallsType DEF Names, Diffs
  <2>4. New(k, d) \in Nat
    BY <2>3, NewType
  <2>5. CASE k = l
    BY <2>4, <2>5
  <2>6. CASE k # l
    BY <2>2, <2>3, <2>6 DEF OrderInv
  <2> QED
    BY <2>5, <2>6
<1> QED
  BY <1>1, NotifierKeepsItsInvariants, SentInvariants, TagsInOrder, PTL

(* Only a lookup that overlaps another or fails can keep a change from      *)
(* subscribers: from the commit to the PUBLISH nothing else loses one.      *)
THEOREM CalmSubscribersAreTold == AnnouncingSpec => []CalmIsTold
<1>1. TypeOK /\ LatestIsPublished /\ SentInv /\ CalmInv => CalmIsTold
  <2> SUFFICES ASSUME TypeOK, LatestIsPublished, SentInv, CalmInv, NEW d \in Serial,
                      Quiet(d), d \notin missed, calm, failed = {}
               PROVE  Told(d) = row[d].etag
    BY DEF CalmIsTold
  <2>1. Known(d) = row[d].etag
    BY DEF Quiet, LatestIsPublished
  <2> DEFINE told == {i \in DOMAIN published : d \in DOMAIN published[i].diff}
  <2>2. /\ Len(published) \in Nat /\ DOMAIN sent = 1 .. Len(published)
        /\ DOMAIN published = 1 .. Len(published) /\ \A i \in DOMAIN sent : sent[i].body = i
    BY CallsType DEF Quiet, CalmInv, SentInv
  <2>3. Diffs(d) = told
    BY <2>2 DEF Diffs
  <2>4. CASE told = {}
    BY <2>1, <2>3, <2>4 DEF Told, Known
  <2>5. CASE told # {}
    <3> PICK k : k = CHOOSE i \in told : \A j \in told : j <= i
      OBVIOUS
    <3>1. told \subseteq 1 .. Len(published)
      BY <2>2
    <3>2. \E i \in told : \A j \in told : j <= i
      BY <2>2, <2>5, <3>1, GreatestExists
    <3>3. k \in told
      BY <3>2
    <3>4. sent[k].body = k
      BY <2>2, <3>1, <3>3
    <3> QED
      BY <2>1, <2>3, <2>5, <3>4 DEF Told, Known
  <2> QED
    BY <2>4, <2>5
<1> QED
  BY <1>1, NotifierKeepsItsInvariants, SentInvariants, PTL
=============================================================================
