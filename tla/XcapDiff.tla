------------------------------ MODULE XcapDiff ------------------------------
(***************************************************************************)
(* The announcement of document changes: NotifyingStorage of                *)
(* xcap/backend/opensips.py and Notifier, UserChanges and RateLimit of      *)
(* xcap/xcapdiff.py. What becomes of a call of publish_xcapdiff_func is in  *)
(* SipPublisher.                                                            *)
(*                                                                          *)
(* A request that changed a document carries its on_change as a background  *)
(* task, run after the answer has left: the tasks of different requests run *)
(* in any order. on_change itself never gives up the event loop, so it is   *)
(* one step; a delayed call is a task of its own, and so are the callbacks  *)
(* of its completion.                                                       *)
(***************************************************************************)
EXTENDS Integers, Sequences, FiniteSets

CONSTANTS
    Workers,          \* requests in flight
    Documents,        \* document URIs
    User,             \* document -> the user it belongs to
    Writers,          \* document -> the requests that may be for it
    MinWait,          \* UserChanges.MIN_WAIT
    PublishMayRaise,  \* whether publish_xcapdiff_func may raise
    MaxTime,          \* bound on the clock
    MaxWrites         \* bound on the writes of a behaviour

ASSUME DiffAssumption ==
    /\ MinWait \in Nat \ {0} /\ MaxTime \in Nat /\ MaxWrites \in Nat
    /\ PublishMayRaise \in BOOLEAN
    /\ DOMAIN User = Documents
    /\ Writers \in [Documents -> SUBSET Workers] /\ IsFiniteSet(Workers)

Users == {User[d] : d \in Documents}

VARIABLES
    now,        \* the clock
    drawn,      \* entity tags drawn, which is also the writes so far
    row,        \* document -> its row: tag 0 is no row; born is the row's identity
    writer,     \* what each request is doing
    entries,    \* the users in Notifier.users_changes
    changes,    \* user -> UserChanges.changes
    lastCall,   \* user -> RateLimit.last_call
    timer,      \* user -> when RateLimit.delayed_call is due, 0 for none
    cleanups,   \* users whose delayed call is done and its callbacks are not
    published,  \* the calls of publish_xcapdiff_func that returned
    missed      \* documents with a change nobody was told of (history)

storage  == <<drawn, row>>
notifier == <<entries, changes, lastCall, timer, cleanups>>
vars     == <<now, storage, writer, notifier, published, missed>>

NoRow == [etag |-> 0, born |-> 0]

Idle == [pc |-> "idle"]

Change == [doc : Documents, old : Nat, new : Nat]

Init ==
    /\ now = MinWait /\ drawn = 0 /\ row = [d \in Documents |-> NoRow]
    /\ writer = [w \in Workers |-> Idle]
    /\ entries = {} /\ changes = [u \in Users |-> <<>>]
    /\ lastCall = [u \in Users |-> 0] /\ timer = [u \in Users |-> 0] /\ cleanups = {}
    /\ published = <<>> /\ missed = {}

Becomes(w, state) == writer' = [writer EXCEPT ![w] = state]

Announce(d, old, new) == [pc |-> "answered", change |-> [doc |-> d, old |-> old, new |-> new]]

-----------------------------------------------------------------------------
(***************************************************************************)
(* The writes of the storage, as far as they are announced: the read of the *)
(* row and the write to it by its identity are two transactions. A PUT of   *)
(* the identical document ends with the read; its answer has no old_etag. A *)
(* PUT whose refresh fails after the commit is a 500 and announces nothing. *)
(***************************************************************************)
Fetch(w, d, kind) ==
    /\ writer[w].pc = "idle" /\ w \in Writers[d]
    /\ drawn + Cardinality({v \in Workers : writer[v].pc = "write"}) < MaxWrites
    /\ kind = "delete" => row[d] # NoRow
    /\ Becomes(w, [pc |-> "write", kind |-> kind, doc |-> d, row |-> row[d]])
    /\ UNCHANGED <<now, storage, notifier, published, missed>>

PutIdentical(w, d) ==
    /\ writer[w].pc = "idle" /\ w \in Writers[d] /\ row[d] # NoRow
    /\ Len(published) < MaxWrites
    /\ Becomes(w, Announce(d, 0, row[d].etag))
    /\ UNCHANGED <<now, storage, notifier, published, missed>>

Commit(w) ==
    /\ writer[w].pc = "write"
    /\ drawn' = drawn + 1
    /\ LET d    == writer[w].doc
           read == writer[w].row
       IN \/ /\ writer[w].kind = "put" /\ row[d].born = read.born
             /\ row' = [row EXCEPT ![d] =
                   [etag |-> drawn + 1, born |-> IF read = NoRow THEN drawn + 1 ELSE read.born]]
             /\ \/ Becomes(w, Announce(d, read.etag, drawn + 1)) /\ UNCHANGED missed
                \/ Becomes(w, Idle) /\ missed' = missed \cup {d}
          \/ /\ writer[w].kind = "delete"
             /\ row' = [row EXCEPT ![d] = IF @.born = read.born THEN NoRow ELSE @]
             /\ Becomes(w, Announce(d, read.etag, 0)) /\ UNCHANGED missed
    /\ UNCHANGED <<now, notifier, published>>

(* The write is refused, by a constraint, a missing row or the database.    *)
WriteFails(w) ==
    /\ writer[w].pc = "write"
    /\ Becomes(w, Idle)
    /\ UNCHANGED <<now, storage, notifier, published, missed>>

-----------------------------------------------------------------------------
(* Mutant: a later change of a document replaces the pending one.          *)
AddLatestOnly(pending, c) ==
    [d \in DOMAIN pending \cup {c.doc} |->
        IF d = c.doc THEN [old |-> c.old, new |-> c.new] ELSE pending[d]]

(* Mutant: the first change of a document is kept, later ones are dropped. *)
AddFirstOnly(pending, c) ==
    [d \in DOMAIN pending \cup {c.doc} |->
        IF d \in DOMAIN pending THEN pending[d] ELSE [old |-> c.old, new |-> c.new]]

(***************************************************************************)
(* UserChanges.add_change keeps the first old tag and the last new one.     *)
(***************************************************************************)
AddChange(pending, c) ==
    [d \in DOMAIN pending \cup {c.doc} |->
        IF d # c.doc THEN pending[d]
        ELSE [old |-> IF d \in DOMAIN pending THEN pending[d].old ELSE c.old, new |-> c.new]]

(***************************************************************************)
(* UserChanges.publish: unload_changes has cleared the changes by the time  *)
(* publish_xcapdiff is called, whether or not the call raises. A diff makes *)
(* up for what was missed of a document if it ends with the stored tag and  *)
(* no announcement of the document is still to come.                        *)
(***************************************************************************)
OnItsWay(d) == \E w \in Workers : writer[w].pc = "answered" /\ writer[w].change.doc = d

Published(u, diff) ==
    /\ published' = Append(published, [user |-> u, at |-> now, diff |-> diff])
    /\ missed' = missed \ {d \in DOMAIN diff : diff[d].new = row[d].etag /\ ~OnItsWay(d)'}

Raised(diff) == /\ PublishMayRaise
                /\ missed' = missed \cup DOMAIN diff
                /\ UNCHANGED published

(* Mutant: the delayed call is not made.                                   *)
PublishLaterUntimed(u, diff) ==
    /\ entries' = entries \cup {u}
    /\ changes' = [changes EXCEPT ![u] = diff]
    /\ UNCHANGED <<timer, lastCall, cleanups, published, missed>>

(* callAtLimitedRate with no delayed call and the wait over: publish now.   *)
(* Only when the publication raises is the user's entry still registered    *)
(* afterwards; try_cleanup removes it, and with it the time of the call.    *)
PublishNow(u, diff) ==
    /\ changes' = [changes EXCEPT ![u] = <<>>]
    /\ \/ /\ Published(u, diff)
          /\ entries' = entries \ {u}
          /\ lastCall' = [lastCall EXCEPT ![u] = 0]
       \/ /\ Raised(diff)
          /\ entries' = entries \cup {u}
          /\ lastCall' = [lastCall EXCEPT ![u] = now]
    /\ UNCHANGED <<timer, cleanups>>

(* Otherwise the changes wait for the delayed call, which is made if there  *)
(* is none yet.                                                             *)
Due(u) == lastCall[u] + MinWait

PublishLater(u, diff) ==
    /\ entries' = entries \cup {u}
    /\ changes' = [changes EXCEPT ![u] = diff]
    /\ timer' = [timer EXCEPT ![u] = IF @ = 0 THEN Due(u) ELSE @]
    /\ UNCHANGED <<lastCall, cleanups, published, missed>>

OnChange(w) ==
    /\ writer[w].pc = "answered"
    /\ now + MinWait <= MaxTime
    /\ Becomes(w, Idle)
    /\ LET u    == User[writer[w].change.doc]
           diff == AddChange(changes[u], writer[w].change)
       IN IF timer[u] = 0 /\ now - lastCall[u] >= MinWait
          THEN PublishNow(u, diff)
          ELSE PublishLater(u, diff)
    /\ UNCHANGED <<now, storage>>

(***************************************************************************)
(* The delayed call. Its completion callbacks remove the entry, unless the  *)
(* user's documents have changed again before they run.                     *)
(***************************************************************************)
DelayedCall(u) ==
    /\ timer[u] # 0 /\ now >= timer[u]
    /\ UNCHANGED <<now, storage, writer, entries>>
    /\ lastCall' = [lastCall EXCEPT ![u] = now]
    /\ changes' = [changes EXCEPT ![u] = <<>>]
    /\ timer' = [timer EXCEPT ![u] = 0]
    /\ cleanups' = cleanups \cup {u}
    /\ Published(u, changes[u]) \/ Raised(changes[u])

(* Mutant: an entry is dropped although changes are pending.               *)
AnyEntry(u) == TRUE

Unneeded(u) == changes[u] = <<>>

TryCleanup(u) ==
    /\ u \in cleanups
    /\ cleanups' = cleanups \ {u}
    /\ IF Unneeded(u)
       THEN entries' = entries \ {u} /\ lastCall' = [lastCall EXCEPT ![u] = 0]
       ELSE UNCHANGED <<entries, lastCall>>
    /\ UNCHANGED <<now, storage, writer, changes, timer, published, missed>>

Tick == /\ now < MaxTime /\ cleanups = {}
        /\ now' = now + 1
        /\ UNCHANGED <<storage, writer, notifier, published, missed>>

-----------------------------------------------------------------------------
Next ==
    \/ \E w \in Workers :
          \/ \E d \in Documents : PutIdentical(w, d) \/ \E kind \in {"put", "delete"} : Fetch(w, d, kind)
          \/ Commit(w) \/ WriteFails(w) \/ OnChange(w)
    \/ \E u \in Users : DelayedCall(u) \/ TryCleanup(u)
    \/ Tick

Spec == Init /\ [][Next]_vars

(* The event loop runs what is ready, and time passes.                      *)
FairSpec ==
    /\ Spec /\ WF_vars(Tick)
    /\ \A u \in Users : WF_vars(DelayedCall(u)) /\ WF_vars(TryCleanup(u))
    /\ \A w \in Workers : WF_vars(OnChange(w))

-----------------------------------------------------------------------------

State == [pc : {"idle"}]
         \cup [pc : {"write"}, kind : {"put", "delete"}, doc : Documents,
               row : [etag : Nat, born : Nat]]
         \cup [pc : {"answered"}, change : Change]

IsDiffOf(u, f) ==
    \E D \in SUBSET {d \in Documents : User[d] = u} : f \in [D -> [old : Nat, new : Nat]]

(* Every variable has its type; changes and diffs are of one user.          *)
TypeOK ==
    /\ now \in Nat /\ drawn \in Nat
    /\ row \in [Documents -> [etag : Nat, born : Nat]]
    /\ writer \in [Workers -> State]
    /\ entries \subseteq Users /\ cleanups \subseteq Users /\ missed \subseteq Documents
    /\ changes = [u \in Users |-> changes[u]] /\ \A u \in Users : IsDiffOf(u, changes[u])
    /\ lastCall \in [Users -> Nat] /\ timer \in [Users -> Nat]
    /\ published = [i \in 1 .. Len(published) |-> published[i]] /\ Len(published) \in Nat
    /\ \A i \in DOMAIN published : published[i].user \in Users
                                   /\ IsDiffOf(published[i].user, published[i].diff)

(* Pending changes are never stranded: a user's changes wait in an entry    *)
(* the notifier still knows, with a delayed call under way, due one MinWait *)
(* after the last call; and no delayed call runs for nothing.               *)
PendingChangesAreTimed ==
    \A u \in Users :
        /\ changes[u] # <<>> <=> timer[u] # 0
        /\ timer[u] # 0 => u \in entries /\ timer[u] = lastCall[u] + MinWait

(* What subscribers were last told of a document.                           *)
Known(d) ==
    LET told == {i \in DOMAIN published : d \in DOMAIN published[i].diff}
    IN IF told = {} THEN 0
       ELSE published[CHOOSE i \in told : \A j \in told : j <= i].diff[d].new

(* The documents whose requests do not overlap.                             *)
Serial == {d \in Documents : Cardinality(Writers[d]) <= 1}

(* Where requests for a document do not overlap, subscribers end up knowing *)
(* its tag, whatever other documents of the user are merged with it: unless *)
(* its last change was answered 500 or its publication raised, its last     *)
(* diff has the tag it is stored with.                                      *)
LatestIsPublished ==
    \A d \in Serial :
        (/\ \A w \in Workers : writer[w] = Idle
         /\ timer[User[d]] = 0 /\ d \notin missed)
        => Known(d) = row[d].etag

(* Where requests do not overlap, a diff starts where the last one ended,   *)
(* coalesced changes included: its previous tag is what subscribers know,   *)
(* or it has none.                                                          *)
DiffsStartFromKnown ==
    [][\A d \in Serial \ missed :
          LET last == published'[Len(published')] IN
          published' # published /\ d \in DOMAIN last.diff
          => last.diff[d].old \in {0, Known(d)}]_vars

(* Changes that wait are published, or lost to a publication that raises,   *)
(* and none waits for ever.                                                 *)
PendingIsPublished == \A u \in Users : changes[u] # <<>> ~> changes[u] = <<>>

(* "Number of calls is limited to no more than 1 call per MIN_WAIT seconds  *)
(* for a given user uri."                                                   *)
RateIsLimited ==
    \A i, j \in DOMAIN published :
        i < j /\ published[i].user = published[j].user
        => published[j].at - published[i].at >= MinWait

(* "old_etag being None means the document was just created": the diff of a *)
(* document subscribers know, and which was not missed, has a previous tag. *)
NoPreviousTagIsCreation ==
    [][\A d \in Serial \ missed :
          LET last == published'[Len(published')] IN
          published' # published /\ d \in DOMAIN last.diff /\ last.diff[d].old = 0
          => Known(d) = 0]_vars
=============================================================================
