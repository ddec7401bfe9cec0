------------------------------ MODULE Announcing ------------------------------
(***************************************************************************)
(* What subscribers learn: the notifier of XcapDiff with the SIP publisher  *)
(* of SipPublisher as its publish_xcapdiff_func. A call of the one is an    *)
(* entry of the queue of the other; it returns at once and never raises, so *)
(* the notifier forgets a user after each diff and never delays one: diffs  *)
(* of a user can follow at once, and their lookups overlap.                 *)
(*                                                                          *)
(* A diff says what changed since the one before it, so a diff that is      *)
(* overwritten while lookups overlap is not made good by the next one.      *)
(***************************************************************************)
EXTENDS XcapDiff

VARIABLES
    taken,    \* how many published diffs the reactor has taken up
    body,     \* SIPNotifier.body
    uri,      \* SIPNotifier.uri
    lookups,  \* the lookups under way
    sent,     \* the PUBLISH requests
    failed,   \* the calls whose lookup failed
    calm      \* no call was taken up while a lookup was under way

publisher == <<taken, body, uri, lookups, sent>>
all       == <<vars, publisher, failed, calm>>

Publisher == INSTANCE SipPublisher WITH
                Users    <- Users,
                MaxCalls <- 2 * MaxWrites,
                calls    <- [i \in DOMAIN published |-> published[i].user]

AnnouncingInit == Init /\ Publisher!Init /\ failed = {} /\ calm = TRUE

(* The storage and the notifier; a diff they publish is queued.             *)
Notify == Next /\ UNCHANGED <<publisher, failed, calm>>

TakeUp ==
    /\ UNCHANGED vars /\ Publisher!SendPublish
    /\ calm' = (calm /\ lookups = {})
    /\ UNCHANGED failed

Send(i) == UNCHANGED vars /\ Publisher!LookupSucceeds(i) /\ UNCHANGED <<failed, calm>>

Fail(i) ==
    /\ UNCHANGED vars /\ Publisher!LookupFails(i)
    /\ failed' = failed \cup {i}
    /\ UNCHANGED calm

AnnouncingNext == Notify \/ TakeUp \/ \E i \in lookups : Send(i) \/ Fail(i)

(* The reactor runs what is queued, and every lookup ends: it has a timeout. *)
AnnouncingSpec ==
    /\ AnnouncingInit /\ [][AnnouncingNext]_all
    /\ WF_all(TakeUp)
    /\ \A i \in 1 .. 2 * MaxWrites : WF_all(i \in lookups /\ (Send(i) \/ Fail(i)))

-----------------------------------------------------------------------------

(* The diffs of d that were sent, in order.                                 *)
Diffs(d) == {i \in DOMAIN sent : d \in DOMAIN published[sent[i].body].diff}

(* What the subscribers of d were last sent as its tag.                     *)
Told(d) ==
    IF Diffs(d) = {} THEN 0
    ELSE published[sent[CHOOSE i \in Diffs(d) : \A j \in Diffs(d) : j <= i].body].diff[d].new

(* Nothing of d is waiting anywhere.                                        *)
Quiet(d) ==
    /\ \A w \in Workers : writer[w] = Idle
    /\ timer[User[d]] = 0 /\ taken = Len(published) /\ lookups = {}

(* The variables of the publisher have their types, over the diffs of the   *)
(* notifier.                                                                *)
PublisherTypeOK == Publisher!TypeOK /\ failed \subseteq 1 .. taken /\ calm \in BOOLEAN

(* A user is only ever sent the diff of one of its own documents, although  *)
(* user and body are kept apart and overwritten while lookups are under way. *)
OwnDiffsOnly ==
    /\ Publisher!OwnDiffsOnly
    /\ \A i \in DOMAIN sent : \A d \in DOMAIN published[sent[i].body].diff : User[d] = sent[i].user

(* Subscribers never go back: however writes and lookups end, the tag sent   *)
(* for a document whose requests do not overlap is never older than one     *)
(* sent before it.                                                          *)
ToldInOrder ==
    \A d \in Serial : \A i, j \in Diffs(d) :
        LET new(k) == published[sent[k].body].diff[d].new
        IN  i < j /\ new(j) # 0 => new(i) <= new(j)

(* A diff is lost only to a lookup that overlaps another or fails: without  *)
(* either, subscribers end up with the tag of every document.               *)
CalmIsTold ==
    \A d \in Serial :
        Quiet(d) /\ d \notin missed /\ calm /\ failed = {} => Told(d) = row[d].etag

(* Every diff is sent, or superseded by a later one that is, or its lookup  *)
(* fails: none is forgotten in the queue or behind another lookup.          *)
EveryDiffIsSettled ==
    \A i \in 1 .. 2 * MaxWrites :
        i \in DOMAIN published ~> i \in failed \/ \E j \in DOMAIN sent : sent[j].body >= i

-----------------------------------------------------------------------------
(* A property that the code does not have *)

(* "Track changes of the documents and notify subscribers" (xcapdiff.py:2):  *)
(* when all is quiet and no lookup failed, subscribers were told the tag of *)
(* every document.                                                          *)
SubscribersAreTold ==
    \A d \in Serial :
        Quiet(d) /\ d \notin missed /\ failed = {} => Told(d) = row[d].etag
=============================================================================
