---------------------------- MODULE SipPublisher ----------------------------
(***************************************************************************)
(* SIPNotifier of xcap/backend/opensips.py, the publish_xcapdiff_func of    *)
(* the notifier. The object is a singleton: a call leaves its body and its  *)
(* user there and asks for the address of the proxy; when an address comes, *)
(* what the object holds then is sent. Several lookups can be under way.    *)
(***************************************************************************)
EXTENDS Naturals, Sequences

CONSTANTS
    Users,
    MaxCalls   \* bound on the calls of a behaviour

VARIABLES
    calls,    \* the calls of send_publish, in order, each for a user
    taken,    \* how many of them have been run in the reactor
    body,     \* SIPNotifier.body: the call it is from (0: none)
    uri,      \* SIPNotifier.uri: the user it names
    lookups,  \* the lookups under way, each the call that made it
    sent      \* the PUBLISH requests: whose, and the call the body is from

vars == <<calls, taken, body, uri, lookups, sent>>

Init == /\ calls = <<>> /\ taken = 0
        /\ body = 0 /\ uri \in Users
        /\ lookups = {} /\ sent = <<>>

Call(u) == /\ Len(calls) < MaxCalls
           /\ calls' = Append(calls, u)
           /\ UNCHANGED <<taken, body, uri, lookups, sent>>

(* Mutant: a body that waits for its lookup is kept.                       *)
SendPublishWhenFree ==
    /\ taken < Len(calls)
    /\ taken' = taken + 1
    /\ body' = IF lookups = {} THEN taken + 1 ELSE body
    /\ uri' = calls[taken + 1]
    /\ lookups' = lookups \cup {taken + 1}
    /\ UNCHANGED <<calls, sent>>

(* run_in_green_thread: the call is run later, in the reactor, in order.    *)
SendPublish ==
    /\ taken < Len(calls)
    /\ taken' = taken + 1
    /\ body' = taken + 1
    /\ uri' = calls[taken + 1]
    /\ lookups' = lookups \cup {taken + 1}
    /\ UNCHANGED <<calls, sent>>

(* Mutant: the lookup carries its own user and body with it.               *)
PublicationOfLookup(i) == [user |-> calls[i], body |-> i]
Publication(i) == [user |-> uri, body |-> body]

LookupSucceeds(i) ==
    /\ i \in lookups
    /\ lookups' = lookups \ {i}
    /\ sent' = Append(sent, Publication(i))
    /\ UNCHANGED <<calls, taken, body, uri>>

LookupFails(i) ==
    /\ i \in lookups
    /\ lookups' = lookups \ {i}
    /\ UNCHANGED <<calls, taken, body, uri, sent>>

Next == \/ \E u \in Users : Call(u)
        \/ SendPublish
        \/ \E i \in lookups : LookupSucceeds(i) \/ LookupFails(i)

Spec == Init /\ [][Next]_vars

-----------------------------------------------------------------------------

(* Every variable has its type, and no lookup is for a call not yet taken.  *)
TypeOK ==
    /\ calls \in Seq(Users) /\ taken \in 0..Len(calls)
    /\ body \in 0..taken /\ uri \in Users
    /\ lookups \subseteq 1..taken
    /\ sent \in Seq([user : Users, body : Nat])

(* A user is only ever sent the diff of one of its own documents, although  *)
(* user and body are kept apart and overwritten while lookups are under     *)
(* way.                                                                     *)
OwnDiffsOnly == \A i \in DOMAIN sent : sent[i].body # 0 /\ sent[i].user = calls[sent[i].body]
=============================================================================
