--------------------------- MODULE Authentication ---------------------------
(***************************************************************************)
(* AuthenticationManager of xcap/authentication/auth.py: whether a request *)
(* reaches its application. Digest authentication gives out nonces, keeps  *)
(* them in a cache of a bounded size and a bounded time, and takes each    *)
(* back when a request is accepted with it. A nonce is looked up before    *)
(* the password is read from the database and taken back after: requests   *)
(* that carry the same one can overlap. The password is compared when the  *)
(* session that read it has ended: it may have changed by then.            *)
(*                                                                         *)
(* A response is abstracted to who made it, with which password; what it   *)
(* is a digest of besides (nonce, method, path) is taken to be right. The  *)
(* cache lives in the one process of the server and ends with it.          *)
(***************************************************************************)
EXTENDS Integers, FiniteSets, Sequences

CONSTANTS
    Workers,        \* requests in flight
    Users,          \* the subscribers, all of DefaultRealm
    Requests,       \* requests clients may send
    DefaultRealm,   \* AuthenticationConfig.default_realm
    Types,          \* AuthenticationConfig.type: digest, basic, or other
    MaxNonces,      \* NONCE_CACHE_MAX
    Expiration,     \* NONCE_EXPIRATION_TIME
    MaxChallenges,  \* bound on the nonces of a behaviour
    MaxTime,        \* bound on the clock
    MaxPasswords    \* bound on the changes of a subscriber's password

\* What the code looks at in a request. found: its URI is one of XCAP's. public: a
\* GET of a public application. domain: what the URI names behind the owner. An
\* address is unreadable when there are trusted peers to compare it with and it is
\* not one of IPv4. full: the user name of the header brings a domain of its own.
\* Passwords are counted: a subscriber's first is 0, that of change n is n.
Request == [route : {"xcap", "api"}, found : BOOLEAN, global : BOOLEAN,
            public : BOOLEAN, enabled : BOOLEAN,
            owner : Users, domain : {DefaultRealm, ""},
            address : {"trusted", "other", "unreadable"},
            scheme : {"none", "digest", "basic"}, wellFormed : BOOLEAN,
            user : Users, full : BOOLEAN, password : Nat]

ASSUME AuthAssumption ==
    /\ Requests \subseteq Request
    /\ Types \subseteq {"digest", "basic", "other"}
    /\ MaxNonces \in Nat \ {0} /\ Expiration \in Nat \ {0}
    /\ MaxChallenges \in Nat /\ MaxTime \in Nat /\ MaxPasswords \in Nat

VARIABLES
    type,      \* AuthenticationConfig.type
    now,       \* the clock
    password,  \* which password each subscriber has
    issuedAt,  \* the nonces given out, 1, 2, ..., each with its time
    cache,     \* the nonces in nonce_cache
    worker,    \* what each request is doing
    spent,     \* the nonces a request was accepted with
    lost       \* how many nonces had been given out at the latest restart

environment == <<type, now, password>>
nonces      == <<issuedAt, cache, spent, lost>>
vars        == <<environment, nonces, worker>>

Idle == [pc |-> "idle"]

Init ==
    /\ type \in Types /\ now = 0 /\ password = [u \in Users |-> 0]
    /\ issuedAt = <<>> /\ cache = {} /\ spent = {} /\ lost = 0
    /\ worker = [w \in Workers |-> Idle]

Becomes(w, state) == worker' = [worker EXCEPT ![w] = state]

Answered(w, r, outcome) ==
    Becomes(w, [pc |-> "answered", request |-> r, outcome |-> outcome])

-----------------------------------------------------------------------------
(* What is decided without credentials *)

\* XCAPUser.parse leaves an empty domain, not None, when the URI names none: the
\* test for None that would put default_realm in its place never succeeds.
Realm(r) == r.domain

\* getApplication, which only the XCAP routes call before the credentials are known.
Handled(r) == IF r.route = "xcap" /\ ~r.enabled THEN "not_found" ELSE "served"

Entrance(r) ==
    IF ~r.found THEN "not_found"
    ELSE IF r.global \/ r.public THEN Handled(r)
    ELSE IF r.address = "unreadable" THEN "error"
    ELSE IF r.address = "trusted" THEN Handled(r)
    ELSE "authenticate"

-----------------------------------------------------------------------------
(* The cache of nonces, a TTLCache *)

Fresh(n) == now < issuedAt[n] + Expiration

\* nonce in nonce_cache: neither moves the nonce nor removes what has expired.
Live(n) == n \in cache /\ Fresh(n)

\* Mutant: when the cache is full it is emptied.
RoomByClearing == IF Cardinality(cache) >= MaxNonces THEN {} ELSE cache

\* Mutant: only what has expired makes room.
RoomOfExpired == {n \in cache : Fresh(n)}

\* What is left when a nonce is about to be added: what has expired goes, and if
\* there is still no room the oldest does.
Room ==
    LET live == {n \in cache : Fresh(n)}
    IN  IF Cardinality(live) < MaxNonces THEN live
        ELSE {n \in live : \E m \in live : m < n}

-----------------------------------------------------------------------------
(* A request *)

\* Without an await: found or not, open to everybody, or from a trusted peer; and
\* a type of authentication that there is not.
Enter(w, r) ==
    /\ worker[w] = Idle
    /\ \/ Entrance(r) # "authenticate" /\ Answered(w, r, Entrance(r))
       \/ Entrance(r) = "authenticate" /\ type = "other" /\ Answered(w, r, "error")
    /\ UNCHANGED <<environment, nonces>>

NeedsCredentials(w, r) == worker[w] = Idle /\ Entrance(r) = "authenticate" /\ type # "other"

\* No Authorization, or of another scheme: the client is told how to proceed, with
\* a nonce if that is by digest.
Challenge(w, r) ==
    /\ NeedsCredentials(w, r) /\ r.scheme # type
    /\ \/ /\ type = "digest" /\ Len(issuedAt) < MaxChallenges
          /\ issuedAt' = Append(issuedAt, now)
          /\ cache' = Room \cup {Len(issuedAt) + 1}
          /\ Answered(w, r, "challenge")
       \/ /\ type = "basic"
          /\ UNCHANGED <<issuedAt, cache>>
          /\ Answered(w, r, "challenge")
    /\ UNCHANGED <<environment, spent, lost>>

\* A header of the scheme that cannot be taken apart. Basic has no handler for it.
RefuseHeader(w, r) ==
    /\ NeedsCredentials(w, r) /\ r.scheme = type /\ ~r.wellFormed
    /\ Answered(w, r, IF type = "digest" THEN "refused" ELSE "error")
    /\ UNCHANGED <<environment, nonces>>

\* On to query_user. since, for the properties only, is the password that the user
\* has at this time.
Queries(w, r, n) ==
    Becomes(w, [pc |-> "query", request |-> r, nonce |-> n, since |-> password[r.user]])

\* validate_nonce. n is any nonce ever given out, or 0 for one that never was.
PresentNonce(w, r, n) ==
    /\ NeedsCredentials(w, r) /\ r.scheme = "digest" /\ type = "digest" /\ r.wellFormed
    /\ IF Live(n) THEN Queries(w, r, n) ELSE Answered(w, r, "stale")
    /\ UNCHANGED <<environment, nonces>>

PresentPassword(w, r) ==
    /\ NeedsCredentials(w, r) /\ r.scheme = "basic" /\ type = "basic" /\ r.wellFormed
    /\ Queries(w, r, 0)
    /\ UNCHANGED <<environment, nonces>>

NoAccount == -1

\* Mutant: an account is kept as it was when the server first read it.
AccountRemembered(r) ==
    IF Realm(r) = DefaultRealm /\ (type = "basic" => ~r.full) THEN 0 ELSE NoAccount

\* The password of the account under the user name (digest cuts a domain off, basic
\* does not) and the realm of the URI.
Account(r) ==
    IF Realm(r) = DefaultRealm /\ (type = "basic" => ~r.full)
    THEN password[r.user] ELSE NoAccount

\* query_user reads the account in a session of its own, whose end is awaited before
\* anything is compared.
QueryUser(w) ==
    /\ worker[w].pc = "query"
    /\ LET q == worker[w]
       IN  Becomes(w, [pc |-> "compare", request |-> q.request, nonce |-> q.nonce,
                       since |-> q.since, known |-> Account(q.request)])
    /\ UNCHANGED <<environment, nonces>>

\* What fails in that session is a 500, or the 404 of NoDatabase as long as SIP
\* Thor has none.
QueryFails(w) ==
    /\ worker[w].pc \in {"query", "compare"}
    /\ Answered(w, worker[w].request, "error")
    /\ UNCHANGED <<environment, nonces>>

\* Mutant: any subscriber may act on any document.
AuthorizedAny(r) == IF r.enabled THEN "served" ELSE Handled(r)

\* getApplication (or getApplicationForId, whose None the API does not test), then
\* checkApplication: user@realm is whom the URI names.
Authorized(r) ==
    IF ~r.enabled THEN IF r.route = "xcap" THEN "not_found" ELSE "error"
    ELSE IF r.user = r.owner /\ ~r.full THEN "served"
    ELSE "refused"

\* Mutant: the nonce of an accepted request stays in the cache.
KeepNonce(n) == cache

TakeBack(n) == cache \ {n}

\* The session has ended: compare with what it read, take the nonce back (it may
\* have expired or have been taken back meanwhile, which the code ignores),
\* authorize.
Verify(w) ==
    /\ worker[w].pc = "compare"
    /\ LET r == worker[w].request
           n == worker[w].nonce
       IN  \/ /\ r.password # worker[w].known
              /\ Answered(w, r, "refused")
              /\ UNCHANGED nonces
           \/ /\ r.password = worker[w].known
              /\ cache' = TakeBack(n)
              /\ spent' = spent \cup ({n} \ {0})
              /\ Answered(w, r, Authorized(r))
              /\ UNCHANGED <<issuedAt, lost>>
    /\ UNCHANGED environment

\* The answer leaves, or the request goes on to its application.
Leave(w) ==
    /\ worker[w].pc = "answered"
    /\ Becomes(w, Idle)
    /\ UNCHANGED <<environment, nonces>>

-----------------------------------------------------------------------------
Tick ==
    /\ now < MaxTime
    /\ now' = now + 1
    /\ UNCHANGED <<type, password, nonces, worker>>

\* The provisioning changes a subscriber's password.
ChangePassword(u) ==
    /\ password[u] < MaxPasswords
    /\ password' = [password EXCEPT ![u] = @ + 1]
    /\ UNCHANGED <<type, now, nonces, worker>>

\* The server ends and starts again: with an empty cache and no requests.
Restart ==
    /\ lost < Len(issuedAt)
    /\ cache' = {} /\ lost' = Len(issuedAt)
    /\ worker' = [w \in Workers |-> Idle]
    /\ UNCHANGED <<environment, issuedAt, spent>>

Next ==
    \/ \E w \in Workers, r \in Requests :
          \/ Enter(w, r) \/ Challenge(w, r) \/ RefuseHeader(w, r) \/ PresentPassword(w, r)
          \/ \E n \in 0 .. Len(issuedAt) : PresentNonce(w, r, n)
    \/ \E w \in Workers : QueryUser(w) \/ QueryFails(w) \/ Verify(w) \/ Leave(w)
    \/ Tick \/ Restart \/ \E u \in Users : ChangePassword(u)

Spec == Init /\ [][Next]_vars

-----------------------------------------------------------------------------
(* Properties *)

Outcome == {"served", "not_found", "error", "challenge", "refused", "stale"}

Query    == [pc : {"query"}, request : Requests, nonce : 0 .. Len(issuedAt), since : Nat]
Compare  == [pc : {"compare"}, request : Requests, nonce : 0 .. Len(issuedAt), since : Nat,
             known : Nat \cup {NoAccount}]
Answer   == [pc : {"answered"}, request : Requests, outcome : Outcome]

\* Every variable has its type; what is cached has been given out since the latest
\* restart, and the cache never outgrows its bound.
TypeOK ==
    /\ type \in Types /\ now \in Nat /\ password \in [Users -> Nat]
    /\ issuedAt \in Seq(Nat) /\ lost \in 0 .. Len(issuedAt)
    /\ cache \subseteq lost + 1 .. Len(issuedAt) /\ Cardinality(cache) <= MaxNonces
    /\ spent \subseteq 1 .. Len(issuedAt)
    /\ worker \in [Workers -> {Idle} \cup Query \cup Compare \cup Answer]

\* A client that answers its challenge in time is not told that its nonce is not
\* valid: a nonce is good until a request is accepted with it, it expires, the
\* server restarts, or MaxNonces others were given out after it. A refused or
\* failed request, a full cache or the nonces of others do not use it up.
NoNonceIsLost ==
    \A n \in 1 .. Len(issuedAt) :
        \/ Live(n)
        \/ n \in spent \/ ~Fresh(n) \/ n <= lost
        \/ Len(issuedAt) - n >= MaxNonces

\* A nonce serves once: whoever gets past the nonce check does so while nobody has
\* been accepted with that nonce, so two accepted requests with one nonce overlap,
\* across an expiry, an eviction or a restart too.
NonceServesOnce ==
    [][\A w \in Workers :
          worker[w] = Idle /\ worker'[w].pc = "query" => worker'[w].nonce \notin spent]_vars

\* Behind the entrance only the owner of a document is served, with a nonce that was
\* good when the request came and a password that was the owner's at some moment
\* between then and now: one that had been changed before the request came does not
\* serve, one that changes after it was read still does.
OnlyTheOwnerIsServed ==
    [][\A w \in Workers :
          LET r == worker'[w].request IN
          /\ worker[w] # worker'[w] /\ worker'[w].pc = "answered"
          /\ worker'[w].outcome = "served" /\ Entrance(r) = "authenticate"
          => /\ worker[w].pc = "compare" /\ r.user = r.owner
             /\ r.password \in worker[w].since .. password[r.owner]
             /\ type = "digest" => worker[w].nonce \in 1 .. Len(issuedAt)]_vars

-----------------------------------------------------------------------------
(* A property that the code does not have *)

\* "if the above logic does not provide the realm, the realm will be taken from the
\* default_realm setting" (INSTALL.md:227): an owner whose URI names no domain is
\* not refused when the password is right.
DefaultRealmApplies ==
    \A w \in Workers :
        LET r == worker[w].request IN
        worker[w].pc = "answered" /\ worker[w].outcome = "refused" =>
            ~(/\ r.wellFormed /\ ~r.full /\ r.domain = "" /\ r.user = r.owner
              /\ r.password = password[r.user])
=============================================================================
