# OpenXCAP in TLA+

OpenXCAP is an XCAP server: it keeps XML documents (contact lists, presence
rules, ...) of SIP users, lets clients read and change whole documents or single
nodes of them over HTTP, guards the changes with entity tags, and tells
subscribers what changed. This directory models the parts of it in which
something can go wrong that a test would hardly reach, checks the models with
TLC and proves the most important of their properties with TLAPS.

All paths below are relative to `src/xcap/` unless they say otherwise.

## The system

| Component | State it keeps | Operations | Hard behaviours | What makes it correct |
|---|---|---|---|---|
| Preconditions (`services/xcap_service.py`, `http_utils.py`) | none | `checkPreconditions`, called back by the storage | order of the headers, `*`, unparsable tags | a refused request changes nothing |
| Document storage (`backend/database.py`, `db/models/storage_db.py`) | table `xcap`: rows with a unique key and a random tag | `get_document`, `put_document`, `delete_document` | the read, the write and the refresh are three transactions; rows are written back by primary key | one row per document, a tag names one version, conditions hold for what is overwritten |
| Application usage (`appusage/__init__.py`) | none | get, put and delete of elements and attributes, get of namespace bindings | read, recompute and store the whole document; elements are found in a text, attributes in a tree | a node update changes its node, never creates a document; both ways of finding an element agree |
| Constraints of resource-lists (`appusage/resourcelists.py`) | none | `check_list` on every document to be stored | every kind of update, any level of nesting | no two siblings of one name: a selector by names is never ambiguous |
| Element location (`element.py`, `xpath.py`) | SAX handlers | `find`, `put`, `delete` | offsets of a parser in a text, counted in bytes and used for characters, end tags with a prefix, positions that shift, two ways to write an empty element | what is stored is well-formed, one element changes, retries do nothing |
| Change tracking (`xcapdiff.py`, `NotifyingStorage` of `backend/opensips.py`) | pending changes, a rate limiter and a timer per user | `on_change`, the delayed call, its clean-up | background tasks of requests in any order, publications that raise | everything pending has a timer and is published |
| SIP publishing (`SIPNotifier` of `backend/opensips.py`) | one body, one user on a singleton | `send_publish`, DNS lookup | lookups that overlap | a body only goes to its own user, subscribers never go back, every diff is sent, overtaken or lost with its lookup |
| User lock (`db/locks.py`, pool of `db/manager.py`) | rows, or named locks of MySQL connections | `lock_document` | connections that end, releases that fail, restarts, a pool that runs dry | mutual exclusion, nobody waits for ever |
| Addressbook API (`routes/api_routes.py`) | one resource-lists document per user | JSON routes for contacts, groups, policies | load, edit, store under a lock XCAP clients do not take | no update lost, references resolve |
| SIP Thor backend (`backend/sipthor.py`, `db/models/sipthor_db.py`, engine of `db/manager.py`) | a profile per account with all its documents, the engine of new sessions | as the document storage; membership events | the whole profile is written back; the database changes under requests | a tag names one version, a write that nothing overtakes changes one document |
| Authentication (`authentication/auth.py`) | a cache of nonces, bounded in size and time | challenge, nonce check, password read, comparison, taking the nonce back | the nonce is checked, the password read, the end of that session awaited, the two compared, the nonce deleted; a full cache, expiry, a restart, a password that changes | a nonce serves once and nothing else uses it up; only the owner is served |
| Routes, server, configuration, schemas, logging | none of their own | | | |

A request comes in through `routes/xcap_routes.py` or `routes/api_routes.py`,
is authenticated, and reaches the application usage; node updates read the
document through the storage, recompute it, and store the whole document through
the same `put_document` as a PUT of the document. The storage calls
`checkPreconditions` back between its read and its write. On its way out a
response of the OpenSIPS backend carries `on_change` as a background task, which
runs after the answer has left. The API routes take the user's lock first and
then go through the same storage; XCAP requests do not.

Everything runs in one asyncio loop, so the unit of interleaving is the stretch
between two `await`s. Every `await` on the database or a timer is a boundary
between two actions of the models.

## Modules

| Module | Models | State and actions against the code |
|---|---|---|
| `Preconditions` | `checkPreconditions`, `check_etag`, `ETag.parse` | pure operators; a header is its set of tags, or unparsable |
| `VersionedStore` | (abstract) what a document storage promises | `Write` and `Remove` of one key, tags never used twice |
| `DatabaseStorage` | `backend/database.py` under `appusage` and `services` | a worker is a request; `Load` is the read of a node update, `GetDocument`, `FetchForPut`, `FetchForDelete` are `fetch_document` and what follows it up to the second session, `Insert`, `Update`, `Remove` the second session, `Refresh` the refresh, `WriteFails` an error of the database. `work` holds the local variables that survive an `await` |
| `NodeLocator` | `element.py`, `fix_star` of `xpath.py` | pure operators: the SAX handlers as recursive functions over the tags of a document, one tag a step, and the tree they are measured against (`Selected`). `Wide` and `Prefixed` say after which attribute values an offset in bytes is no offset in characters, and which names are written with a prefix: `fix_end_pos` misses the end tag there (`EndTagShows`) |
| `ElementRequests` | `get_element`, `put_element`, `delete_element` of `appusage` | one action per request, on a document spelled out tag by tag |
| `AttributeRequests` | `get_attribute`, `put_attribute`, `delete_attribute`, `get_ns_bindings` of `appusage` | extends `ElementRequests` by one action per request: XPath (`XPathMatches`) in place of the SAX handlers, and the whole tree written out again (`Written`) in place of a splice |
| `ResourceLists` | `check_list`, `get_xpath` of `appusage/resourcelists.py` | pure operators: `Repeats`, the siblings that are not unique, `XPath`, the path the failure reports, and `WellPlaced`, a rule of the schema |
| `XcapDiff` | `NotifyingStorage`, `Notifier`, `UserChanges`, `RateLimit` | `OnChange` is `on_change`; `DelayedCall` and `TryCleanup` are the task of a delayed call and the callback of its end; `Tick` is time |
| `SipPublisher` | `SIPNotifier` | `SendPublish`, `LookupSucceeds`, `LookupFails`; the queue of calls is the reactor's |
| `Announcing` | the two together | the publications of `XcapDiff` are the calls of `SipPublisher` (`Publisher == INSTANCE ...`): `Notify` is a step of the one, `TakeUp`, `Send`, `Fail` steps of the other. `failed` and `calm` are not in the code: they remember which lookups failed and whether any overlapped |
| `ThorStorage` | `Storage`, `DatabaseConnection` of `backend/sipthor.py`, the database part of `handle_event` and `configure_db_connection` | `profiles` is the JSON value of each account in each database; `OpenSession` is `get_db_session`, `GetDocument` and `Update` the read and the operation of `retrieve_profile`, `Commit` and `Refresh` its last two awaits, `HandleEvent` switches the engine, `Provision` is what else writes profiles. `overtaken` is not in the code: it remembers that another write fell between a worker's read and its commit |
| `Authentication` | `AuthenticationManager` of `authentication/auth.py` | a worker is a request; `Enter` is what needs no credentials, `Challenge`, `RefuseHeader`, `PresentNonce`, `PresentPassword` the code up to the read of the password, `QueryUser` the read, `QueryFails` its failure, `Verify` what follows the end of its session, `Leave` the end; `Tick`, `ChangePassword`, `Restart` are the world's. `cache` is the cache of nonces; `spent`, `lost` and the field `since` of a worker are not in the code: they remember the nonces a request was accepted with, those from before the last restart, and the password the account had when a worker's nonce was checked |
| `UserLock` | (abstract) what `lock_document` promises | `Enter`, `Leave` |
| `DocumentLock` | `lock_document` and the pool | acquire, wait, time-out, release, failing release, a connection that breaks, a restart; `database` says whether locks are rows or MySQL's |
| `Addressbook` | (abstract) what the API promises | one edit is one step |
| `AddressbookRoutes` | the edits of the routes | pure operators: `Outcome(op, doc)` |
| `AddressbookApi` | the routes over storage and lock, and XCAP clients beside them | composes `UserLock` (its `Enter` and `Leave` are the API's) with the load, edit, fetch and write of a request |

`MC*` modules give the constants of the runs their values; `*_proofs` modules
hold the theorems. `AttributeRequests_proofs` extends `NodeLocator_proofs`, which
has the lemmas on trees of tags and on the locators; the theorems on `XcapDiff`
are in `Announcing_proofs`. `DatabaseStorage`, `DocumentLock` and `AddressbookApi` each
implement their abstract module, under a refinement mapping given with `INSTANCE
... WITH` at the end of the module.

Definitions whose comment begins with "Mutant:" are deliberately wrong variants
of the definition that follows; no specification uses them. Putting one in the
place of its original shows that the property it is meant for can fail.

## Runs

Every bound is a constant of the module or a guard that names it.

| Run | What it shows | Bounds, and why they are enough |
|---|---|---|
| `StorageRaces` | one row per document, warranted writes, node updates that stay local and are computed from what matched, with two requests of every kind on one document | two requests, one document, two elements, three tags: one version to be read, one to be raced in, one to overwrite it |
| `StorageKeys` | tags name versions, writes land on their document, refinement of `VersionedStore` | two requests, two documents, an element and its attribute, two tags: the confusion of two rows needs two |
| `Diff` | nothing pending is forgotten, diffs chain up, publication happens | two requests, a document they race for and one with a single writer, three writes, `MIN_WAIT` of 2 in a clock of 6: a delayed call falls due, is late, and runs again |
| `Announcing` | from the commit to the PUBLISH: own diffs only, never an older tag after a newer, every diff settled, all told when lookups neither overlap nor fail | a document each of two users, requests one after the other, three writes, `MIN_WAIT` of 1 in a clock of 2: three diffs, so that a lookup overtakes and is overtaken |
| `Lock` | exclusion, no lock left behind, refinement of `UserLock`, every request ends | three requests of two users and three connections: the pool can run dry with every connection held by a lock |
| `Api` | references resolve, no update of the API is lost, refinement of `Addressbook` | two API requests and a client, a contact, a group that may name it, two writes |
| `Nodes` | elements and attributes are found, put and deleted as the tree says, names in resource-lists stay unambiguous | 73 selectors of one to three steps, nine of attributes, five bodies (one of them of two tags with a prefix), documents that grow up to six tags, and stored ones of six and eight that may grow once: nested elements of the same name, self-closed and not, under one and two parents. Attributes are written in documents of up to three tags and in the stored ones, with the one value (`""`) that the code takes for none. Entries have a prefix (`Prefixed`), the attribute value `y` is wide (`Wide`): half an element is answered by a GET, read back after a PUT and cut by a DELETE |
| `Thor` | tags name versions across stale profiles and two databases, a write that nothing overtakes is atomic | two requests, one account with two documents, two databases, two tags: a write to one document can overtake one to the other, or one to the same, and a switch of the database can fall between the two sessions of a PUT. `FewConditions`: none, or `If-Match` of the first tag |
| `Auth` | a nonce serves once, is not lost, the cache keeps its bound, only the owner is served | two requests, two users, a cache of two nonces that live for one tick, three challenges, a clock of one, one change of a password: the third challenge evicts, an expiry or a restart falls between the check of a nonce and the comparison, and a new password between the check, the read and the comparison |
| `IfMatchRace` | *violated:* a PUT under If-Match overwrites a version it never saw | |
| `RateLimit` | *violated:* two publications less than `MIN_WAIT` apart | |
| `SelfClosedSibling` | *violated:* a legal PUT of an element is refused | |

Further counterexamples, with a `.cfg` each beside the runs:

| Configuration | What TLC finds |
|---|---|
| `IdenticalPut` | `If-None-Match: *` succeeds if the document is the same |
| `SQLiteIdReuse` | a write by primary key lands on another document once SQLite has reused the key |
| `IdenticalPutAnnounced` | a PUT that changed nothing is announced as a creation |
| `LostDiff` | a diff that is overwritten while its lookup is under way reaches no subscriber |
| `ApiSilence` | API routes that return a model lose the announcement |
| `LockDocstring` | an XCAP client's write falls between the load and the store of an API request and is lost |
| `AmbiguousSelector` | a selector of several elements is a 500, where the code means to raise a `SelectorError` |
| `StarPut` | after a PUT to `*[@att="v"]` the same URI may match two elements |
| `AttributeReadBack` | a PUT of the attribute that its own selector tests is not found under its URI |
| `DuplicatePath` | the path in a uniqueness failure names another element, or none: `parent.index` counts from 0, XPath from 1 |
| `DefaultRealm` | a URI without a domain is refused: `XCAPUser.parse` leaves the domain empty, not `None`, so `default_realm` never applies |
| `ThorOverwrite` | on SIP Thor, of two overlapping writes to two documents of one account the later undoes the earlier |
| `ThorDelete` | a deletion is announced with the second character of the tag, because `return (etag)` returns no tuple |

`CHECK_DEADLOCK FALSE` stands only where the system may stop: `XcapDiff` and
`Announcing` when their writes and their clock are used up, `Authentication`
when its challenges and its clock are.

### What the counterexamples say

- `SelfClosedSibling`. After `<list name="close"/>` as the last child of `<list
  name="friends">`, the locator keeps the window in which it looks for the
  sibling's end tag open until the tag after the parent, sees the parent's own
  `</list>`, and moves the place for a new `list` behind it. GET(PUT(x)) fails
  and the client gets a 409. Contact lists with nested lists have this shape.
- `AmbiguousSelector`. `generate_error` asks for an attribute that
  `parse_node_selector` never sets (`_original_string`, not
  `_original_selector`), so no `SelectorError` is ever raised.
- `IfMatchRace`. The tag is compared in Python with a row read before; the
  `UPDATE` goes by primary key and does not compare it again.
- `RateLimit`. `on_change` drops the user's entry, with it the limiter, as soon
  as nothing is pending.
- `LockDocstring`. Only API requests take the lock of which `db/locks.py` says
  that it protects all documents of a user.
- `LostDiff`. A diff says what changed since the one before, and `SIPNotifier`
  keeps one body: when two calls are taken up before the first lookup ends, both
  send the second body. `ToldInOrder` and `EveryDiffIsSettled` say that nothing
  worse happens, `CalmIsTold` that overlap and failure are the only causes.
- `ThorOverwrite`. A profile is read, changed and written back as a whole, and
  nothing compares it with what is stored by then. `UnovertakenWriteIsAtomic`
  says that this overlap is the only way to lose a change.

### Fairness

Safety runs assume none. `Diff` assumes that time passes, that timers which are
due fire, that callbacks of finished tasks run, and that the background task of
an answered request runs: the event loop does all four unless the process ends,
and the models give no handler an infinite run. Nothing makes a request come in,
and nothing makes a request write. `Announcing` assumes that the reactor runs
what is queued for it and that each lookup ends, with an address or with a
failure (the resolver has a time-out); it does not assume that one succeeds. `Lock` assumes, for each request, that one of the outcomes of what it waits
for comes about: the connection or the pool's time-out, the lock or the lock's,
the end of a session, a release or its failure. It does not assume that the lock
or a connection is ever obtained: `EveryRequestEnds` holds because the waits time
out.

## Proofs

Checked by tlapm for every value of the constants that satisfies the module's
`ASSUME`.

- `DatabaseStorage_proofs`. `TypeCorrect`: `[]TypeOK`. `OneRowAlways`: the only
  action that adds a row does so for a document without one. `StorageInvariant`:
  the inductive invariant `StorageInv` says that the tag a worker holds was
  drawn for its document and for no other worker or row, and that a row at an id
  a worker keeps is of that worker's document as long as ids are not reused.
  `OneRowPerDocument` is inductive with `TypeOK`, but that tags name versions is
  not: a worker could hold the tag of another, so `EtagsNameVersions` needs
  `StorageInv` (and `AutoIncrement`). `OnlyPutCreates` is an action property,
  from an invariant that a worker about to insert serves a PUT of the document.
  `Refinement`: every step is a step of `VersionedStore` or a stutter; the tags
  that a row has carried (`used`) are what makes `Write` legal, and the drawn
  tags' freshness in `StorageInv` is why.
  `StoredAreValid`, `WritesAreWarranted`, `ComputedFromWhatMatched`: from
  `WarrantInv`, which says of each worker between its sessions that what it is
  about to write was validated and that its conditions held of the version it
  keeps, and holds where ids are reused as well. `WritesStayAtHome` and
  `NodeUpdatesAreLocal`: an `UPDATE` by primary key touches the worker's own
  document, and a node update that nothing overtook only its node; both follow
  from `StorageInv` and need `AutoIncrement`, as `SQLiteIdReuse` shows.
- `DocumentLock_proofs`. `LockTypeCorrect`; `LockIsExclusive` from `LockInv` (who
  is inside and has not lost the connection is whom the database has the lock
  down to); `LockRefinement` of `UserLock`; `NoLockStaysBehind`: with the rows
  a failed release or a restart leaves behind told apart, whoever a lock is down
  to is inside it. It needs that only a request inside can be severed from its
  lock (`SeveredInside`).
- `AddressbookApi_proofs`. `RoutesKeepReferences`: each route maps a document
  whose groups name their contacts to one. `ReferencesAlwaysResolve` builds on it,
  under the assumption that XCAP clients write only such documents.
  `ApiUpdatesAreKept`: from `LockInv` (a request at work is inside its user's
  lock) and `BaseInv` (what the API wrote last is what a request at work has
  read, unless its load failed), no API request overwrites another's change
  without having read it. `ApiRefinement`: the store of a request is one step of
  `Addressbook`, by `EditInv`: what a request is to store is its edit of a
  document, and of the stored one if the API was the last to write it.
- `ThorStorage_proofs`. `TypeCorrect`: `[]TypeOK`. `TagsTrue`: a document is
  stored, answered and announced only under the tag drawn for it; what is stored
  and answered is not inductive, so `TagsNameVersions` includes the profiles and
  tags that workers are still to write. `Atomic`: a worker about to commit that
  nothing overtook holds the stored profile with its own version in it
  (`SnapshotIsCurrent`), so its write is an atomic conditional update of one
  document.
- `Authentication_proofs`. `CacheIsBounded`: what is cached was given out since
  the last restart, and making room drops at least one nonce of a full cache; the
  count takes the least element of a finite set of numbers.
  `NoncesAreKept`: the oldest nonce goes only for `MaxNonces` newer ones.
  `NoncesServeOnce` and `OwnersAreServed`: a nonce that a request was accepted
  with is not in the cache, so nobody gets past the check with it later; who is
  past it serves the request it came with, and the password it was compared with
  is one the account had since the check. It need not be the last one: the
  comparison waits for the end of the session that read it.
- `Announcing_proofs`, on `XcapDiff`. `NotifierTypeCorrect`. `PendingAlwaysTimed`: pending changes
  are in an entry that is known, with a delayed call `MinWait` after the last.
  `WritersInv` adds, for a document whose requests do not overlap, that the
  request under way carries the stored row and its tag; `AnnouncedInv` that what
  subscribers know, the pending change and the announcement on its way form one
  chain that ends in the stored tag (`Tip`). From it `LatestAlwaysPublished` and
  `DiffsAlwaysStartFromKnown`. A publication that raises breaks the chain
  (`missed`); it is whole again only when a diff ends in the stored tag with no
  announcement on its way.
- `Announcing_proofs`, on `Announcing`. A behaviour of `Announcing` is one of `XcapDiff`, so the
  theorems on that module hold in it. `PublisherTypeCorrect`: the publisher is
  never ahead of the notifier. `OrderInv`: the tags of a document whose requests
  do not overlap are published in the order they were drawn. `SentInv`: body and
  user are those of the call taken up last, so a PUBLISH goes to the user its
  body belongs to (`DiffsGoToTheirOwner`) and the bodies sent never go back
  (`SubscribersNeverGoBack`). `CalmInv`: as long as no lookup overlaps or
  fails, each diff taken up was sent or is about to be (`CalmSubscribersAreTold`).

- `NodeLocator_proofs` and `AttributeRequests_proofs`: documents, bodies and
  selectors of any length, in four layers.
  *Numbers and trees.* A property of all numbers up to a bound is proved through
  the least number that lacks it (`LeastOf`, `Induction`), so no induction
  theorem with an operator parameter is needed, and the recursive functions of
  the model are unfolded once each (`OpenNamesDef`, `ElementStatesDef`, ...).
  In a well-formed document the stack of open names (`OpenNames`, what the
  parser keeps) and the counting of `Depth`, `Parent` and `EndOf` agree
  (`DepthIs`, `ParentIs`, `EndIs`).
  *Locators.* `Chain` is the invariant of the SAX handler: its path is the
  chain of open elements that the first steps select, each with the number of
  its children that were alike so far, and `skip` counts what is open below it.
  `LocatorIsRight` and `FindIs`: for a well-formed document `find` returns
  exactly the text of the one element in `Selected`, and tells none from many;
  `fix_end_pos` sees no end tag but that of the element found. Where it cannot
  see that one (`EndIsSeen`), the text lacks it.
  `PlaceIsInside`: the place of an insertion is inside the document.
  *Places.* `SiblingIsRight` is the invariant of `InsertPointLocator`: above the
  last step its path is the chain of the other handler (`Trunk`), at the last one
  it goes by the name alone. Where `find` has found nothing and the handler is
  done, `PlaceIs` leaves three places: the one that the selector asks for
  (`RightPlace`: under a selected parent, after all siblings of the name or after
  as many as the position says), the one after a selected parent that is one tag
  or whose end tag was passed by (`Behind`), and the one inside an element at the
  level of the last step: the last sibling whose end tag was not seen, or what
  follows it, where that sibling is one tag and `fix_end_pos` sees an end tag of
  its name further on. The last two are wrong places, of which `SelfClosedSibling`
  shows one; what stands there is not at the level of the last step, so the
  read-back refuses it.
  `Grown` is the document with the body in its place: parents and levels move
  with their tags (`GrownParentBefore`, `GrownParentAfter`, `GrownParentInside`,
  `TextLevels`), what comes before the place is selected as it was
  (`PrefixSelected`), and what comes after it is only selected if it was
  (`MovedSelected`), unless its rank among the siblings of the body counts
  (`Unranked`). `InsertedIs` puts this together: if `find` then finds one element
  with the text of the body, as the code asks before it stores the document, that
  element is the body itself, and no element behind it that reads the same.
  *Requests.* `HalfIsNone` and `HalfIsMissed`: an element that is read without
  its end tag is not what a body is compared with, and cutting it out leaves
  nothing that parses, so PUT and DELETE refuse where `find` errs. `Stored`:
  what is stored is well-formed and accepted by its application (`StoredInv`),
  hence `TypeCorrect`. `GetIsRight` follows from `FindIs`, and claims whole
  elements only where `EndIsSeen`. `PutAnswered` keeps what a PUT read, wrote
  and was answered until the answer leaves, and with `InsertedIs` gives
  `PutIsLocal`; `CreatedIsLast`, since of the three places only the first is at
  the level of the last step; and `DeleteUndoesPut`, since a selector that loses
  its star selects fewer elements (`StarSelects`), so the original one can only
  delete what the fixed one created. `RetryIsHarmless`: a PUT was read back
  before it was stored, so the second one finds what the first one wrote and
  replaces it by itself. `AttributeIsOfTheElement`: XPath and the handler find
  the same element. `AttributeRetryIsHarmless` runs the handler over the
  document and the rewritten one in step (`Alongside`): a rewritten document has
  the same tree up to the form of its empty elements, writing it twice is
  writing it once (`WrittenTwice`), and an attribute that changed can only take
  elements away from a selector (`SelectsNoOther`). `NamesStayUnambiguous`: by
  induction on the steps, elements that a selector by names and URIs selects are
  one (`OneAtMost`), because `check_list` found no repeats among siblings. It
  uses one rule of the schema of resource-lists (`WellPlaced`, in force while
  `document_validation` is on, which is the default): no list and no entry is in
  an entry, so whatever a selector of lists and entries reaches, `check_list`
  has reached.

Some of these invariants no run lists, because a stronger property there
depends on them or because each only says what the types are:
`TypeOK` of `XcapDiff`, `DocumentLock`, `DatabaseStorage` and `SipPublisher`,
`StorageInv`, `LockInv`, `ApiInv` and `StoredDocumentsAreValid`.

Only model-checked: liveness (`PendingIsPublished`, `EveryRequestEnds`,
`EveryDiffIsSettled`), which is out of the prover's reach, and the properties of
the three runs that refute one.

## What is not modelled

- Text: characters, whitespace, comments, encodings, namespace prefixes. In
  `NodeLocator` a document is its tags. Of characters and prefixes it keeps what
  `fix_end_pos` makes of them: after an attribute value in `Wide` its offset, in
  bytes, points too far into the decoded text, and an end tag of a name in
  `Prefixed` is not the one it looks for. Text between tags is never wide, and a
  window that is too far on never shows the end tag. By coincidence it can show
  that of another element of the name: the cut is then right after all, or, after
  an element of one tag, inside the tag that follows.
- lxml: what an XPath matches and how a tree is written out is modelled from how
  the code uses it. A PUT of an attribute writes `<a></a>` as `<a/>`, after which
  `SelfClosedSibling` can bite an element it could not before.
- Schemas: a validation is a choice, or a set of valid documents; of
  resource-lists.xsd only the rule `WellPlaced` of `ResourceLists`. Of the further
  checks, those of `entry-ref` and `external` references, of the rules of
  pres-rules and of the icon of pres-content are left out with it, and the
  `check_list` of rls-services, which compares nothing.
- `purge` and `directory`: they call `.addCallback` on a coroutine and cannot
  run, nor can `delete_documents`, which only `purge` calls.
- On SQLite, the commit or rollback after each attempt at the lock gives the
  connection back to the pool until the next statement (`db/locks.py:58`, 70, 75).
  `DocumentLock` keeps it for both databases: the pool is tighter there than in
  the program, and no safety property depends on it.
- The second parse and the check of the encoding in `validate_document`:
  `ElementRequests` stores well-formed documents without them.
- What a digest is a digest of (nonce, method, path) is taken to be right. A
  digest whose user name brings its domain is always refused when the
  application is checked; the model has it as a refusal.
- The order in which the announcements of two requests are sent
  (`backend/opensips.py:112`): `XcapDiff` lets them come in any order and states
  its chains for documents whose requests do not overlap.
- Routing, configuration, TLS, logging, error bodies, migrations, icons.
- Of SIP Thor: the rings of nodes per role, which the thor library keeps, and
  what is sent to them; `get_watchers`, whose future is completed from another
  thread (`backend/sipthor.py:127`).

## Plan

Done, each with its runs, and with its proofs where the section above lists
them: the storage, the announcement of changes from the commit to the PUBLISH,
the lock, the API, element and attribute requests with the constraints of
resource-lists, authentication, the Thor storage with the switch of its database.

Next, in this order:

1. The announcements of `ThorStorage` through `XcapDiff`, the deletion's
   truncated tag included.
2. The converse of `InsertedIs`: a body that its selector selects is found at a
   right place, so that a `cannot_insert` means a wrong place, a body that does
   not match or a position beyond the last.
3. The routes of icons, and the checks of references between lists.
