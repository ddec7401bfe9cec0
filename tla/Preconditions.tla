--------------------------- MODULE Preconditions ---------------------------
(***************************************************************************)
(* The conditional-request checks of xcap/services/xcap_service.py:         *)
(* XCAPResource.checkPreconditions, its local matchETag, and check_etag.    *)
(* They are pure functions of the request headers and of the entity tag     *)
(* the storage has just read, so they are operators.                        *)
(*                                                                          *)
(* Entity tags are natural numbers; 0 is the tag check_etag builds for a    *)
(* document that does not exist: ETag(None) is the tag "None", not None.    *)
(***************************************************************************)
EXTENDS Naturals

NoEtag == 0

(***************************************************************************)
(* What parse_list_header makes of If-Match or If-None-Match: the tags of   *)
(* the list, whether "*" is one of them, and whether the header is one that *)
(* ETag.parse rejects with a ValueError (a weak tag, a list with blanks).   *)
(* A header that is not sent, or is empty, has none of the three.           *)
(***************************************************************************)
TagHeader(Etags) == [tags : SUBSET Etags, star : BOOLEAN, bad : BOOLEAN]

NoHeader   == [tags |-> {}, star |-> FALSE, bad |-> FALSE]
Tag(e)     == [tags |-> {e}, star |-> FALSE, bad |-> FALSE]
AnyTag     == [tags |-> {}, star |-> TRUE, bad |-> FALSE]
BadHeader  == [tags |-> {}, star |-> FALSE, bad |-> TRUE]

Given(h) == h.star \/ h.bad \/ h.tags # {}

(***************************************************************************)
(* The four conditional headers of a request. Of If-Unmodified-Since and    *)
(* If-Modified-Since only the presence matters: the storages keep no        *)
(* modification time, so lastModified is None in every call of check_etag.  *)
(***************************************************************************)
Condition(Etags) ==
    [ifMatch : TagHeader(Etags), ifNoneMatch : TagHeader(Etags),
     ifUnmodified : BOOLEAN, ifModified : BOOLEAN]

Unconditional == [ifMatch |-> NoHeader, ifNoneMatch |-> NoHeader,
                  ifUnmodified |-> FALSE, ifModified |-> FALSE]
IfMatch(h)     == [Unconditional EXCEPT !.ifMatch = h]
IfNoneMatch(h) == [Unconditional EXCEPT !.ifNoneMatch = h]

MatchETag(h, exists, etag) == (exists /\ h.star) \/ etag \in h.tags

(***************************************************************************)
(* If-Modified-Since leaves notModified at False, and both uses of          *)
(* If-None-Match are skipped when notModified is False.                     *)
(***************************************************************************)
NoneMatchFails(c, exists, etag) ==
    ~c.ifModified /\ MatchETag(c.ifNoneMatch, exists, etag)

(***************************************************************************)
(* "ok" when the request may go on, else the answer it is given; "error" is *)
(* the 500 of an exception that no handler expects.                         *)
(***************************************************************************)
CheckPreconditions(method, c, exists, etag) ==
    IF c.ifMatch.bad THEN "error"
    ELSE IF Given(c.ifMatch) /\ ~MatchETag(c.ifMatch, exists, etag) THEN "412"
    ELSE IF c.ifUnmodified THEN "412"
    ELSE IF c.ifNoneMatch.bad THEN "error"
    ELSE IF NoneMatchFails(c, exists, etag)
         THEN IF method = "get" THEN "304" ELSE "412"
    ELSE "ok"

CheckEtag(method, c, etag, exists) ==
    CheckPreconditions(method, c, exists, IF exists THEN etag ELSE NoEtag)
=============================================================================
