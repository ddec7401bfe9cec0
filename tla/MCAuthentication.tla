-------------------------- MODULE MCAuthentication --------------------------
(* Small instances of Authentication for TLC: what alice may send. *)
EXTENDS Authentication, TLC

CONSTANTS w1, w2, alice, bob

\* A GET of one of her own documents, without credentials.
Plain == [route |-> "xcap", found |-> TRUE, global |-> FALSE, public |-> FALSE,
          enabled |-> TRUE, owner |-> alice, domain |-> DefaultRealm, address |-> "other",
          scheme |-> "none", wellFormed |-> TRUE, user |-> alice, full |-> FALSE,
          password |-> 0]

Digest == [Plain EXCEPT !.scheme = "digest"]
Basic  == [Plain EXCEPT !.scheme = "basic"]

Open == {[Plain EXCEPT !.found = FALSE], [Plain EXCEPT !.global = TRUE],
         [Plain EXCEPT !.public = TRUE, !.enabled = FALSE],
         [Plain EXCEPT !.address = "unreadable"], [Plain EXCEPT !.address = "trusted"]}

\* The same with credentials: her own, a new password, a document of bob's, a name
\* with a domain, an application that is disabled, on either route.
With(c) == {c, [c EXCEPT !.password = 1], [c EXCEPT !.owner = bob],
            [c EXCEPT !.full = TRUE], [c EXCEPT !.enabled = FALSE],
            [c EXCEPT !.enabled = FALSE, !.route = "api"], [c EXCEPT !.wellFormed = FALSE]}

Sent == {Plain} \cup Open \cup With(Digest) \cup With(Basic)

\* The requests in flight are interchangeable.
Symmetry == Permutations(Workers)

NoDomain == {Plain, [Digest EXCEPT !.domain = ""]}
=============================================================================
