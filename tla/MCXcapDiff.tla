----------------------------- MODULE MCXcapDiff -----------------------------
(* Small instances of XcapDiff for TLC. *)
EXTENDS XcapDiff, TLC

CONSTANTS w1, w2, d1, d2, alice, bob

OneUser  == (d1 :> alice) @@ (d2 :> alice)
TwoUsers == (d1 :> alice) @@ (d2 :> bob)

(* Two requests race for d1; those for d2 come one after the other. *)
RaceForOne == (d1 :> {w1, w2}) @@ (d2 :> {w2})
OneByOne   == (d1 :> {w1}) @@ (d2 :> {w1})

=============================================================================
