---------------------------- MODULE MCAnnouncing ----------------------------
(* A small instance of Announcing for TLC. *)
EXTENDS Announcing, TLC

CONSTANTS w1, d1, d2, alice, bob

(* A document each of two users, with requests that come one after the other. *)
TwoUsers == (d1 :> alice) @@ (d2 :> bob)
OneByOne == (d1 :> {w1}) @@ (d2 :> {w1})
=============================================================================
