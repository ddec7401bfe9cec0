-------------------------- MODULE MCAddressbookApi --------------------------
(* Small instances of AddressbookApi for TLC. *)
EXTENDS AddressbookApi, TLC

CONSTANTS w1, w2, x1, alice, bob, c1, c2, g1, p1

Plain == [Fresh EXCEPT !.listed = FALSE]
Small == Book({c1}, g1 :> {c1}, {})

SmallDocs  == {Plain, Small}
ClosedDocs == {d \in Docs : Closed(d) /\ d.listed}

WorkerSymmetry == Permutations(Workers)
=============================================================================
