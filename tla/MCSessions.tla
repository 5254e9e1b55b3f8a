----------------------------- MODULE MCSessions -----------------------------
(***************************************************************************)
(* Sessions for TLC.  A session lasts 20 seconds, so that a tenth of it is *)
(* 2; the instants are just before, at and after the ends of the first     *)
(* sessions and of the ones that are made then.                            *)
(***************************************************************************)
EXTENDS Sessions, TLC

CONSTANTS i1, i2, r1, r2, c1, c2, k1

TwoIds == {i1, i2}
TwoRequests == {r1, r2}
TheSimpler == {r2}
MixedCallers == (r1 :> {c1, c2}) @@ (r2 :> {c1})
OneCleaner == {k1}
Instants == {0, 20, 21}

Symmetry == Permutations(TwoIds)

=============================================================================
