-------------------------- MODULE MCHttpConnections --------------------------
(***************************************************************************)
(* HttpConnections for TLC: two connections of ordinary requests; or one,  *)
(* alone, that may ask for an upgrade; or one such whose activation may    *)
(* outlast the accept timeout.                                             *)
(***************************************************************************)
EXTENDS HttpConnections, TLC

CONSTANTS p1, p2, w1, s1

AllConns == {p1, p2, w1, s1}
SomeWebSockets == {w1, s1}
SlowOnes == {s1}
TwoOrOne == {{p1, p2}, {w1}, {s1}}
FewMessages == [c \in AllConns |-> IF c = s1 THEN 1 ELSE 2]

\* The two are interchangeable.
RequestSymmetry == Permutations({p1, p2})

=============================================================================
