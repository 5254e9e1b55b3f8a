---------------------------- MODULE MCWritePath ----------------------------
(***************************************************************************)
(* Model-checking instances of WritePath: two writes with an object and    *)
(* one without, racing a connect and a teardown.                           *)
(***************************************************************************)
EXTENDS WritePath

CONSTANTS a, b, n

MCCalls == {a, b, n}
MCNilCalls == {n}
============================================================================
