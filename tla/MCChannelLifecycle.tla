------------------------ MODULE MCChannelLifecycle ------------------------
(***************************************************************************)
(* Model-checking instances of ChannelLifecycle.  For safety the channel   *)
(* is connected twice, so that the second Connect overwrites a live        *)
(* activation or revives a channel in teardown, against a Disconnect and   *)
(* a Deregister; for liveness it is connected once, as                     *)
(* Bootstrap.Connect does, and races a Disconnect and a Read.              *)
(***************************************************************************)
EXTENDS ChannelLifecycle, TLC

CONSTANTS c1, c2, d1, g1, r1

OneConnect == {c1}
TwoConnects == {c1, c2}
OneDisconnect == {d1}
OneDeregister == {g1}
OneRead == {r1}

\* Calls of one kind are interchangeable.
CallSymmetry == Permutations(Connects)
============================================================================
