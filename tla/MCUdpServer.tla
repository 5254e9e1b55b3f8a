----------------------------- MODULE MCUdpServer -----------------------------
(***************************************************************************)
(* UdpServer for TLC: two clients, two children of which one passes its    *)
(* buffers on, as many buffers as are in use at a time, and three          *)
(* datagrams, the second to arrive empty: it may be read first, as the     *)
(* first of a child or later.                                              *)
(***************************************************************************)
EXTENDS UdpServer, TLC

CONSTANTS u1, u2, k1, k2, b1, b2, b3

TwoClients == {u1, u2}
SomeChildren == {k1, k2}
SomeBuffers == {b1, b2, b3}
OneChild == {k1}

Symmetry == Permutations(TwoClients) \cup Permutations(SomeBuffers)

=============================================================================
