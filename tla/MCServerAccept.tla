-------------------------- MODULE MCServerAccept --------------------------
(***************************************************************************)
(* Model-checking instance of ServerAccept: a connection that may come,    *)
(* time out and leave at any moment of a Close and a Deregister of the     *)
(* server channel.                                                         *)
(***************************************************************************)
EXTENDS ServerAccept

CONSTANTS x, k1, u

OneConn == {x}
OneClose == {k1}
OneDeregister == {u}
============================================================================
