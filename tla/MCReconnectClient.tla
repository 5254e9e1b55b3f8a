------------------------- MODULE MCReconnectClient -------------------------
(***************************************************************************)
(* ReconnectClient for TLC: a TCP client that makes up to three channels,  *)
(* enough for a dial that fails inside the reconnect after a failed dial,  *)
(* or for two lost connections.                                            *)
(***************************************************************************)
EXTENDS ReconnectClient
============================================================================
