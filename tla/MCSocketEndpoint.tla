--------------------------- MODULE MCSocketEndpoint ---------------------------
(* SocketEndpoint for TLC. *)
EXTENDS SocketEndpoint

CONSTANTS t1, t2, t3, l1, l2, l3
=============================================================================
