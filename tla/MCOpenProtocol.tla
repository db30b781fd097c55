--------------------------- MODULE MCOpenProtocol ---------------------------
(* OpenProtocolEndpoint for TLC: the model values of its sets. *)
EXTENDS OpenProtocolEndpoint

CONSTANTS c1, c2, k1, k2
=============================================================================
