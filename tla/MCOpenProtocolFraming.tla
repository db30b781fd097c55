------------------------ MODULE MCOpenProtocolFraming ------------------------
(* OpenProtocolFraming for TLC. *)
EXTENDS OpenProtocolFraming
=============================================================================
