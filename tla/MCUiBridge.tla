------------------------------ MODULE MCUiBridge ----------------------------
(* UiBridgeCalls for TLC. *)
EXTENDS UiBridgeCalls

CONSTANTS i1, i2, i3, read, write
=============================================================================
