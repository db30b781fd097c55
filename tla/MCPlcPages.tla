----------------------------- MODULE MCPlcPages -----------------------------
(* PlcPages for TLC. *)
EXTENDS PlcPages, TLC

CONSTANTS p1, p2, g1, g2

(* The names of PLCs are alike, and so are the ids of groups. *)
MCSymmetry == Permutations(PlcNames) \cup Permutations(Groups)
=============================================================================
