----------------------------- MODULE MCTagTable -----------------------------
(* TagTable for TLC: the one tag, t1, is in g1. *)
EXTENDS TagTable, TLC

CONSTANTS g1, g2, t1, x, y, zero, one, default, typed

MCGroupOf == [t \in Tags |-> g1]

(* The names are alike. *)
MCSymmetry == Permutations({x, y})
=============================================================================
