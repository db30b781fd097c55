----------------------------- MODULE MCPlcSync -----------------------------
(* Two bools in one byte of region r1 and one in r2; for the slices, two floats in r1. *)
EXTENDS PlcSync

At(r, byte, bit, type) == [region |-> r, byte |-> byte, bit |-> bit, type |-> type]
Bools  == [t \in Good |-> At(IF t = "c" THEN "r2" ELSE "r1", 0, IF t = "b" THEN 1 ELSE 0, "bool")]
Floats == [t \in Good |-> At("r1", IF t = "f" THEN 0 ELSE 2, 0, "float")]
TwoRegions == [r \in {"r1", "r2"} |-> 1]
OneRegion  == [r \in {"r1"} |-> 4]
=============================================================================
