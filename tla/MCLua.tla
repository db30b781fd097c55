------------------------------- MODULE MCLua --------------------------------
(* LuaEngineView for TLC. *)
EXTENDS LuaEngineView

CONSTANTS g1, f1
=============================================================================
