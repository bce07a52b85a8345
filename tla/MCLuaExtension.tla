--------------------------- MODULE MCLuaExtension ---------------------------
(* Model checking of LuaExtension: two scripts, three interpreters in all. *)
EXTENDS LuaExtension
=============================================================================
