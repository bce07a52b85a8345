--------------------------- MODULE MCRegistration ----------------------------
(* Model checking of Registration: every mechanism, two nicknames. *)
EXTENDS Registration
=============================================================================
