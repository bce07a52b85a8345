-------------------------- MODULE MCHappyEyeballs ---------------------------
(* Model checking of HappyEyeballs. *)
EXTENDS HappyEyeballs
=============================================================================
