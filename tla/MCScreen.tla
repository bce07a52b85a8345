------------------------------ MODULE MCScreen ------------------------------
(* Model checking of Screen: one network with a channel and two nicknames. *)
EXTENDS Screen

MCNetworks == <<"net">>
MCTargets == <<"#chan", "ann", "bob">>
=============================================================================
