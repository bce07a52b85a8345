----------------------------- MODULE MCTlsGate ------------------------------
(* Model checking of TlsGate: the lines are the four kinds it tells apart. *)
EXTENDS TlsGate
=============================================================================
