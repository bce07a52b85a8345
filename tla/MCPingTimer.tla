---------------------------- MODULE MCPingTimer -----------------------------
(* Model checking of PingTimer. *)
EXTENDS PingTimer
=============================================================================
