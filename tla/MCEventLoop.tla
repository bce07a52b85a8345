---------------------------- MODULE MCEventLoop -----------------------------
(* Model checking of EventLoop: identifiers are interchangeable. *)
EXTENDS EventLoop, TLC

Symmetry == Permutations(Conns)
=============================================================================
