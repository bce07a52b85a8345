-------------------------- MODULE ConnectionEvents --------------------------
(***************************************************************************)
(* What a Client.Network.Async connection promises to the thread that      *)
(* reads its event queue: the grammar of the events, whatever the          *)
(* supervisor, receiver, sender and reporter threads do in between.        *)
(*                                                                         *)
(*   [ Open  PlainLine*  [ TLS  SecureLine* ] ]  (Close | Error)           *)
(*                                                                         *)
(* Close needs an Open before it, a TLS connection delivers no plain line, *)
(* and a connection without TLS never reports NetworkTLS.                  *)
(***************************************************************************)
EXTENDS Sequences

CONSTANT Lines   \* the lines a peer may send

VARIABLES
  mode,     \* the ssTls setting
  stage,    \* how far the connection has got
  emitted   \* the events delivered so far, oldest first

vars == <<mode, stage, emitted>>

Stages == {"connecting", "open", "secured", "finished"}

Emit(event) == emitted' = Append(emitted, event) /\ UNCHANGED mode

Init ==
  /\ mode \in {"no", "yes", "start"}
  /\ stage = "connecting"
  /\ emitted = << >>

Open ==
  /\ stage = "connecting"
  /\ stage' = "open"
  /\ Emit([kind |-> "Open"])

Secured ==
  /\ stage = "open" /\ mode # "no"
  /\ stage' = "secured"
  /\ Emit([kind |-> "TLS"])

PlainLine(line) ==
  /\ stage = "open" /\ mode # "yes"
  /\ UNCHANGED stage
  /\ Emit([kind |-> "Line", line |-> line, enc |-> FALSE])

SecureLine(line) ==
  /\ stage = "secured"
  /\ UNCHANGED stage
  /\ Emit([kind |-> "Line", line |-> line, enc |-> TRUE])

Close ==
  /\ stage \in {"open", "secured"}
  /\ stage' = "finished"
  /\ Emit([kind |-> "Close"])

Error ==
  /\ stage # "finished"
  /\ stage' = "finished"
  /\ Emit([kind |-> "Error"])

Next ==
  \/ Open \/ Secured \/ Close \/ Error
  \/ \E line \in Lines : PlainLine(line) \/ SecureLine(line)

Spec == Init /\ [][Next]_vars
=============================================================================
