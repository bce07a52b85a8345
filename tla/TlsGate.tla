------------------------------ MODULE TlsGate -------------------------------
(***************************************************************************)
(* The event loop of Client.EventLoop as the owner of one Connection: the  *)
(* TLS restriction it keeps in csPingStatus and what it does with each     *)
(* event of a flushed batch until the network leaves clientConnections.    *)
(* Reconnection, commands run by a message and other networks are left to  *)
(* module EventLoop.                                                       *)
(***************************************************************************)
EXTENDS Connection

VARIABLES
  batch,        \* events flushed by getEvent and not handled yet
  restriction,  \* third field of PingConnecting
  known,        \* is the network in clientConnections?
  applied       \* lines handed to applyMessageToClientState

gateVars == <<batch, restriction, known, applied>>
allVars  == <<vars, gateVars>>

\* What cookIrcMsg and parseRawIrcMsg make of a line.
LineKinds == {"notice", "starttls", "other", "malformed"}
ASSUME LineKindsAssumption == Lines = LineKinds

GateTypeOK ==
  /\ TypeOK
  /\ batch \in Seq(Event)
  /\ restriction \in {"StartTLS", "WaitTLS", "No"}
  /\ known \in BOOLEAN
  /\ applied \in Seq([line : Lines \ {"malformed"}, enc : BOOLEAN])

\* addConnection chooses the restriction from ssTls.
GateInit ==
  /\ Init
  /\ batch = << >> /\ known = TRUE /\ applied = << >>
  /\ restriction = CASE tls = "start" -> "StartTLS"
                     [] tls = "yes"   -> "WaitTLS"
                     [] tls = "no"    -> "No"

Waiting == known /\ owner = "idle" /\ batch = << >>

GetEvent ==
  /\ Waiting /\ Recv
  /\ batch' = SubSeq(events, taken + 1, Len(events))
  /\ UNCHANGED <<restriction, known, applied>>

\* Handling starts when the previous handler's call has returned.
HandlingNext(kind) ==
  /\ known /\ owner = "idle" /\ batch # << >> /\ batch[1].kind = kind
  /\ batch' = Tail(batch)

DoNetworkOpen ==
  /\ HandlingNext("Open")
  /\ UNCHANGED <<vars, restriction, known, applied>>

DoNetworkTLS ==
  /\ HandlingNext("TLS")
  /\ restriction' = "No"
  /\ UNCHANGED <<vars, known, applied>>

\* While the handshake is awaited any line kills the connection.
LineWaitTLS ==
  /\ HandlingNext("Line") /\ restriction = "WaitTLS"
  /\ CallAbort
  /\ UNCHANGED <<restriction, known, applied>>

\* Mutant of LineStartTLS: 670 lifts the restriction at once.
LineStartTLSLifts ==
  /\ HandlingNext("Line") /\ restriction = "StartTLS"
  /\ CASE batch[1].line = "starttls" -> CallUpgrade /\ restriction' = "No"
       [] batch[1].line = "other"    -> CallAbort /\ UNCHANGED restriction
       [] OTHER                      -> UNCHANGED <<vars, restriction>>
  /\ UNCHANGED <<known, applied>>

\* startTLSLine: a notice is shown, 670 upgrades, all else kills; a line that
\* does not parse is only reported.
LineStartTLS ==
  /\ HandlingNext("Line") /\ restriction = "StartTLS"
  /\ CASE batch[1].line = "starttls" -> CallUpgrade /\ restriction' = "WaitTLS"
       [] batch[1].line = "other"    -> CallAbort /\ UNCHANGED restriction
       [] OTHER                      -> UNCHANGED <<vars, restriction>>
  /\ UNCHANGED <<known, applied>>

LineApplied ==
  /\ HandlingNext("Line") /\ restriction = "No"
  /\ applied' = IF batch[1].line = "malformed" THEN applied
                ELSE Append(applied, [line |-> batch[1].line,
                                      enc |-> batch[1].enc])
  /\ UNCHANGED <<vars, restriction, known>>

\* doNetworkClose and doNetworkError: removeNetwork.
DoNetworkFinal ==
  /\ HandlingNext("Close") \/ HandlingNext("Error")
  /\ known' = FALSE
  /\ UNCHANGED <<vars, restriction, applied>>

\* /disconnect: abortNetwork kills the connection and forgets it.
Disconnect ==
  /\ Waiting /\ CallAbort
  /\ known' = FALSE
  /\ UNCHANGED <<batch, restriction, applied>>

\* TimedDisconnect aborts and waits for the event.
PingTimeout ==
  /\ Waiting /\ restriction = "No" /\ CallAbort
  /\ UNCHANGED gateVars

\* Registration messages and user input.
SendMsg ==
  /\ Waiting /\ Send
  /\ UNCHANGED gateVars

\* The rest of a call that an earlier handler started.
CallContinues ==
  /\ SwapUpgrade \/ CancelPreReceiver \/ AbortDelivered \/ AbortReturns
  /\ UNCHANGED gateVars

EventLoop ==
  \/ GetEvent \/ DoNetworkOpen \/ DoNetworkTLS
  \/ LineWaitTLS \/ LineStartTLS \/ LineApplied
  \/ DoNetworkFinal \/ Disconnect \/ PingTimeout \/ SendMsg \/ CallContinues

Threads == (Supervisor \/ Loops \/ Report) /\ UNCHANGED gateVars

GateNext == Threads \/ EventLoop

GateSpec == GateInit /\ [][GateNext]_allVars

\* Every thread of the process keeps running; the peer owes nothing, so its
\* lines, the end of its stream, the connection and the handshake are not forced.
GateFairSpec ==
  /\ GateSpec
  /\ WF_allVars(SupervisorRuns /\ UNCHANGED gateVars)
  /\ WF_allVars(Report /\ UNCHANGED gateVars)
  /\ WF_allVars(CallContinues)
  /\ WF_allVars(GetEvent)
  /\ WF_allVars(DoNetworkOpen \/ DoNetworkTLS \/ LineWaitTLS \/ LineStartTLS
                  \/ LineApplied \/ DoNetworkFinal)

(***************************************************************************)
(* Properties.                                                             *)
(***************************************************************************)

\* Nothing a peer sent before the TLS handshake reaches the session when TLS
\* is configured: not lines batched with the 670, not lines queued while the
\* upgrade runs, not lines after a failed upgrade.
OnlySecureApplied ==
  tls # "no" => \A i \in 1 .. Len(applied) : applied[i].enc

\* The restriction is lifted by the connection's own NetworkTLS event alone:
\* while the event loop enforces none the socket is encrypted or TLS is off.
RestrictionHonest ==
  restriction = "No" /\ tls # "no" => HasEvent("TLS") /\ handle # "plain"

\* "This is a no-op when not in a starttls state": a call of upgrade returns.
UpgradeReturns == owner = "upgrading" ~> owner # "upgrading"
=============================================================================
