----------------------------- MODULE Connection -----------------------------
(***************************************************************************)
(* One network connection of Client.Network.Async: the supervisor thread   *)
(* (createConnection, startConnection), the STARTTLS pre-receiver, the     *)
(* receive and send loops it races, the reporter thread that waits for the *)
(* supervisor, and the owner, the event-loop thread that sends, receives,  *)
(* upgrades and aborts.  The peer and the socket are the environment.      *)
(*                                                                         *)
(* `events' keeps every event ever written to connInQueue and `taken' how  *)
(* many of them recv has flushed, so the queue is the part after `taken'.  *)
(***************************************************************************)
EXTENDS Naturals, Sequences

CONSTANTS
  Lines,      \* non-empty lines the peer may send
  MaxLines,   \* bound: lines the peer sends on one connection
  MaxSend     \* bound: messages the owner submits

ASSUME LinesAssumption == Lines # {}
ASSUME BoundAssumption == MaxLines \in Nat /\ MaxSend \in Nat

VARIABLES
  tls,         \* ssTls: "no", "yes" or "start"
  fingerprint, \* configured fingerprint: "unset", "match" or "mismatch"
  sup,         \* position of the supervisor thread
  verdict,     \* how the supervisor's action is ending
  outcome,     \* what waitCatch supervisor returns, "none" while it runs
  pre,         \* the receiver that runs before the STARTTLS upgrade
  loops,       \* the receiver/sender pair inside race_: "off", "on"
  holding,     \* message between readTQueue and Hookup.send, 0 if none
  handle,      \* Hookup network handle: "none", "plain", "tls", "closed"
  buf,         \* bytes read from the socket and not yet framed as lines
  upgradeMVar, \* connUpgrade: "empty", "noop" or "cancelPre"
  events,      \* every event written to connInQueue
  taken,       \* how many of them the owner has flushed
  outQueue,    \* connOutQueue
  wire,        \* what was written to the socket: [msg, enc]
  submitted,   \* messages the owner has submitted
  received,    \* lines the peer has sent
  reporter,    \* the reporter thread: "waiting" or "done"
  owner        \* the event-loop thread: what call it is inside

supVars   == <<sup, verdict, outcome>>
ioVars    == <<handle, buf, received>>
sendVars  == <<holding, wire>>
queueVars == <<events, taken, outQueue, submitted>>
settings  == <<tls, fingerprint>>
vars == <<settings, supVars, pre, loops, sendVars, ioVars, upgradeMVar,
          queueVars, reporter, owner>>

SupStates == {"delay", "connect", "open", "presend", "fork", "put", "waitPre",
              "handshake", "announce", "check", "race", "unwind", "close",
              "done"}
Verdicts == {"none", "normal", "error", "killed"}
Line     == [line : Lines, enc : BOOLEAN]
Event    == [kind : {"Open", "TLS", "Close", "Error"}]
              \cup [kind : {"Line"}, line : Lines, enc : BOOLEAN]

TypeOK ==
  /\ tls \in {"no", "yes", "start"}
  /\ fingerprint \in {"unset", "match", "mismatch"}
  /\ sup \in SupStates
  /\ verdict \in Verdicts
  /\ outcome \in Verdicts
  /\ pre \in {"none", "run", "normal", "error", "cancelled", "killed"}
  /\ loops \in {"off", "on"}
  /\ holding \in Nat
  /\ handle \in {"none", "plain", "tls", "closed"}
  /\ buf \in Seq(Line)
  /\ upgradeMVar \in {"empty", "noop", "cancelPre"}
  /\ events \in Seq(Event)
  /\ taken \in Nat
  /\ outQueue \in Seq(Nat)
  /\ wire \in Seq([msg : Nat, enc : BOOLEAN])
  /\ submitted \in Nat
  /\ received \in Nat
  /\ reporter \in {"waiting", "done"}
  /\ owner \in {"idle", "aborting", "upgrading", "cancelling"}

Init ==
  /\ tls \in {"no", "yes", "start"}
  /\ fingerprint \in {"unset", "match", "mismatch"}
  /\ sup = "delay" /\ verdict = "none" /\ outcome = "none"
  /\ pre = "none" /\ loops = "off" /\ holding = 0
  /\ handle = "none" /\ buf = << >> /\ received = 0
  /\ upgradeMVar = "empty"
  /\ events = << >> /\ taken = 0
  /\ outQueue = << >> /\ wire = << >> /\ submitted = 0
  /\ reporter = "waiting" /\ owner = "idle"

Write(kind) == events' = Append(events, [kind |-> kind])

(***************************************************************************)
(* The supervisor: threadDelay, withConnection, startConnection.           *)
(***************************************************************************)
Goto(s) == sup' = s /\ UNCHANGED <<verdict, outcome>>

\* The action inside the bracket ends with verdict v: its children are
\* stopped next, then the bracket closes the handle.
End(v) == sup' = "unwind" /\ verdict' = v /\ UNCHANGED outcome

DelayExpires ==
  /\ sup = "delay"
  /\ Goto("connect")
  /\ UNCHANGED <<settings, pre, loops, sendVars, ioVars, upgradeMVar,
                 queueVars, reporter, owner>>

Connect ==
  /\ sup = "connect"
  /\ \/ /\ Goto("open")
        /\ handle' = IF tls = "yes" THEN "tls" ELSE "plain"
     \/ /\ End("error")
        /\ UNCHANGED handle
  /\ UNCHANGED <<settings, pre, loops, sendVars, buf, received, upgradeMVar,
                 queueVars, reporter, owner>>

ReportNetworkOpen ==
  /\ sup = "open"
  /\ Goto("presend")
  /\ Write("Open")
  /\ UNCHANGED <<settings, pre, loops, sendVars, ioVars, upgradeMVar,
                 taken, outQueue, submitted, reporter, owner>>

PresendNoTls ==
  /\ sup = "presend" /\ tls = "no" /\ upgradeMVar = "empty"
  /\ upgradeMVar' = "noop"
  /\ Goto("check")
  /\ UNCHANGED <<settings, pre, loops, sendVars, ioVars, queueVars,
                 reporter, owner>>

PresendTls ==
  /\ sup = "presend" /\ tls = "yes" /\ upgradeMVar = "empty"
  /\ upgradeMVar' = "noop"
  /\ Goto("announce")
  /\ UNCHANGED <<settings, pre, loops, sendVars, ioVars, queueVars,
                 reporter, owner>>

\* Hookup.send h "STARTTLS\n" on the plain socket; 0 stands for that command.
PresendStartTls ==
  /\ sup = "presend" /\ tls = "start"
  /\ \/ Goto("fork") /\ wire' = Append(wire, [msg |-> 0, enc |-> handle = "tls"])
     \/ End("error") /\ UNCHANGED wire
  /\ UNCHANGED <<settings, pre, loops, holding, ioVars, upgradeMVar,
                 queueVars, reporter, owner>>

ForkPreReceiver ==
  /\ sup = "fork"
  /\ pre' = "run"
  /\ Goto("put")
  /\ UNCHANGED <<settings, loops, sendVars, ioVars, upgradeMVar, queueVars,
                 reporter, owner>>

PutCancel ==
  /\ sup = "put" /\ upgradeMVar = "empty"
  /\ upgradeMVar' = "cancelPre"
  /\ Goto("waitPre")
  /\ UNCHANGED <<settings, pre, loops, sendVars, ioVars, queueVars,
                 reporter, owner>>

PreReceiverEnded ==
  /\ sup = "waitPre"
  /\ \/ pre = "normal"    /\ End("normal")
     \/ pre = "cancelled" /\ Goto("handshake")
     \/ pre = "error"     /\ End("error")
  /\ UNCHANGED <<settings, pre, loops, sendVars, ioVars, upgradeMVar,
                 queueVars, reporter, owner>>

\* Mutant of UpgradeTls: the buffer survives the upgrade.
UpgradeTlsKeepsBuffer ==
  /\ sup = "handshake"
  /\ \/ Goto("announce") /\ handle' = "tls"
     \/ End("error") /\ UNCHANGED handle
  /\ UNCHANGED <<settings, pre, loops, sendVars, buf, received, upgradeMVar,
                 queueVars, reporter, owner>>

\* Hookup.upgradeTls replaces the handle and drops what was buffered before it.
UpgradeTls ==
  /\ sup = "handshake"
  /\ \/ /\ Goto("announce")
        /\ handle' = "tls" /\ buf' = << >>
     \/ /\ End("error")
        /\ UNCHANGED <<handle, buf>>
  /\ UNCHANGED <<settings, pre, loops, sendVars, received, upgradeMVar,
                 queueVars, reporter, owner>>

AnnounceTls ==
  /\ sup = "announce"
  /\ Goto("check")
  /\ Write("TLS")
  /\ UNCHANGED <<settings, pre, loops, sendVars, ioVars, upgradeMVar, taken,
                 outQueue, submitted, reporter, owner>>

\* Mutant of CheckFingerprints: the loops start whatever the fingerprint is.
SkipFingerprints ==
  /\ sup = "check"
  /\ Goto("race") /\ loops' = "on"
  /\ UNCHANGED <<settings, pre, sendVars, ioVars, upgradeMVar, queueVars,
                 reporter, owner>>

CheckFingerprints ==
  /\ sup = "check"
  /\ IF tls # "no" /\ fingerprint = "mismatch"
     THEN End("error") /\ UNCHANGED loops
     ELSE Goto("race") /\ loops' = "on"
  /\ UNCHANGED <<settings, pre, sendVars, ioVars, upgradeMVar, queueVars,
                 reporter, owner>>

\* Mutant of StopChildren: only the pre-receiver is stopped.
StopPreReceiver ==
  /\ sup = "unwind"
  /\ sup' = "close" /\ UNCHANGED <<verdict, outcome>>
  /\ pre' = IF pre = "run" THEN "killed" ELSE pre
  /\ UNCHANGED <<settings, loops, holding, wire, ioVars, upgradeMVar, queueVars,
                 reporter, owner>>

\* withAsync and race_ stop their children before the exception or result
\* leaves them; until then a child may still be running.
StopChildren ==
  /\ sup = "unwind"
  /\ sup' = "close" /\ UNCHANGED <<verdict, outcome>>
  /\ pre' = IF pre = "run" THEN "killed" ELSE pre
  /\ loops' = "off" /\ holding' = 0
  /\ UNCHANGED <<settings, wire, ioVars, upgradeMVar, queueVars,
                 reporter, owner>>

\* The bracket's release.  An abort that arrives this late is either
\* delivered when the mask ends or finds the thread finished.
Close ==
  /\ sup = "close"
  /\ sup' = "done" /\ UNCHANGED verdict
  /\ handle' = IF handle = "none" THEN "none" ELSE "closed"
  /\ outcome' \in {verdict} \cup (IF owner = "aborting" THEN {"killed"} ELSE {})
  /\ UNCHANGED <<settings, pre, loops, sendVars, buf, received, upgradeMVar,
                 queueVars, reporter, owner>>

(***************************************************************************)
(* The receive loop (as pre-receiver or inside race_) and the send loop.   *)
(***************************************************************************)
PreReceiving == pre = "run"
Receiving    == loops = "on"

\* networkRecv: a chunk that may hold several lines lands in the buffer.
Fill ==
  /\ PreReceiving \/ Receiving
  /\ buf = << >> /\ handle \in {"plain", "tls"}
  /\ \E n \in 1 .. 2 :
       /\ received + n =< MaxLines
       /\ received' = received + n
       /\ \E chunk \in [1 .. n -> Lines] :
            buf' = [i \in 1 .. n |-> [line |-> chunk[i], enc |-> handle = "tls"]]
  /\ UNCHANGED <<settings, supVars, pre, loops, sendVars, handle, upgradeMVar,
                 queueVars, reporter, owner>>

\* recvLine takes one line out of the buffer, receiveLoop queues its event.
ReceiveLine ==
  /\ PreReceiving \/ Receiving
  /\ buf # << >>
  /\ buf' = Tail(buf)
  /\ events' = Append(events, [kind |-> "Line", line |-> Head(buf).line,
                               enc |-> Head(buf).enc])
  /\ UNCHANGED <<settings, supVars, pre, loops, sendVars, handle, received,
                 upgradeMVar, taken, outQueue, submitted, reporter, owner>>

\* recvLine returns Nothing at the end of the stream, or throws.
PreReceiverEnds ==
  /\ PreReceiving
  /\ \/ buf = << >> /\ pre' = "normal"
     \/ pre' = "error"
  /\ UNCHANGED <<settings, supVars, loops, sendVars, ioVars, upgradeMVar,
                 queueVars, reporter, owner>>

ReceiverEnds ==
  /\ Receiving /\ sup = "race"
  /\ \/ buf = << >> /\ End("normal")
     \/ End("error")
  /\ UNCHANGED <<settings, pre, loops, sendVars, ioVars, upgradeMVar,
                 queueVars, reporter, owner>>

\* sendLoop: readTQueue, then the rate limiter's delay, then Hookup.send.
SenderTakes ==
  /\ loops = "on" /\ holding = 0 /\ outQueue # << >>
  /\ holding' = Head(outQueue)
  /\ outQueue' = Tail(outQueue)
  /\ UNCHANGED <<settings, supVars, pre, loops, wire, ioVars, upgradeMVar,
                 events, taken, submitted, reporter, owner>>

SenderWrites ==
  /\ loops = "on" /\ holding # 0
  /\ wire' = Append(wire, [msg |-> holding, enc |-> handle = "tls"])
  /\ holding' = 0
  /\ UNCHANGED <<settings, supVars, pre, loops, ioVars, upgradeMVar,
                 queueVars, reporter, owner>>

SenderFails ==
  /\ loops = "on" /\ holding # 0 /\ sup = "race"
  /\ End("error")
  /\ UNCHANGED <<settings, pre, loops, sendVars, ioVars, upgradeMVar,
                 queueVars, reporter, owner>>

(***************************************************************************)
(* The reporter thread: waitCatch supervisor, then one last event.         *)
(***************************************************************************)
Report ==
  /\ sup = "done" /\ reporter = "waiting"
  /\ reporter' = "done"
  /\ Write(IF outcome = "normal" THEN "Close" ELSE "Error")
  /\ UNCHANGED <<settings, supVars, pre, loops, sendVars, ioVars, upgradeMVar,
                 taken, outQueue, submitted, owner>>

(***************************************************************************)
(* The owner's calls: send, recv, upgrade, abortConnection.                *)
(***************************************************************************)
Send ==
  /\ owner = "idle" /\ submitted < MaxSend
  /\ submitted' = submitted + 1
  /\ outQueue' = Append(outQueue, submitted')
  /\ UNCHANGED <<settings, supVars, pre, loops, sendVars, ioVars, upgradeMVar,
                 events, taken, reporter, owner>>

Recv ==
  /\ owner = "idle" /\ taken < Len(events)
  /\ taken' = Len(events)
  /\ UNCHANGED <<settings, supVars, pre, loops, sendVars, ioVars, upgradeMVar,
                 events, outQueue, submitted, reporter, owner>>

CallUpgrade ==
  /\ owner = "idle"
  /\ owner' = "upgrading"
  /\ UNCHANGED <<settings, supVars, pre, loops, sendVars, ioVars, upgradeMVar,
                 queueVars, reporter>>

\* swapMVar waits for the MVar to be full, then join runs what it held.
SwapUpgrade ==
  /\ owner = "upgrading" /\ upgradeMVar # "empty"
  /\ upgradeMVar' = "noop"
  /\ owner' = IF upgradeMVar = "cancelPre" THEN "cancelling" ELSE "idle"
  /\ UNCHANGED <<settings, supVars, pre, loops, sendVars, ioVars, queueVars,
                 reporter>>

\* cancel t: AsyncCancelled reaches the pre-receiver, unless it has ended.
CancelPreReceiver ==
  /\ owner = "cancelling"
  /\ owner' = "idle"
  /\ pre' = IF pre = "run" THEN "cancelled" ELSE pre
  /\ UNCHANGED <<settings, supVars, loops, sendVars, ioVars, upgradeMVar,
                 queueVars, reporter>>

CallAbort ==
  /\ owner = "idle"
  /\ owner' = "aborting"
  /\ UNCHANGED <<settings, supVars, pre, loops, sendVars, ioVars, upgradeMVar,
                 queueVars, reporter>>

\* Mutant of AbortDelivered: the wait for the pre-receiver is masked.
AbortMaskedWhileWaiting ==
  /\ owner = "aborting" /\ sup \notin {"waitPre", "unwind", "close", "done"}
  /\ End("killed")
  /\ UNCHANGED <<settings, pre, loops, sendVars, ioVars, upgradeMVar,
                 queueVars, reporter, owner>>

\* throwTo reaches the supervisor where it is not masked.
AbortDelivered ==
  /\ owner = "aborting" /\ sup \notin {"unwind", "close", "done"}
  /\ End("killed")
  /\ UNCHANGED <<settings, pre, loops, sendVars, ioVars, upgradeMVar,
                 queueVars, reporter, owner>>

\* cancelWith returns once the supervisor has finished.
AbortReturns ==
  /\ owner = "aborting" /\ sup = "done"
  /\ owner' = "idle"
  /\ UNCHANGED <<settings, supVars, pre, loops, sendVars, ioVars, upgradeMVar,
                 queueVars, reporter>>

\* Steps that wait for the peer, and those the supervisor takes by itself.
SupervisorAwaits == Connect \/ UpgradeTls
SupervisorRuns ==
  \/ DelayExpires \/ ReportNetworkOpen \/ PresendNoTls \/ PresendTls
  \/ PresendStartTls \/ ForkPreReceiver \/ PutCancel \/ PreReceiverEnded
  \/ AnnounceTls \/ CheckFingerprints \/ StopChildren \/ Close
Supervisor == SupervisorAwaits \/ SupervisorRuns
Loops ==
  \/ Fill \/ ReceiveLine \/ PreReceiverEnds \/ ReceiverEnds
  \/ SenderTakes \/ SenderWrites \/ SenderFails
Owner ==
  \/ Send \/ Recv \/ CallUpgrade \/ SwapUpgrade \/ CancelPreReceiver
  \/ CallAbort \/ AbortDelivered \/ AbortReturns

Next == Supervisor \/ Loops \/ Report \/ Owner

Spec == Init /\ [][Next]_vars

\* Once an exception is on its way the runtime runs the unwinding to its end:
\* the release handlers and the reporter are runnable threads.  Nothing is
\* assumed of the peer, of the network or of a connection left alone.
FairSpec ==
  /\ Spec
  /\ WF_vars(StopChildren) /\ WF_vars(Close) /\ WF_vars(Report)
  /\ WF_vars(AbortDelivered) /\ WF_vars(AbortReturns)

(***************************************************************************)
(* Properties.                                                             *)
(***************************************************************************)

\* Queued messages (PASS, SASL and everything after) never leave on a
\* plaintext socket when TLS is configured, nor before the peer passed the
\* configured fingerprint, however sends, upgrades and aborts interleave.
SentSecurely ==
  tls # "no" =>
    \A i \in 1 .. Len(wire) :
      wire[i].msg # 0 => wire[i].enc /\ fingerprint # "mismatch"

\* "its final messages will be NetworkClose / NetworkError": once the reporter
\* has written the last event no leftover child thread adds an event or writes
\* to the socket, and the handle has been closed for good.
FinalEventLast ==
  [][reporter = "done" =>
       UNCHANGED <<events, wire, handle>> /\ handle \in {"none", "closed"}]_vars

\* A call of abortConnection is answered by a last event, whatever the
\* supervisor is blocked on: the delay, the connection attempt, the
\* pre-receiver, the handshake or the race.
AbortReported ==
  /\ owner = "aborting" ~> reporter = "done"
  /\ owner = "aborting" ~> owner = "idle"

\* The events reach the owner in the order and the number ConnectionEvents
\* allows; in particular no line read from the plain socket, buffered or not,
\* is delivered after NetworkTLS.
HasEvent(kind) == \E i \in 1 .. Len(events) : events[i].kind = kind

Stage ==
  CASE reporter = "done" -> "finished"
    [] reporter # "done" /\ HasEvent("TLS") -> "secured"
    [] reporter # "done" /\ ~HasEvent("TLS") /\ HasEvent("Open") -> "open"
    [] OTHER -> "connecting"

Grammar == INSTANCE ConnectionEvents
             WITH mode <- tls, stage <- Stage, emitted <- events

EventGrammar == Grammar!Spec
=============================================================================
