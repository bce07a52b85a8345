----------------------------- MODULE EventLoop ------------------------------
(***************************************************************************)
(* The event loop and its network connections: clientConnections maps a    *)
(* network name to its current connection, getEvent flushes the queues of  *)
(* the mapped connections into one batch tagged by NAME, and the handlers  *)
(* of that batch, the ping timer and the /connect, /disconnect and         *)
(* /reconnect commands abort, remove and replace connections.              *)
(*                                                                         *)
(* A connection runs on threads of its own (module Connection); here it    *)
(* produces events as ConnectionEvents allows.  Identifiers of connections *)
(* that nothing refers to any more are reused, so Conns bounds how many    *)
(* exist at a time, not how many a behaviour creates.                      *)
(***************************************************************************)
EXTENDS Naturals, Sequences

CONSTANTS
  Networks,          \* network names
  Conns,             \* connection identifiers
  None,              \* no connection, no network
  ReconnectAttempts, \* ssReconnectAttempts
  Secure,            \* networks configured with TLS (ssTls = TlsYes)
  Features,          \* what the networks' configuration and servers can do
  Sends,             \* the kinds of line the servers send
  MaxQueue           \* bound: unread events of one connection

ASSUME NoneAssumption == None \notin Conns /\ None \notin Networks
ASSUME AttemptsAssumption == ReconnectAttempts \in Nat
ASSUME QueueAssumption == MaxQueue \in Nat

\* sts: a plaintext server advertises an STS port (ssSts is on);
\* reconnectError: ssReconnectError matches the server's ERROR message;
\* cmdDisconnect, cmdReconnect: a connect-cmd runs that command.
AllFeatures == {"sts", "reconnectError", "cmdDisconnect", "cmdReconnect"}
ASSUME FeaturesAssumption == Features \subseteq AllFeatures

VARIABLES
  conn,        \* clientConnections: the current connection of each network
  thread,      \* what the connection's threads do
  reason,      \* why they ended: the event the reporter writes
  mode,        \* the connection's ssTls, after STS
  stage,       \* events produced so far, as in ConnectionEvents
  queue,       \* connInQueue
  attempts,    \* first field of PingConnecting
  connecting,  \* csPingStatus is still PingConnecting
  restricted,  \* its third field is WaitTLSRestriction
  inARow,      \* history: automatic reconnections since an outside cause
  policy,      \* clientStsPolicy holds an entry for the network's host
  batch,       \* events of the current NetworkEvents not handled yet
  source,      \* history: the connection each network's batch came from
  turn,        \* the network whose events are handled now
  crashed      \* a handler called error

netVars  == <<attempts, connecting, restricted, inARow>>
loopVars == <<batch, source, turn>>
vars == <<conn, thread, reason, mode, stage, queue, netVars, policy, loopVars,
          crashed>>

Finals == {"close", "retriable", "fatal"}
LineEvents == {"line", "welcome", "sts", "error"}
ASSUME SendsAssumption == Sends \subseteq LineEvents
Events == {"open", "tls"} \cup LineEvents \cup Finals

TypeOK ==
  /\ conn \in [Networks -> Conns \cup {None}]
  /\ thread \in [Conns -> {"free", "run", "ended", "reported"}]
  /\ reason \in [Conns -> Finals]
  /\ mode \in [Conns -> {"no", "yes"}]
  /\ stage \in [Conns -> {"connecting", "open", "secured"}]
  /\ queue \in [Conns -> Seq(Events)]
  /\ attempts \in [Conns -> Nat]
  /\ connecting \in [Conns -> BOOLEAN]
  /\ restricted \in [Conns -> BOOLEAN]
  /\ inARow \in [Networks -> Nat]
  /\ policy \in [Networks -> BOOLEAN]
  /\ batch \in [Networks -> Seq(Events)]
  /\ source \in [Networks -> Conns \cup {None}]
  /\ turn \in Networks \cup {None}
  /\ crashed \in BOOLEAN

Init ==
  /\ conn = [n \in Networks |-> None]
  /\ thread = [c \in Conns |-> "free"]
  /\ reason = [c \in Conns |-> "fatal"]
  /\ mode = [c \in Conns |-> "no"]
  /\ stage = [c \in Conns |-> "connecting"]
  /\ queue = [c \in Conns |-> << >>]
  /\ attempts = [c \in Conns |-> 0]
  /\ connecting = [c \in Conns |-> TRUE]
  /\ restricted = [c \in Conns |-> FALSE]
  /\ inARow = [n \in Networks |-> 0]
  /\ policy = [n \in Networks |-> FALSE]
  /\ batch = [n \in Networks |-> << >>]
  /\ source = [n \in Networks |-> None]
  /\ turn = None
  /\ crashed = FALSE

Idle == turn = None /\ ~crashed

(***************************************************************************)
(* The connection's threads.                                               *)
(***************************************************************************)
Put(c, e) == queue' = [queue EXCEPT ![c] = Append(@, e)]

ThreadOpen(c) ==
  /\ thread[c] = "run" /\ stage[c] = "connecting"
  /\ stage' = [stage EXCEPT ![c] = "open"]
  /\ Put(c, "open")
  /\ UNCHANGED <<conn, thread, reason, mode, netVars, policy, loopVars, crashed>>

ThreadTLS(c) ==
  /\ thread[c] = "run" /\ stage[c] = "open" /\ mode[c] = "yes"
  /\ stage' = [stage EXCEPT ![c] = "secured"]
  /\ Put(c, "tls")
  /\ UNCHANGED <<conn, thread, reason, mode, netVars, policy, loopVars, crashed>>

\* Mutant of ThreadLine: receiver threads that outlive their connection.
LeakedThreadLine(c, e) ==
  /\ thread[c] # "free" /\ Len(queue[c]) < 3
  /\ stage[c] = (IF mode[c] = "no" THEN "open" ELSE "secured")
  /\ Put(c, e)
  /\ UNCHANGED <<conn, thread, reason, mode, stage, netVars, policy, loopVars,
                 crashed>>

ThreadLine(c, e) ==
  /\ thread[c] = "run" /\ Len(queue[c]) < MaxQueue
  /\ stage[c] = (IF mode[c] = "no" THEN "open" ELSE "secured")
  /\ Put(c, e)
  /\ UNCHANGED <<conn, thread, reason, mode, stage, netVars, policy, loopVars,
                 crashed>>

\* The supervisor ends by itself: the stream ended (after NetworkOpen) or it
\* failed, with an exception reconnectLogicOnFailure retries or with another.
ThreadEnds(c, why) ==
  /\ thread[c] = "run"
  /\ why = "close" => stage[c] # "connecting"
  /\ thread' = [thread EXCEPT ![c] = "ended"]
  /\ reason' = [reason EXCEPT ![c] = why]
  /\ UNCHANGED <<conn, mode, stage, queue, netVars, policy, loopVars, crashed>>

\* Mutant of Report: only connections that were opened are reported.
ReportOpened(c) ==
  /\ thread[c] = "ended" /\ stage[c] # "connecting"
  /\ thread' = [thread EXCEPT ![c] = "reported"]
  /\ Put(c, reason[c])
  /\ UNCHANGED <<conn, reason, mode, stage, netVars, policy, loopVars, crashed>>

Report(c) ==
  /\ thread[c] = "ended"
  /\ thread' = [thread EXCEPT ![c] = "reported"]
  /\ Put(c, reason[c])
  /\ UNCHANGED <<conn, reason, mode, stage, netVars, policy, loopVars, crashed>>

\* Nothing refers to the connection any more: its identifier is free again.
Collect(c) ==
  /\ thread[c] = "reported"
  /\ \A n \in Networks : conn[n] # c /\ (batch[n] # << >> => source[n] # c)
  /\ thread' = [thread EXCEPT ![c] = "free"]
  /\ reason' = [reason EXCEPT ![c] = "fatal"]
  /\ mode' = [mode EXCEPT ![c] = "no"]
  /\ stage' = [stage EXCEPT ![c] = "connecting"]
  /\ queue' = [queue EXCEPT ![c] = << >>]
  /\ attempts' = [attempts EXCEPT ![c] = 0]
  /\ connecting' = [connecting EXCEPT ![c] = TRUE]
  /\ restricted' = [restricted EXCEPT ![c] = FALSE]
  /\ UNCHANGED <<conn, inARow, policy, loopVars, crashed>>

(***************************************************************************)
(* abortConnection, abortNetwork, addConnection.                           *)
(***************************************************************************)
Alive(c) == c # None /\ thread[c] = "run"

\* The thread functions after abortConnection: a finished thread stays as it is.
Killed(c) == IF Alive(c) THEN [thread EXCEPT ![c] = "ended"] ELSE thread
Why(c, why) == IF Alive(c) THEN [reason EXCEPT ![c] = why] ELSE reason

\* Mutant of TlsRestriction: it follows the configuration, not applyStsPolicy.
TlsRestrictionAsConfigured(n, tls) == n \in Secure

\* restrict: WaitTLSRestriction for settings that came out with TLS.
TlsRestriction(n, tls) == tls

\* addConnection on top of the thread functions th: a new connection takes the
\* network's place, or the secrets fail to load and `otherwise' stays there.
\* What that does to inARow is the caller's.
AddConnection(n, th, tries, upgrade, otherwise) ==
  \/ /\ conn' = [conn EXCEPT ![n] = otherwise]
     /\ thread' = th
     /\ UNCHANGED <<mode, stage, attempts, connecting, restricted, queue>>
  \/ \E c \in Conns :
       LET tls == upgrade \/ n \in Secure \/ policy[n] IN
       /\ thread[c] = "free"
       /\ conn' = [conn EXCEPT ![n] = c]
       /\ thread' = [th EXCEPT ![c] = "run"]
       /\ mode' = [mode EXCEPT ![c] = IF tls THEN "yes" ELSE "no"]
       /\ stage' = [stage EXCEPT ![c] = "connecting"]
       /\ queue' = [queue EXCEPT ![c] = << >>]
       /\ attempts' = [attempts EXCEPT ![c] = tries]
       /\ connecting' = [connecting EXCEPT ![c] = TRUE]
       /\ restricted' = [restricted EXCEPT ![c] = TlsRestriction(n, tls)]

(***************************************************************************)
(* Commands and timers, between two batches.                               *)
(***************************************************************************)

\* The user, a connect-cmd or the server had the network connected, or
\* welcomed the client: what follows is no retry of what was before.
CountAnew(n) == inARow' = [inARow EXCEPT ![n] = 0]

\* Mutant of Reconnect: the existing connection is not aborted.
ReconnectNoAbort(n) ==
  /\ UNCHANGED reason
  /\ AddConnection(n, thread, 0, FALSE, None)
  /\ CountAnew(n)

\* cmdConnect, cmdReconnect: abort whatever the name is mapped to, add anew.
Reconnect(n) ==
  /\ reason' = Why(conn[n], "fatal")
  /\ AddConnection(n, Killed(conn[n]), 0, FALSE, None)
  /\ CountAnew(n)

\* cmdDisconnect
Disconnect(n) ==
  /\ thread' = Killed(conn[n])
  /\ reason' = Why(conn[n], "fatal")
  /\ conn' = [conn EXCEPT ![n] = None]
  /\ UNCHANGED <<mode, stage, netVars, queue>>

\* Mutant of UserConnects: commands run while a batch is being handled.
UserConnectsAnytime(n) ==
  /\ ~crashed
  /\ Reconnect(n)
  /\ UNCHANGED <<policy, loopVars, crashed>>

UserConnects(n) ==
  /\ Idle
  /\ Reconnect(n)
  /\ UNCHANGED <<policy, loopVars, crashed>>

UserDisconnects(n) ==
  /\ Idle /\ conn[n] # None
  /\ Disconnect(n)
  /\ UNCHANGED <<policy, loopVars, crashed>>

\* TimedDisconnect: armed only once the connection was welcomed.
PingTimesOut(n) ==
  /\ Idle /\ Alive(conn[n]) /\ ~connecting[conn[n]]
  /\ thread' = Killed(conn[n])
  /\ reason' = Why(conn[n], "retriable")
  /\ UNCHANGED <<conn, mode, stage, queue, netVars, policy, loopVars, crashed>>

\* An STS policy is only honoured while it has not expired.
PolicyExpires(n) ==
  /\ policy[n]
  /\ policy' = [policy EXCEPT ![n] = FALSE]
  /\ UNCHANGED <<conn, thread, reason, mode, stage, queue, netVars, loopVars,
                 crashed>>

(***************************************************************************)
(* getEvent flushes the queue of every mapped connection.                  *)
(***************************************************************************)
Pending(n) == IF conn[n] = None THEN << >> ELSE queue[conn[n]]

GetNetworkEvents ==
  /\ Idle
  /\ \E n \in Networks : Pending(n) # << >> /\ turn' = n
  /\ batch' = [n \in Networks |-> Pending(n)]
  /\ source' = [n \in Networks |-> IF Pending(n) = << >> THEN None ELSE conn[n]]
  /\ queue' = [c \in Conns |->
                 IF \E n \in Networks : conn[n] = c THEN << >> ELSE queue[c]]
  /\ UNCHANGED <<conn, thread, reason, mode, stage, netVars, policy, crashed>>

(***************************************************************************)
(* doNetworkEvent: the events of a network come one after the other; when  *)
(* they are done it is another network's turn.                             *)
(***************************************************************************)
Advance(n) ==
  LET rest == [batch EXCEPT ![n] = Tail(@)]
      left == {m \in Networks : rest[m] # << >>} IN
  /\ batch' = rest
  /\ turn' \in IF rest[n] # << >> THEN {n} ELSE IF left = {} THEN {None} ELSE left
  /\ source' = [source EXCEPT ![n] = IF rest[n] # << >> THEN @ ELSE None]

Handling(n, kinds) ==
  /\ ~crashed /\ turn = n /\ batch[n] # << >> /\ Head(batch[n]) \in kinds

\* error "...: Network missing", removeNetwork's error
NetworkMissing(n) ==
  /\ Handling(n, Events \ {"tls"}) /\ conn[n] = None
  /\ crashed' = TRUE
  /\ UNCHANGED <<conn, thread, reason, mode, stage, queue, netVars, policy,
                 loopVars>>

DoNetworkOpen(n) ==
  /\ Handling(n, {"open"}) /\ conn[n] # None
  /\ Advance(n)
  /\ UNCHANGED <<conn, thread, reason, mode, stage, queue, netVars, policy,
                 crashed>>

DoNetworkTLS(n) ==
  /\ Handling(n, {"tls"})
  /\ Advance(n)
  /\ restricted' = IF conn[n] = None THEN restricted
                   ELSE [restricted EXCEPT ![conn[n]] = FALSE]
  /\ UNCHANGED <<conn, thread, reason, mode, stage, queue, attempts,
                 connecting, inARow, policy, crashed>>

\* doNetworkClose: removeNetwork
DoNetworkClose(n) ==
  /\ Handling(n, {"close"}) /\ conn[n] # None
  /\ Advance(n)
  /\ conn' = [conn EXCEPT ![n] = None]
  /\ UNCHANGED <<thread, reason, mode, stage, queue, netVars, policy, crashed>>

\* shouldReconnect of reconnectLogicOnFailure
ShouldReconnect(c, why) ==
  /\ connecting[c] => attempts[c] # 0 /\ attempts[c] =< ReconnectAttempts
  /\ why = "retriable"

\* Mutant of Retry: a replaced connection does not hand its count on.
RetryForgets(c) == IF connecting[c] THEN attempts[c] ELSE 1

\* computeRetryInfo
Retry(c) == IF connecting[c] THEN attempts[c] + 1 ELSE 1

\* doNetworkError: removeNetwork, then reconnectLogicOnFailure
DoNetworkError(n) ==
  /\ Handling(n, {"retriable", "fatal"}) /\ conn[n] # None
  /\ Advance(n)
  /\ IF ShouldReconnect(conn[n], Head(batch[n]))
     THEN /\ AddConnection(n, thread, Retry(conn[n]), FALSE, None)
          /\ inARow' = [inARow EXCEPT ![n] = IF conn'[n] = None THEN @ ELSE @ + 1]
     ELSE /\ conn' = [conn EXCEPT ![n] = None]
          /\ UNCHANGED <<thread, mode, stage, queue, netVars>>
  /\ UNCHANGED <<reason, policy, crashed>>

\* doNetworkLine while the TLS handshake is awaited: abort StartTLSFailed.
LineRestricted(n) ==
  /\ Handling(n, LineEvents) /\ conn[n] # None
  /\ connecting[conn[n]] /\ restricted[conn[n]]
  /\ Advance(n)
  /\ thread' = Killed(conn[n])
  /\ reason' = Why(conn[n], "fatal")
  /\ UNCHANGED <<conn, mode, stage, queue, netVars, policy, crashed>>

Applies(n, kinds) ==
  /\ Handling(n, kinds) /\ conn[n] # None
  /\ ~(connecting[conn[n]] /\ restricted[conn[n]])
  /\ Advance(n)
  /\ UNCHANGED crashed

\* A line without a clientResponse, or one no configuration reacts to.
DoPlainLine(n) ==
  /\ Applies(n, {"line"} \cup (IF "reconnectError" \in Features
                               THEN {} ELSE {"error"}))
  /\ UNCHANGED <<conn, thread, reason, mode, stage, queue, netVars, policy>>

\* RPL_WELCOME: doWelcome leaves PingConnecting, then the connect-cmds run.
\* A reload of the configuration may change them between two connections.
DoWelcome(n) ==
  /\ Applies(n, {"welcome"})
  /\ connecting' = [connecting EXCEPT ![conn[n]] = FALSE]
  /\ CountAnew(n)
  /\ UNCHANGED <<conn, thread, reason, mode, stage, queue, attempts,
                 restricted, policy>>

DoWelcomeConnectCmd(n) ==
  /\ Applies(n, {"welcome"})
  /\ \/ "cmdDisconnect" \in Features /\ Disconnect(n)
     \/ "cmdReconnect" \in Features /\ Reconnect(n)
  /\ UNCHANGED policy

\* processSts: a plain connection moves to the advertised TLS port, an
\* encrypted one stores the policy.
DoSts(n) ==
  /\ Applies(n, {"sts"})
  /\ IF mode[conn[n]] = "no" /\ "sts" \in Features
     THEN /\ reason' = Why(conn[n], "fatal")
          /\ AddConnection(n, Killed(conn[n]), 0, TRUE, conn[n])
          /\ CountAnew(n)
          /\ UNCHANGED policy
     ELSE /\ policy' = [policy EXCEPT ![n] = @ \/ "sts" \in Features]
          /\ UNCHANGED <<conn, thread, reason, mode, stage, queue, netVars>>

\* clientResponse to an ERROR that ssReconnectError matches: a new connection
\* takes the name, the old one is left alone.
DoReconnectError(n) ==
  /\ "reconnectError" \in Features
  /\ Applies(n, {"error"})
  /\ AddConnection(n, thread, 1, FALSE, conn[n])
  /\ CountAnew(n)
  /\ UNCHANGED <<reason, policy>>

Handle(n) ==
  \/ NetworkMissing(n) \/ DoNetworkOpen(n) \/ DoNetworkTLS(n)
  \/ DoNetworkClose(n) \/ DoNetworkError(n) \/ LineRestricted(n)
  \/ DoPlainLine(n) \/ DoWelcome(n) \/ DoWelcomeConnectCmd(n)
  \/ DoSts(n) \/ DoReconnectError(n)

Thread(c) ==
  \/ ThreadOpen(c) \/ ThreadTLS(c)
  \/ \E e \in Sends : ThreadLine(c, e)
  \/ \E why \in Finals : ThreadEnds(c, why)
  \/ Report(c) \/ Collect(c)

User(n) == UserConnects(n) \/ UserDisconnects(n)

Next ==
  \/ \E c \in Conns : Thread(c)
  \/ \E n \in Networks :
       User(n) \/ PingTimesOut(n) \/ PolicyExpires(n) \/ Handle(n)
  \/ GetNetworkEvents

Spec == Init /\ [][Next]_vars

\* The reporter is a runnable thread, and the event loop, having nothing else
\* to do, takes the next batch and finishes it.  Connections, servers and the
\* user owe nothing.
FairSpec ==
  /\ Spec
  /\ \A c \in Conns : WF_vars(Report(c))
  /\ \A n \in Networks : WF_vars(Handle(n))
  /\ WF_vars(GetNetworkEvents)

(***************************************************************************)
(* Properties.                                                             *)
(***************************************************************************)

\* Events are tagged with a network NAME, so every event still in the batch
\* must come from the connection the name is mapped to when it is handled.
BatchCurrent == \A n \in Networks : batch[n] # << >> => conn[n] = source[n]

\* No handler meets the `error "...: Network missing"' of doNetworkOpen and
\* doNetworkLine nor the one of removeNetwork.
NoMissingNetwork == ~crashed

\* A connection whose threads run is in clientConnections: replacing or
\* removing an entry never leaves a live socket nobody reads or can abort.
NoOrphan ==
  \A c \in Conns : thread[c] = "run" => \E n \in Networks : conn[n] = c

\* A network that fails is reconnected automatically at most
\* ssReconnectAttempts + 1 times in a row, whatever becomes of the connections
\* in between: only a welcome, a command, an STS upgrade or an ERROR that
\* reconnect-error matches starts the row anew (EventLoop.hs:268,
\* EventLoop/Network.hs:72).  A server that answers every connection with such
\* an ERROR is reconnected for ever.
RetriesBounded == \A n \in Networks : inARow[n] =< ReconnectAttempts + 1

\* A connection that ended, by itself or by a ping timeout, does not keep its
\* network's name: its last event is handled.
FailureNoticed ==
  \A n \in Networks, c \in Conns :
    conn[n] = c /\ thread[c] = "ended" ~> conn[n] # c

\* Even when stale events reach a connection made by an STS upgrade, no line
\* read from a plaintext connection is applied to a session on a TLS one.
TlsSessionPure ==
  \A n \in Networks :
    Handling(n, LineEvents) /\ conn[n] # None /\ mode[conn[n]] = "yes"
      /\ mode[source[n]] = "no"
      => connecting[conn[n]] /\ restricted[conn[n]]

(***************************************************************************)
(* What docs and comments say of the program, refuted by the code.         *)
(***************************************************************************)

\* reconnect-attempts is the "number of reconnections to attempt on error"
\* (README.md:213).
AttemptsAsConfigured == \A n \in Networks : inARow[n] =< ReconnectAttempts

\* removeNetwork "assumes that the network connection exists and should only
\* be applied once per connection": what a final event removes is the
\* connection that ended.
RemovesWhatEnded ==
  \A n \in Networks : Handling(n, Finals) /\ conn[n] # None =>
                        thread[conn[n]] = "reported"

\* StartTLSFailed: "STARTTLS was expected by server had an error", so the line
\* that makes the event loop abort comes from the connection it aborts.
RestrictedLineIsOwn ==
  \A n \in Networks :
    Handling(n, LineEvents) /\ conn[n] # None
      /\ connecting[conn[n]] /\ restricted[conn[n]] => source[n] = conn[n]
=============================================================================
