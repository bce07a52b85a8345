-------------------------- MODULE EventLoopProofs ---------------------------
(***************************************************************************)
(* Theorems about EventLoop for every set of networks and connections,     *)
(* every bound and every number of reconnection attempts.                  *)
(***************************************************************************)
EXTENDS EventLoop, SequenceTheorems, TLAPS

(***************************************************************************)
(* Type correctness.                                                       *)
(***************************************************************************)

\* What addConnection stores for the new connection has its type.
LEMMA AddConnectionType ==
  ASSUME TypeOK, NEW n \in Networks, NEW th, NEW tries \in Nat,
         NEW upgrade \in BOOLEAN, NEW otherwise \in Conns \cup {None},
         th \in [Conns -> {"free", "run", "ended", "reported"}],
         AddConnection(n, th, tries, upgrade, otherwise)
  PROVE  /\ conn' \in [Networks -> Conns \cup {None}]
         /\ thread' \in [Conns -> {"free", "run", "ended", "reported"}]
         /\ mode' \in [Conns -> {"no", "yes"}]
         /\ stage' \in [Conns -> {"connecting", "open", "secured"}]
         /\ queue' \in [Conns -> Seq(Events)]
         /\ attempts' \in [Conns -> Nat]
         /\ connecting' \in [Conns -> BOOLEAN]
         /\ restricted' \in [Conns -> BOOLEAN]
<1>1. CASE /\ conn' = [conn EXCEPT ![n] = otherwise]
           /\ thread' = th
           /\ UNCHANGED <<mode, stage, attempts, connecting, restricted, queue>>
  BY <1>1 DEF TypeOK
<1>2. ASSUME NEW c \in Conns,
             conn' = [conn EXCEPT ![n] = c],
             thread' = [th EXCEPT ![c] = "run"],
             mode' = [mode EXCEPT ![c] =
                        IF upgrade \/ n \in Secure \/ policy[n] THEN "yes" ELSE "no"],
             stage' = [stage EXCEPT ![c] = "connecting"],
             queue' = [queue EXCEPT ![c] = << >>],
             attempts' = [attempts EXCEPT ![c] = tries],
             connecting' = [connecting EXCEPT ![c] = TRUE],
             restricted' = [restricted EXCEPT ![c] =
                              TlsRestriction(n, upgrade \/ n \in Secure \/ policy[n])]
      PROVE  /\ conn' \in [Networks -> Conns \cup {None}]
             /\ thread' \in [Conns -> {"free", "run", "ended", "reported"}]
             /\ mode' \in [Conns -> {"no", "yes"}]
             /\ stage' \in [Conns -> {"connecting", "open", "secured"}]
             /\ queue' \in [Conns -> Seq(Events)]
             /\ attempts' \in [Conns -> Nat]
             /\ connecting' \in [Conns -> BOOLEAN]
             /\ restricted' \in [Conns -> BOOLEAN]
  <2>1. conn' \in [Networks -> Conns \cup {None}]
    BY <1>2 DEF TypeOK
  <2>2. /\ thread' \in [Conns -> {"free", "run", "ended", "reported"}]
        /\ mode' \in [Conns -> {"no", "yes"}]
        /\ stage' \in [Conns -> {"connecting", "open", "secured"}]
    BY <1>2 DEF TypeOK
  <2>3. queue' \in [Conns -> Seq(Events)]
    <3>1. << >> \in Seq(Events)
      OBVIOUS
    <3>2. QED
      BY <1>2, <3>1 DEF TypeOK
  <2>4. attempts' \in [Conns -> Nat] /\ connecting' \in [Conns -> BOOLEAN]
    BY <1>2 DEF TypeOK
  <2>5. restricted' \in [Conns -> BOOLEAN]
    <3>1. TlsRestriction(n, upgrade \/ n \in Secure \/ policy[n]) \in BOOLEAN
      BY Zenon DEF TlsRestriction
    <3>2. QED
      BY <1>2, <3>1 DEF TypeOK
  <2>6. QED
    BY <2>1, <2>2, <2>3, <2>4, <2>5
<1>3. QED
  BY <1>1, <1>2 DEF AddConnection

\* abortConnection leaves thread functions of their type.
LEMMA KilledType ==
  ASSUME TypeOK, NEW c, NEW why \in Finals
  PROVE  /\ Killed(c) \in [Conns -> {"free", "run", "ended", "reported"}]
         /\ Why(c, why) \in [Conns -> Finals]
BY DEF Killed, Why, TypeOK

\* Writing an event keeps the queues sequences of events.
LEMMA PutType ==
  ASSUME TypeOK, NEW c \in Conns, NEW e \in Events, Put(c, e)
  PROVE  queue' \in [Conns -> Seq(Events)]
<1>1. Append(queue[c], e) \in Seq(Events)
  BY DEF TypeOK
<1>2. QED
  BY <1>1 DEF Put, TypeOK

\* Going on to the next event of the batch keeps the batch's type.
LEMMA AdvanceType ==
  ASSUME TypeOK, NEW n \in Networks, batch[n] # << >>, Advance(n)
  PROVE  /\ batch' \in [Networks -> Seq(Events)]
         /\ source' \in [Networks -> Conns \cup {None}]
         /\ turn' \in Networks \cup {None}
<1>1. Tail(batch[n]) \in Seq(Events)
  BY DEF TypeOK
<1>2. QED
  BY <1>1 DEF Advance, TypeOK

\* A row that starts anew.
LEMMA RowType ==
  ASSUME TypeOK, NEW n \in Networks, CountAnew(n)
  PROVE  inARow' \in [Networks -> Nat]
BY DEF CountAnew, TypeOK

\* /connect, /reconnect and /disconnect, from the keyboard or a connect-cmd.
LEMMA CommandType ==
  ASSUME TypeOK, NEW n \in Networks, Reconnect(n) \/ Disconnect(n)
  PROVE  /\ conn' \in [Networks -> Conns \cup {None}]
         /\ thread' \in [Conns -> {"free", "run", "ended", "reported"}]
         /\ reason' \in [Conns -> Finals]
         /\ mode' \in [Conns -> {"no", "yes"}]
         /\ stage' \in [Conns -> {"connecting", "open", "secured"}]
         /\ queue' \in [Conns -> Seq(Events)]
         /\ attempts' \in [Conns -> Nat]
         /\ connecting' \in [Conns -> BOOLEAN]
         /\ restricted' \in [Conns -> BOOLEAN]
         /\ inARow' \in [Networks -> Nat]
<1>1. "fatal" \in Finals
  BY DEF Finals
<1>2. /\ Killed(conn[n]) \in [Conns -> {"free", "run", "ended", "reported"}]
      /\ Why(conn[n], "fatal") \in [Conns -> Finals]
  BY <1>1, KilledType
<1>3. CASE Reconnect(n)
  <2>1. AddConnection(n, Killed(conn[n]), 0, FALSE, None)
    BY <1>3 DEF Reconnect
  <2>2. reason' \in [Conns -> Finals]
    BY <1>2, <1>3 DEF Reconnect
  <2>3. inARow' \in [Networks -> Nat]
    BY <1>3, RowType DEF Reconnect
  <2>4. QED
    BY <1>2, <2>1, <2>2, <2>3, AddConnectionType
<1>4. CASE Disconnect(n)
  BY <1>2, <1>4 DEF Disconnect, TypeOK, netVars
<1>5. QED
  BY <1>3, <1>4

\* Every handler, command and thread step keeps every variable in its type,
\* the reuse of connection identifiers included.
LEMMA TypeStep == TypeOK /\ [Next]_vars => TypeOK'
<1> SUFFICES ASSUME TypeOK, [Next]_vars PROVE TypeOK'
  OBVIOUS
<1>1. ASSUME NEW c \in Conns, Thread(c) PROVE TypeOK'
  <2>1. CASE ThreadOpen(c)
    <3>1. queue' \in [Conns -> Seq(Events)]
      BY <2>1, PutType DEF ThreadOpen, Events
    <3>2. QED
      BY <2>1, <3>1 DEF ThreadOpen, TypeOK, netVars, loopVars
  <2>2. CASE ThreadTLS(c)
    <3>1. queue' \in [Conns -> Seq(Events)]
      BY <2>2, PutType DEF ThreadTLS, Events
    <3>2. QED
      BY <2>2, <3>1 DEF ThreadTLS, TypeOK, netVars, loopVars
  <2>3. ASSUME NEW e \in Sends, ThreadLine(c, e) PROVE TypeOK'
    <3>1. queue' \in [Conns -> Seq(Events)]
      BY <2>3, PutType, SendsAssumption DEF ThreadLine, Events
    <3>2. QED
      BY <2>3, <3>1 DEF ThreadLine, TypeOK, netVars, loopVars
  <2>4. ASSUME NEW why \in Finals, ThreadEnds(c, why) PROVE TypeOK'
    BY <2>4 DEF ThreadEnds, TypeOK, netVars, loopVars
  <2>5. CASE Report(c)
    <3>1. reason[c] \in Events
      BY DEF TypeOK, Events
    <3>2. queue' \in [Conns -> Seq(Events)]
      BY <2>5, <3>1, PutType DEF Report
    <3>3. QED
      BY <2>5, <3>2 DEF Report, TypeOK, netVars, loopVars
  <2>6. CASE Collect(c)
    <3>1. << >> \in Seq(Events)
      OBVIOUS
    <3>2. QED
      BY <2>6, <3>1 DEF Collect, TypeOK, Finals, loopVars
  <2>7. QED
    BY <1>1, <2>1, <2>2, <2>3, <2>4, <2>5, <2>6 DEF Thread
<1>2. ASSUME NEW n \in Networks, User(n) PROVE TypeOK'
  <2>1. Reconnect(n) \/ Disconnect(n)
    BY <1>2 DEF User, UserConnects, UserDisconnects
  <2>2. UNCHANGED <<policy, loopVars, crashed>>
    BY <1>2 DEF User, UserConnects, UserDisconnects
  <2>3. QED
    BY <2>1, <2>2, CommandType DEF TypeOK, loopVars
<1>3. ASSUME NEW n \in Networks, PingTimesOut(n) PROVE TypeOK'
  <2>1. /\ thread' \in [Conns -> {"free", "run", "ended", "reported"}]
        /\ reason' \in [Conns -> Finals]
    BY <1>3, KilledType DEF PingTimesOut, Finals
  <2>2. QED
    BY <1>3, <2>1 DEF PingTimesOut, TypeOK, netVars, loopVars
<1>4. ASSUME NEW n \in Networks, PolicyExpires(n) PROVE TypeOK'
  BY <1>4 DEF PolicyExpires, TypeOK, netVars, loopVars
<1>5. ASSUME NEW n \in Networks, Handle(n) PROVE TypeOK'
  <2>1. CASE NetworkMissing(n)
    BY <2>1 DEF NetworkMissing, TypeOK, netVars, loopVars
  <2>2. CASE DoNetworkOpen(n)
    BY <2>2, AdvanceType DEF DoNetworkOpen, Handling, TypeOK, netVars
  <2>3. CASE DoNetworkTLS(n)
    <3>1. restricted' \in [Conns -> BOOLEAN]
      BY <2>3 DEF DoNetworkTLS, TypeOK
    <3>2. QED
      BY <2>3, <3>1, AdvanceType DEF DoNetworkTLS, Handling, TypeOK
  <2>4. CASE DoNetworkClose(n)
    BY <2>4, AdvanceType DEF DoNetworkClose, Handling, TypeOK, netVars
  <2>5. CASE DoNetworkError(n)
    <3>1. CASE /\ AddConnection(n, thread, Retry(conn[n]), FALSE, None)
               /\ inARow' = [inARow EXCEPT ![n] = IF conn'[n] = None THEN @ ELSE @ + 1]
      <4>1. Retry(conn[n]) \in Nat
        BY <2>5 DEF Retry, TypeOK, DoNetworkError
      <4>2. thread \in [Conns -> {"free", "run", "ended", "reported"}]
        BY DEF TypeOK
      <4>3. inARow' \in [Networks -> Nat]
        BY <3>1 DEF TypeOK
      <4>4. QED
        BY <2>5, <3>1, <4>1, <4>2, <4>3, AdvanceType, AddConnectionType
          DEF DoNetworkError, Handling, TypeOK
    <3>2. CASE /\ conn' = [conn EXCEPT ![n] = None]
               /\ UNCHANGED <<thread, mode, stage, queue, netVars>>
      BY <2>5, <3>2, AdvanceType
        DEF DoNetworkError, Handling, TypeOK, netVars
    <3>3. QED
      BY <2>5, <3>1, <3>2 DEF DoNetworkError
  <2>6. CASE LineRestricted(n)
    <3>1. /\ thread' \in [Conns -> {"free", "run", "ended", "reported"}]
          /\ reason' \in [Conns -> Finals]
      BY <2>6, KilledType DEF LineRestricted, Finals
    <3>2. QED
      BY <2>6, <3>1, AdvanceType DEF LineRestricted, Handling, TypeOK, netVars
  <2>7. CASE DoPlainLine(n)
    BY <2>7, AdvanceType DEF DoPlainLine, Applies, Handling, TypeOK, netVars
  <2>8. CASE DoWelcome(n)
    BY <2>8, AdvanceType, RowType DEF DoWelcome, Applies, Handling, TypeOK
  <2>9. CASE DoWelcomeConnectCmd(n)
    <3>1. Reconnect(n) \/ Disconnect(n)
      BY <2>9 DEF DoWelcomeConnectCmd
    <3>2. QED
      BY <2>9, <3>1, AdvanceType, CommandType
        DEF DoWelcomeConnectCmd, Applies, Handling, TypeOK
  <2>10. CASE DoSts(n)
    <3>1. CASE /\ AddConnection(n, Killed(conn[n]), 0, TRUE, conn[n])
               /\ CountAnew(n)
               /\ reason' = Why(conn[n], "fatal") /\ UNCHANGED policy
      <4>1. /\ Killed(conn[n]) \in [Conns -> {"free", "run", "ended", "reported"}]
            /\ reason' \in [Conns -> Finals]
        BY <3>1, KilledType DEF Finals
      <4>2. conn[n] \in Conns \cup {None}
        BY DEF TypeOK
      <4>3. QED
        BY <2>10, <3>1, <4>1, <4>2, AdvanceType, AddConnectionType, RowType
          DEF DoSts, Applies, Handling, TypeOK
    <3>2. CASE /\ policy' = [policy EXCEPT ![n] = @ \/ "sts" \in Features]
               /\ UNCHANGED <<conn, thread, reason, mode, stage, queue, netVars>>
      <4>1. policy' \in [Networks -> BOOLEAN]
        <5>1. (policy[n] \/ "sts" \in Features) \in BOOLEAN
          BY Zenon
        <5>2. QED
          BY <3>2, <5>1 DEF TypeOK
      <4>2. QED
        BY <2>10, <3>2, <4>1, AdvanceType
          DEF DoSts, Applies, Handling, TypeOK, netVars
    <3>3. QED
      BY <2>10, <3>1, <3>2 DEF DoSts
  <2>11. CASE DoReconnectError(n)
    <3>1. /\ thread \in [Conns -> {"free", "run", "ended", "reported"}]
          /\ conn[n] \in Conns \cup {None}
      BY DEF TypeOK
    <3>2. QED
      BY <2>11, <3>1, AdvanceType, AddConnectionType, RowType
        DEF DoReconnectError, Applies, Handling, TypeOK
  <2>12. QED
    BY <1>5, <2>1, <2>2, <2>3, <2>4, <2>5, <2>6, <2>7, <2>8, <2>9, <2>10,
       <2>11 DEF Handle
<1>6. CASE GetNetworkEvents
  <2>1. \A n \in Networks : Pending(n) \in Seq(Events)
    BY DEF Pending, TypeOK
  <2>2. \A c \in Conns : queue[c] \in Seq(Events) /\ << >> \in Seq(Events)
    BY DEF TypeOK
  <2>3. QED
    BY <1>6, <2>1, <2>2 DEF GetNetworkEvents, TypeOK, netVars
<1>7. CASE UNCHANGED vars
  BY <1>7 DEF TypeOK, vars, netVars, loopVars
<1>8. QED
  BY <1>1, <1>2, <1>3, <1>4, <1>5, <1>6, <1>7 DEF Next

\* The variables of the event loop and of its connections keep their types.
THEOREM TypeCorrect == Spec => []TypeOK
<1>1. Init => TypeOK
  <2> SUFFICES ASSUME Init PROVE TypeOK
    OBVIOUS
  <2>1. << >> \in Seq(Events)
    OBVIOUS
  <2>2. queue \in [Conns -> Seq(Events)] /\ batch \in [Networks -> Seq(Events)]
    BY <2>1 DEF Init
  <2>3. QED
    BY <2>2 DEF Init, TypeOK, Finals
<1>2. QED
  BY <1>1, TypeStep, PTL DEF Spec

(***************************************************************************)
(* Events are handled for the connection that produced them.  Holds when   *)
(* no handler of a line replaces or removes the connection its batch came  *)
(* from, that is without the features of Features.                         *)
(***************************************************************************)
NoFinal(q)   == \A i \in 1 .. Len(q) : q[i] \notin Finals
FinalLast(q) == \A i \in 1 .. Len(q) : q[i] \in Finals => i = Len(q)

\* The map is one-to-one onto connections in use.
MapInv ==
  /\ \A m, n \in Networks : conn[m] # None /\ conn[m] = conn[n] => m = n
  /\ \A n \in Networks : conn[n] # None => thread[conn[n]] # "free"

\* A final event is the last one its connection writes.
QueueInv ==
  \A c \in Conns : /\ FinalLast(queue[c])
                   /\ NoFinal(queue[c]) \/ thread[c] = "reported"

\* So a batch ends with it, and nothing is left in that connection's queue.
BatchInv ==
  \A n \in Networks : batch[n] # << >> =>
    /\ conn[n] # None /\ conn[n] = source[n]
    /\ FinalLast(batch[n])
    /\ \/ NoFinal(batch[n])
       \/ thread[conn[n]] = "reported" /\ queue[conn[n]] = << >>

\* Commands and timers find every batch handled.
TurnInv == turn = None => \A n \in Networks : batch[n] = << >>

Inv == TypeOK /\ MapInv /\ QueueInv /\ BatchInv /\ TurnInv /\ NoOrphan
         /\ NoMissingNetwork

Parts == MapInv /\ QueueInv /\ BatchInv /\ TurnInv /\ NoOrphan
           /\ NoMissingNetwork

\* The empty queue holds no final event.
LEMMA EmptyQueue == NoFinal(<< >>) /\ FinalLast(<< >>)
BY DEF NoFinal, FinalLast

\* Appending to a queue without a final event.
LEMMA AppendEvent ==
  ASSUME NEW q \in Seq(Events), NEW e \in Events, NoFinal(q)
  PROVE  /\ FinalLast(Append(q, e))
         /\ e \notin Finals => NoFinal(Append(q, e))
<1>1. /\ Len(Append(q, e)) = Len(q) + 1 /\ Len(q) \in Nat
      /\ \A i \in 1 .. Len(q) : Append(q, e)[i] = q[i]
      /\ Append(q, e)[Len(q) + 1] = e
  OBVIOUS
<1>2. QED
  BY <1>1 DEF NoFinal, FinalLast

\* Handling the first event of a batch that ends with its final event.
LEMMA TailEvents ==
  ASSUME NEW q \in Seq(Events), q # << >>, FinalLast(q)
  PROVE  /\ FinalLast(Tail(q))
         /\ NoFinal(q) => NoFinal(Tail(q))
         /\ Head(q) \in Finals => Tail(q) = << >>
<1>1. /\ Len(q) \in Nat \ {0} /\ Head(q) = q[1]
      /\ Tail(q) \in Seq(Events) /\ Len(Tail(q)) = Len(q) - 1
      /\ \A i \in 1 .. Len(Tail(q)) : Tail(q)[i] = q[i + 1]
  BY EmptySeq, HeadTailProperties
<1>2. FinalLast(Tail(q))
  <2> SUFFICES ASSUME NEW i \in 1 .. Len(Tail(q)), Tail(q)[i] \in Finals
               PROVE  i = Len(Tail(q))
    BY DEF FinalLast
  <2>1. i + 1 \in 1 .. Len(q) /\ q[i + 1] \in Finals
    BY <1>1
  <2>2. i + 1 = Len(q)
    BY <2>1 DEF FinalLast
  <2>3. Len(Tail(q)) = Len(q) - 1 /\ i \in Nat /\ Len(q) \in Nat
    BY <1>1
  <2>4. QED
    BY <2>2, <2>3
<1>3. NoFinal(q) => NoFinal(Tail(q))
  BY <1>1 DEF NoFinal
<1>4. Head(q) \in Finals => Tail(q) = << >>
  <2>1. Head(q) \in Finals => Len(Tail(q)) = 0
    <3>1. 1 \in 1 .. Len(q)
      BY <1>1
    <3>2. q[1] \in Finals => 1 = Len(q)
      BY <3>1 DEF FinalLast
    <3>3. QED
      BY <1>1, <3>2
  <2>2. QED
    BY <1>1, <2>1, EmptySeq
<1>5. QED
  BY <1>2, <1>3, <1>4

\* The turn passes on until no network has an event left.
LEMMA AdvanceTurn ==
  ASSUME TypeOK, NEW n \in Networks, Advance(n)
  PROVE  TurnInv'
<1> DEFINE left == {m \in Networks : batch'[m] # << >>}
<1>1. turn' \in IF batch'[n] # << >> THEN {n} ELSE IF left = {} THEN {None} ELSE left
  BY DEF Advance
<1>2. None \notin left /\ n # None
  BY NoneAssumption
<1>3. turn' = None => left = {}
  BY <1>1, <1>2
<1>4. QED
  BY <1>3 DEF TurnInv

\* A handler that leaves the map and the queues alone and at most aborts the
\* connection.
LEMMA AdvanceOnly ==
  ASSUME Inv, NEW n \in Networks, batch[n] # << >>, Advance(n),
         UNCHANGED <<conn, queue, crashed>>,
         thread' = thread \/ thread' = Killed(conn[n])
  PROVE  Parts'
<1>0. \A c \in Conns : \/ thread'[c] = thread[c]
                       \/ thread[c] = "run" /\ thread'[c] = "ended"
  BY DEF Killed, Alive, Inv, TypeOK
<1>1. MapInv' /\ QueueInv' /\ NoOrphan' /\ NoMissingNetwork'
  <2>1. MapInv'
    BY <1>0 DEF Inv, MapInv, TypeOK
  <2>2. QueueInv'
    <3> SUFFICES ASSUME NEW d \in Conns
                 PROVE  /\ FinalLast(queue'[d])
                        /\ NoFinal(queue'[d]) \/ thread'[d] = "reported"
      BY DEF QueueInv, FinalLast, NoFinal
    <3>1. QED
      BY <1>0 DEF Inv, QueueInv
  <2>3. NoOrphan' /\ NoMissingNetwork'
    BY <1>0 DEF Inv, NoOrphan, NoMissingNetwork
  <2>4. QED
    BY <2>1, <2>2, <2>3
<1>2. BatchInv'
  <2>1. /\ batch[n] \in Seq(Events) /\ FinalLast(batch[n])
        /\ conn[n] # None /\ conn[n] = source[n]
        /\ \/ NoFinal(batch[n])
           \/ thread[conn[n]] = "reported" /\ queue[conn[n]] = << >>
    BY DEF Inv, TypeOK, BatchInv
  <2>2. FinalLast(Tail(batch[n])) /\ (NoFinal(batch[n]) => NoFinal(Tail(batch[n])))
    BY <2>1, TailEvents
  <2>3. /\ batch' = [batch EXCEPT ![n] = Tail(batch[n])]
        /\ batch' \in [Networks -> Seq(Events)]
        /\ source' = [source EXCEPT ![n] =
                        IF batch'[n] # << >> THEN source[n] ELSE None]
    BY AdvanceType DEF Advance, Inv, TypeOK
  <2>4. ASSUME NEW m \in Networks, batch'[m] # << >>
        PROVE  /\ conn'[m] # None /\ conn'[m] = source'[m]
               /\ FinalLast(batch'[m])
               /\ \/ NoFinal(batch'[m])
                  \/ thread'[conn'[m]] = "reported" /\ queue'[conn'[m]] = << >>
    <3>1. CASE m = n
      BY <1>0, <2>1, <2>2, <2>3, <2>4, <3>1 DEF Inv, TypeOK
    <3>2. CASE m # n
      <4>1. batch'[m] = batch[m] /\ source'[m] = source[m]
        BY <2>3, <3>2 DEF Inv, TypeOK
      <4>2. /\ conn[m] # None /\ conn[m] = source[m] /\ FinalLast(batch[m])
            /\ \/ NoFinal(batch[m])
               \/ thread[conn[m]] = "reported" /\ queue[conn[m]] = << >>
        BY <2>4, <4>1 DEF Inv, BatchInv
      <4>3. thread[conn[m]] = "reported" => thread'[conn[m]] = "reported"
        BY <1>0, <4>2 DEF Inv, TypeOK
      <4> QED
        BY <4>1, <4>2, <4>3
    <3>3. QED
      BY <3>1, <3>2
  <2>5. QED
    BY <2>4 DEF BatchInv, NoFinal, FinalLast
<1>3. TurnInv'
  BY AdvanceTurn DEF Inv
<1>4. QED
  BY <1>1, <1>2, <1>3 DEF Parts

\* A thread writes an event that is not its last.
LEMMA WriteInv ==
  ASSUME Inv, NEW c \in Conns, NEW e \in Events \ Finals, thread[c] = "run",
         Put(c, e), UNCHANGED <<conn, thread, loopVars, crashed>>
  PROVE  Parts'
<1>1. /\ queue[c] \in Seq(Events) /\ NoFinal(queue[c])
      /\ queue' = [queue EXCEPT ![c] = Append(queue[c], e)]
  BY DEF Inv, TypeOK, QueueInv, Put
<1>2. FinalLast(Append(queue[c], e)) /\ NoFinal(Append(queue[c], e))
  BY <1>1, AppendEvent
<1>3. \A d \in Conns : queue'[d] = IF d = c THEN Append(queue[c], e) ELSE queue[d]
  BY <1>1 DEF Inv, TypeOK
<1>4. QueueInv'
  <2> SUFFICES ASSUME NEW d \in Conns
               PROVE  /\ FinalLast(queue'[d])
                      /\ NoFinal(queue'[d]) \/ thread'[d] = "reported"
    BY DEF QueueInv, FinalLast, NoFinal
  <2>1. QED
    BY <1>2, <1>3 DEF Inv, QueueInv
<1>5. BatchInv'
  <2> SUFFICES ASSUME NEW m \in Networks, batch[m] # << >>
               PROVE  /\ conn[m] # None /\ conn[m] = source[m]
                      /\ FinalLast(batch[m])
                      /\ \/ NoFinal(batch[m])
                         \/ thread[conn[m]] = "reported" /\ queue'[conn[m]] = << >>
    BY DEF BatchInv, FinalLast, NoFinal, loopVars
  <2>1. QED
    BY <1>3 DEF Inv, BatchInv, TypeOK
<1>6. MapInv' /\ TurnInv' /\ NoOrphan' /\ NoMissingNetwork'
  BY DEF Inv, MapInv, TurnInv, NoOrphan, NoMissingNetwork, loopVars
<1>7. QED
  BY <1>4, <1>5, <1>6 DEF Parts

\* A connection's threads change state while the map and the batch rest.
LEMMA ThreadInv ==
  ASSUME Inv, NEW c \in Conns, NEW q \in Seq(Events), NEW t,
         t \in {"free", "ended", "reported"},
         thread' = [thread EXCEPT ![c] = t], queue' = [queue EXCEPT ![c] = q],
         FinalLast(q), NoFinal(q) \/ t = "reported",
         thread[c] = "reported" =>
           \A n \in Networks : conn[n] # c /\ (batch[n] # << >> => source[n] # c),
         thread[c] # "reported" => t # "free",
         UNCHANGED <<conn, loopVars, crashed>>
  PROVE  Parts'
<1>1. \A d \in Conns : /\ queue'[d] = IF d = c THEN q ELSE queue[d]
                       /\ thread'[d] = IF d = c THEN t ELSE thread[d]
  BY DEF Inv, TypeOK
<1>2. QueueInv'
  <2> SUFFICES ASSUME NEW d \in Conns
               PROVE  /\ FinalLast(queue'[d])
                      /\ NoFinal(queue'[d]) \/ thread'[d] = "reported"
    BY DEF QueueInv, FinalLast, NoFinal
  <2>1. QED
    BY <1>1 DEF Inv, QueueInv
<1>3. BatchInv'
  <2> SUFFICES ASSUME NEW m \in Networks, batch[m] # << >>
               PROVE  /\ conn[m] # None /\ conn[m] = source[m]
                      /\ FinalLast(batch[m])
                      /\ \/ NoFinal(batch[m])
                         \/ thread'[conn[m]] = "reported" /\ queue'[conn[m]] = << >>
    BY DEF BatchInv, FinalLast, NoFinal, loopVars
  <2>1. QED
    BY <1>1 DEF Inv, BatchInv, TypeOK
<1>4. MapInv'
  BY <1>1 DEF Inv, MapInv, TypeOK
<1>5. TurnInv' /\ NoOrphan' /\ NoMissingNetwork'
  BY <1>1 DEF Inv, TurnInv, NoOrphan, NoMissingNetwork, loopVars
<1>6. QED
  BY <1>2, <1>3, <1>4, <1>5 DEF Parts

\* abortConnection on the mapped connection, as the thread functions see it.
Stopped(n, th) ==
  /\ th \in [Conns -> {"free", "run", "ended", "reported"}]
  /\ \A c \in Conns : \/ th[c] = thread[c]
                      \/ c = conn[n] /\ thread[c] = "run" /\ th[c] = "ended"
  /\ conn[n] # None => th[conn[n]] # "run"

\* What abortConnection does to the threads stops the mapped connection.
LEMMA KilledStopped ==
  ASSUME TypeOK, NEW n \in Networks
  PROVE  Stopped(n, Killed(conn[n]))
BY DEF Stopped, Killed, Alive, TypeOK

\* The network's entry, whose batch is handled, is removed or replaced.
LEMMA ReplaceInv ==
  ASSUME Inv, NEW n \in Networks, NEW th, Stopped(n, th), batch'[n] = << >>,
         \A m \in Networks \ {n} : batch'[m] = batch[m] /\ source'[m] = source[m],
         \/ /\ conn' = [conn EXCEPT ![n] = None]
            /\ thread' = th /\ queue' = queue
         \/ \E c \in Conns : /\ thread[c] = "free"
                             /\ conn' = [conn EXCEPT ![n] = c]
                             /\ thread' = [th EXCEPT ![c] = "run"]
                             /\ queue' = [queue EXCEPT ![c] = << >>]
  PROVE  MapInv' /\ QueueInv' /\ BatchInv' /\ NoOrphan'
<1>1. CASE /\ conn' = [conn EXCEPT ![n] = None]
           /\ thread' = th /\ queue' = queue
  <2>1. MapInv'
    <3>1. \A m \in Networks : conn'[m] = IF m = n THEN None ELSE conn[m]
      BY <1>1 DEF Inv, TypeOK
    <3>2. \A m \in Networks : conn[m] # None =>
                               conn[m] \in Conns /\ thread'[conn[m]] # "free"
      BY <1>1 DEF Inv, MapInv, Stopped, TypeOK
    <3>3. QED
      BY <3>1, <3>2 DEF Inv, MapInv
  <2>2. NoOrphan'
    <3> SUFFICES ASSUME NEW c \in Conns, thread'[c] = "run"
                 PROVE  \E m \in Networks : conn'[m] = c
      BY DEF NoOrphan
    <3>1. thread[c] = "run" /\ conn[n] # c
      BY <1>1, NoneAssumption DEF Stopped
    <3>2. PICK m \in Networks : conn[m] = c
      BY <3>1 DEF Inv, NoOrphan
    <3>3. QED
      BY <1>1, <3>1, <3>2 DEF Inv, TypeOK
  <2>3. QueueInv'
    <3> SUFFICES ASSUME NEW d \in Conns
                 PROVE  /\ FinalLast(queue'[d])
                        /\ NoFinal(queue'[d]) \/ thread'[d] = "reported"
      BY DEF QueueInv, FinalLast, NoFinal
    <3>1. QED
      BY <1>1 DEF Inv, QueueInv, Stopped
  <2>4. BatchInv'
    <3> SUFFICES ASSUME NEW m \in Networks, batch'[m] # << >>
                 PROVE  /\ conn'[m] # None /\ conn'[m] = source'[m]
                        /\ FinalLast(batch'[m])
                        /\ \/ NoFinal(batch'[m])
                           \/ thread'[conn'[m]] = "reported" /\ queue'[conn'[m]] = << >>
      BY DEF BatchInv, FinalLast, NoFinal
    <3>1. m # n /\ conn'[m] = conn[m]
      BY <1>1 DEF Inv, TypeOK
    <3>2. QED
      BY <1>1, <3>1 DEF Inv, BatchInv, Stopped, TypeOK
  <2>5. QED
    BY <2>1, <2>2, <2>3, <2>4
<1>2. ASSUME NEW c \in Conns, thread[c] = "free",
             conn' = [conn EXCEPT ![n] = c],
             thread' = [th EXCEPT ![c] = "run"],
             queue' = [queue EXCEPT ![c] = << >>]
      PROVE  MapInv' /\ QueueInv' /\ BatchInv' /\ NoOrphan'
  <2>1. \A m \in Networks : conn[m] # c
    BY <1>2, NoneAssumption DEF Inv, MapInv
  <2>2. /\ \A m \in Networks : conn'[m] = IF m = n THEN c ELSE conn[m]
        /\ \A d \in Conns : thread'[d] = IF d = c THEN "run" ELSE th[d]
        /\ \A d \in Conns : queue'[d] = IF d = c THEN << >> ELSE queue[d]
    BY <1>2 DEF Inv, TypeOK, Stopped
  <2>3. MapInv'
    <3>1. \A m \in Networks \ {n} : conn[m] # None =>
            conn[m] \in Conns \ {c} /\ th[conn[m]] # "free"
      BY <2>1 DEF Inv, MapInv, Stopped, TypeOK
    <3>2. \A m \in Networks : conn'[m] # None => thread'[conn'[m]] # "free"
      BY <2>2, <3>1
    <3>3. \A l, m \in Networks : conn'[m] # None /\ conn'[m] = conn'[l] => m = l
      BY <2>1, <2>2 DEF Inv, MapInv
    <3>4. QED
      BY <3>2, <3>3 DEF MapInv
  <2>4. NoOrphan'
    <3> SUFFICES ASSUME NEW d \in Conns, d # c, thread'[d] = "run"
                 PROVE  \E m \in Networks : conn'[m] = d
      BY <2>2 DEF NoOrphan
    <3>1. thread[d] = "run" /\ conn[n] # d
      BY <2>2, NoneAssumption DEF Stopped
    <3>2. PICK m \in Networks : conn[m] = d
      BY <3>1 DEF Inv, NoOrphan
    <3>3. QED
      BY <2>2, <3>1, <3>2
  <2>5. QueueInv'
    <3> SUFFICES ASSUME NEW d \in Conns
                 PROVE  /\ FinalLast(queue'[d])
                        /\ NoFinal(queue'[d]) \/ thread'[d] = "reported"
      BY DEF QueueInv, FinalLast, NoFinal
    <3>1. QED
      BY <2>2, EmptyQueue DEF Inv, QueueInv, Stopped
  <2>6. BatchInv'
    <3> SUFFICES ASSUME NEW m \in Networks, batch'[m] # << >>
                 PROVE  /\ conn'[m] # None /\ conn'[m] = source'[m]
                        /\ FinalLast(batch'[m])
                        /\ \/ NoFinal(batch'[m])
                           \/ thread'[conn'[m]] = "reported" /\ queue'[conn'[m]] = << >>
      BY DEF BatchInv, FinalLast, NoFinal
    <3>1. m # n /\ conn'[m] = conn[m] /\ conn[m] # c
      BY <2>1, <2>2
    <3>2. /\ conn[m] # None /\ conn[m] = source[m] /\ FinalLast(batch[m])
          /\ \/ NoFinal(batch[m])
             \/ thread[conn[m]] = "reported" /\ queue[conn[m]] = << >>
      BY <3>1 DEF Inv, BatchInv
    <3>3. QED
      BY <2>2, <3>1, <3>2 DEF Inv, Stopped, TypeOK
  <2>7. QED
    BY <2>3, <2>4, <2>5, <2>6
<1>3. QED
  BY <1>1, <1>2

\* The threads of a connection preserve the invariant.
LEMMA ThreadStep ==
  ASSUME Inv, NEW c \in Conns, Thread(c)
  PROVE  Parts'
<1>1. /\ queue[c] \in Seq(Events) /\ FinalLast(queue[c])
      /\ NoFinal(queue[c]) \/ thread[c] = "reported"
      /\ thread[c] \in {"free", "run", "ended", "reported"}
      /\ queue = [queue EXCEPT ![c] = queue[c]]
  BY DEF Inv, TypeOK, QueueInv
<1>2. CASE ThreadOpen(c) \/ ThreadTLS(c) \/ \E e \in Sends : ThreadLine(c, e)
  <2>1. PICK e \in Events \ Finals : Put(c, e)
    BY <1>2, SendsAssumption
      DEF ThreadOpen, ThreadTLS, ThreadLine, Events, Finals, LineEvents
  <2>2. thread[c] = "run" /\ UNCHANGED <<conn, thread, loopVars, crashed>>
    BY <1>2 DEF ThreadOpen, ThreadTLS, ThreadLine
  <2>3. QED
    BY <2>1, <2>2, WriteInv
<1>3. ASSUME NEW why \in Finals, ThreadEnds(c, why) PROVE Parts'
  BY <1>1, <1>3, ThreadInv DEF ThreadEnds
<1>4. CASE Report(c)
  <2>1. /\ thread[c] = "ended" /\ NoFinal(queue[c])
        /\ reason[c] \in Events
    BY <1>1, <1>4 DEF Report, Inv, TypeOK, Events
  <2>2. /\ Append(queue[c], reason[c]) \in Seq(Events)
        /\ FinalLast(Append(queue[c], reason[c]))
    BY <1>1, <2>1, AppendEvent
  <2>3. QED
    BY <1>4, <2>1, <2>2, ThreadInv DEF Report, Put
<1>5. CASE Collect(c)
  <2>1. << >> \in Seq(Events)
    OBVIOUS
  <2>2. QED
    BY <1>5, <2>1, EmptyQueue, ThreadInv DEF Collect
<1>6. QED
  BY <1>2, <1>3, <1>4, <1>5 DEF Thread

\* What addConnection makes of the map, the threads and the queues.
LEMMA AddConnectionEffect ==
  ASSUME NEW n \in Networks, NEW th, NEW tries, NEW upgrade,
         AddConnection(n, th, tries, upgrade, None)
  PROVE  \/ /\ conn' = [conn EXCEPT ![n] = None]
            /\ thread' = th /\ queue' = queue
         \/ \E c \in Conns : /\ thread[c] = "free"
                             /\ conn' = [conn EXCEPT ![n] = c]
                             /\ thread' = [th EXCEPT ![c] = "run"]
                             /\ queue' = [queue EXCEPT ![c] = << >>]
BY DEF AddConnection

\* Commands run between two batches, so they find no event of what they
\* replace or remove.
LEMMA UserStep ==
  ASSUME Inv, NEW n \in Networks, User(n)
  PROVE  Parts'
<1>1. turn = None /\ UNCHANGED <<policy, batch, source, turn, crashed>>
  BY DEF User, UserConnects, UserDisconnects, Idle, loopVars
<1>2. batch'[n] = << >>
  BY <1>1 DEF Inv, TurnInv
<1>3. Stopped(n, Killed(conn[n]))
  BY KilledStopped DEF Inv
<1>4. \/ AddConnection(n, Killed(conn[n]), 0, FALSE, None)
      \/ /\ conn' = [conn EXCEPT ![n] = None]
         /\ thread' = Killed(conn[n]) /\ queue' = queue
  BY DEF User, UserConnects, UserDisconnects, Reconnect, Disconnect
<1>5. MapInv' /\ QueueInv' /\ BatchInv' /\ NoOrphan'
  BY <1>1, <1>2, <1>3, <1>4, AddConnectionEffect, ReplaceInv
<1>6. TurnInv' /\ NoMissingNetwork'
  BY <1>1 DEF Inv, TurnInv, NoMissingNetwork
<1>7. QED
  BY <1>5, <1>6 DEF Parts

\* The ping timer aborts a connection, which stays in the map.
LEMMA PingStep ==
  ASSUME Inv, NEW n \in Networks, PingTimesOut(n)
  PROVE  Parts'
<1>1. /\ conn[n] \in Conns /\ thread[conn[n]] = "run"
      /\ thread' = [thread EXCEPT ![conn[n]] = "ended"]
      /\ UNCHANGED <<conn, queue, loopVars, crashed>>
  BY DEF PingTimesOut, Alive, Killed, Inv, TypeOK
<1>2. /\ queue[conn[n]] \in Seq(Events) /\ FinalLast(queue[conn[n]])
      /\ NoFinal(queue[conn[n]])
      /\ queue' = [queue EXCEPT ![conn[n]] = queue[conn[n]]]
  BY <1>1 DEF Inv, TypeOK, QueueInv
<1>3. QED
  BY <1>1, <1>2, ThreadInv

\* Flushing the queues: what was in a mapped connection's queue is now in its
\* network's batch.
LEMMA FlushStep ==
  ASSUME Inv, GetNetworkEvents
  PROVE  Parts'
<1>1. /\ batch' = [n \in Networks |-> Pending(n)]
      /\ source' = [n \in Networks |-> IF Pending(n) = << >> THEN None ELSE conn[n]]
      /\ queue' = [c \in Conns |->
                     IF \E n \in Networks : conn[n] = c THEN << >> ELSE queue[c]]
      /\ UNCHANGED <<conn, thread, crashed>>
  BY DEF GetNetworkEvents
<1>2. QueueInv'
  <2> SUFFICES ASSUME NEW d \in Conns
               PROVE  /\ FinalLast(queue'[d])
                      /\ NoFinal(queue'[d]) \/ thread'[d] = "reported"
    BY DEF QueueInv, FinalLast, NoFinal
  <2>1. QED
    BY <1>1, EmptyQueue DEF Inv, QueueInv
<1>3. BatchInv'
  <2> SUFFICES ASSUME NEW m \in Networks, batch'[m] # << >>
               PROVE  /\ conn'[m] # None /\ conn'[m] = source'[m]
                      /\ FinalLast(batch'[m])
                      /\ \/ NoFinal(batch'[m])
                         \/ thread'[conn'[m]] = "reported" /\ queue'[conn'[m]] = << >>
    BY DEF BatchInv, FinalLast, NoFinal
  <2>1. /\ conn[m] \in Conns /\ conn[m] # None /\ batch'[m] = queue[conn[m]]
        /\ source'[m] = conn[m]
    BY <1>1 DEF Pending, Inv, TypeOK
  <2>2. queue'[conn[m]] = << >>
    BY <1>1, <2>1
  <2>3. QED
    BY <1>1, <2>1, <2>2 DEF Inv, QueueInv
<1>4. TurnInv'
  BY NoneAssumption DEF GetNetworkEvents, TurnInv
<1>5. MapInv' /\ NoOrphan' /\ NoMissingNetwork'
  BY <1>1 DEF Inv, MapInv, NoOrphan, NoMissingNetwork
<1>6. QED
  BY <1>2, <1>3, <1>4, <1>5 DEF Parts

\* A final event of a batch comes from the mapped connection, is the last one
\* of the batch, and the network's entry is removed or replaced.
LEMMA FinalStep ==
  ASSUME Inv, NEW n \in Networks, DoNetworkClose(n) \/ DoNetworkError(n)
  PROVE  Parts'
<1>1. /\ batch[n] # << >> /\ Head(batch[n]) \in Finals /\ Advance(n)
      /\ crashed' = crashed
  BY DEF DoNetworkClose, DoNetworkError, Handling, Finals
<1>2. /\ batch[n] \in Seq(Events) /\ FinalLast(batch[n])
      /\ conn[n] \in Conns
      /\ NoFinal(batch[n]) \/ thread[conn[n]] = "reported"
  BY <1>1 DEF Inv, TypeOK, BatchInv
<1>3. Tail(batch[n]) = << >> /\ thread[conn[n]] = "reported"
  <2>1. ~NoFinal(batch[n])
    <3>1. Len(batch[n]) \in Nat \ {0} /\ Head(batch[n]) = batch[n][1]
      BY <1>1, <1>2, EmptySeq, HeadTailProperties
    <3>2. QED
      BY <1>1, <3>1 DEF NoFinal
  <2>2. QED
    BY <1>1, <1>2, <2>1, TailEvents
<1>4. Stopped(n, thread)
  BY <1>3 DEF Stopped, Inv, TypeOK
<1>5. /\ batch'[n] = << >>
      /\ \A m \in Networks \ {n} : batch'[m] = batch[m] /\ source'[m] = source[m]
  BY <1>1, <1>3 DEF Advance, Inv, TypeOK
<1>6. \/ AddConnection(n, thread, Retry(conn[n]), FALSE, None)
      \/ /\ conn' = [conn EXCEPT ![n] = None]
         /\ thread' = thread /\ queue' = queue
  BY DEF DoNetworkClose, DoNetworkError
<1>7. MapInv' /\ QueueInv' /\ BatchInv' /\ NoOrphan'
  BY <1>4, <1>5, <1>6, AddConnectionEffect, ReplaceInv
<1>8. TurnInv' /\ NoMissingNetwork'
  BY <1>1, AdvanceTurn DEF Inv, NoMissingNetwork
<1>9. QED
  BY <1>7, <1>8 DEF Parts

\* Without features, the events of the batch are handled one by one, and every
\* handler finds its network's entry.
LEMMA HandleStep ==
  ASSUME Inv, Features = {}, NEW n \in Networks, Handle(n)
  PROVE  Parts'
<1>1. batch[n] # << >> /\ conn[n] # None
  <2>1. batch[n] # << >>
    BY DEF Handle, NetworkMissing, DoNetworkOpen, DoNetworkTLS, DoNetworkClose,
           DoNetworkError, LineRestricted, DoPlainLine, DoWelcome,
           DoWelcomeConnectCmd, DoSts, DoReconnectError, Applies, Handling
  <2>2. QED
    BY <2>1 DEF Inv, BatchInv
<1>2. CASE NetworkMissing(n)
  BY <1>1, <1>2 DEF NetworkMissing
<1>3. CASE DoNetworkOpen(n) \/ DoNetworkTLS(n)
  BY <1>1, <1>3, AdvanceOnly DEF DoNetworkOpen, DoNetworkTLS
<1>4. CASE DoNetworkClose(n) \/ DoNetworkError(n)
  BY <1>4, FinalStep
<1>5. CASE LineRestricted(n)
  BY <1>1, <1>5, AdvanceOnly DEF LineRestricted, Inv, NoMissingNetwork
<1>6. CASE DoPlainLine(n) \/ DoWelcome(n) \/ DoSts(n)
  <2>1. Advance(n) /\ UNCHANGED <<conn, thread, queue, crashed>>
    BY <1>6 DEF DoPlainLine, DoWelcome, DoSts, Applies
  <2>2. QED
    BY <1>1, <2>1, AdvanceOnly
<1>7. ~DoWelcomeConnectCmd(n) /\ ~DoReconnectError(n)
  BY DEF DoWelcomeConnectCmd, DoReconnectError
<1>8. QED
  BY <1>2, <1>3, <1>4, <1>5, <1>6, <1>7 DEF Handle

\* Every step preserves the invariant.
LEMMA InvStep ==
  ASSUME Features = {}
  PROVE  Inv /\ [Next]_vars => Inv'
<1> SUFFICES ASSUME Inv, [Next]_vars PROVE Parts' /\ TypeOK'
  BY DEF Inv, Parts
<1>1. TypeOK'
  BY TypeStep DEF Inv
<1>2. ASSUME NEW n \in Networks, PolicyExpires(n) PROVE Parts'
  BY <1>2 DEF PolicyExpires, Inv, Parts, MapInv, QueueInv, BatchInv, TurnInv,
              NoOrphan, NoMissingNetwork, NoFinal, FinalLast, loopVars
<1>3. CASE UNCHANGED vars
  <2>1. UNCHANGED <<conn, thread, queue, batch, source, turn, crashed>>
    BY <1>3 DEF vars, loopVars
  <2>2. Parts'
    BY <2>1 DEF Inv, Parts, MapInv, QueueInv, BatchInv, TurnInv, NoOrphan,
                NoMissingNetwork, NoFinal, FinalLast
  <2>3. QED
    BY <1>1, <2>2
<1>4. QED
  BY <1>1, <1>2, <1>3, ThreadStep, UserStep, PingStep, HandleStep, FlushStep
    DEF Next

\* Initially nothing is connected.
LEMMA InvInit == Init => Inv
<1> SUFFICES ASSUME Init PROVE Inv
  OBVIOUS
<1>1. << >> \in Seq(Events)
  OBVIOUS
<1>2. queue \in [Conns -> Seq(Events)] /\ batch \in [Networks -> Seq(Events)]
  BY <1>1 DEF Init
<1>3. TypeOK
  BY <1>2 DEF Init, TypeOK, Finals
<1>4. MapInv /\ QueueInv /\ BatchInv /\ TurnInv /\ NoOrphan /\ NoMissingNetwork
  BY EmptyQueue DEF Init, MapInv, QueueInv, BatchInv, TurnInv, NoOrphan,
                    NoMissingNetwork
<1>5. QED
  BY <1>3, <1>4 DEF Inv

\* Where no line of a server makes the client replace a connection, every
\* event reaches the connection that produced it, although events carry only
\* the network's name.
THEOREM EventsReachTheirConnection ==
  ASSUME Features = {}
  PROVE  Spec => []BatchCurrent
<1>1. Inv /\ [Next]_vars => Inv'
  BY InvStep
<1>2. Inv => BatchCurrent
  BY DEF Inv, BatchInv, BatchCurrent
<1>3. QED
  BY <1>1, <1>2, InvInit, PTL DEF Spec

\* Under the same assumption no handler fails for a network it cannot find.
THEOREM NetworksAreFound ==
  ASSUME Features = {}
  PROVE  Spec => []NoMissingNetwork
<1>1. Inv /\ [Next]_vars => Inv'
  BY InvStep
<1>2. Inv => NoMissingNetwork
  BY DEF Inv
<1>3. QED
  BY <1>1, <1>2, InvInit, PTL DEF Spec

\* Under the same assumption every connection whose threads run can be reached
\* through clientConnections.
THEOREM NoConnectionIsOrphaned ==
  ASSUME Features = {}
  PROVE  Spec => []NoOrphan
<1>1. Inv /\ [Next]_vars => Inv'
  BY InvStep
<1>2. Inv => NoOrphan
  BY DEF Inv
<1>3. QED
  BY <1>1, <1>2, InvInit, PTL DEF Spec

(***************************************************************************)
(* No plain line is applied to a TLS connection's session, whatever the    *)
(* features.  Connections may be replaced in the middle of a batch, so the *)
(* argument is about the connection a batch came from: while events of it  *)
(* are left its identifier is in use, hence its mode stays as it was, and  *)
(* a TLS connection that took the name since then has its restriction,     *)
(* which only NetworkTLS lifts, an event a plain connection never writes.  *)
(***************************************************************************)
NoTls(q) == \A i \in 1 .. Len(q) : q[i] # "tls"

\* Only TLS connections write NetworkTLS.
QueueTls == \A c \in Conns : mode[c] = "no" => NoTls(queue[c])

\* The connection of a batch is not reused before the batch is handled.
SourceInUse ==
  \A n \in Networks : batch[n] # << >> =>
    source[n] \in Conns /\ thread[source[n]] # "free"

BatchTls ==
  \A n \in Networks : batch[n] # << >> /\ mode[source[n]] = "no" =>
                        NoTls(batch[n])

\* A TLS connection that a plain one's batch meets awaits its handshake.
Awaiting ==
  \A n \in Networks :
    batch[n] # << >> /\ mode[source[n]] = "no"
      /\ conn[n] # None /\ mode[conn[n]] = "yes"
      => connecting[conn[n]] /\ restricted[conn[n]]

TlsInv == MapInv /\ QueueTls /\ SourceInUse /\ BatchTls /\ Awaiting

\* What a handler or a command leaves of the batch.
Shift ==
  \A n \in Networks : batch'[n] # << >> =>
    /\ batch[n] # << >> /\ source'[n] = source[n]
    /\ NoTls(batch[n]) => NoTls(batch'[n])

\* The thread functions th have the same connections in use.
SameUse(th) == \A c \in Conns : th[c] = "free" <=> thread[c] = "free"

LEMMA AdvanceShifts ==
  ASSUME TypeOK, NEW n \in Networks, batch[n] # << >>, Advance(n)
  PROVE  Shift
<1>1. \A m \in Networks : batch'[m] = IF m = n THEN Tail(batch[n]) ELSE batch[m]
  BY DEF Advance, TypeOK
<1>2. NoTls(batch[n]) => NoTls(Tail(batch[n]))
  <2>1. batch[n] \in Seq(Events)
    BY DEF TypeOK
  <2>2. /\ Len(Tail(batch[n])) = Len(batch[n]) - 1 /\ Len(batch[n]) \in Nat
        /\ \A i \in 1 .. Len(Tail(batch[n])) : Tail(batch[n])[i] = batch[n][i + 1]
    BY <2>1
  <2>3. QED
    BY <2>2 DEF NoTls
<1>3. \A m \in Networks : batch'[m] # << >> => source'[m] = source[m]
  BY <1>1 DEF Advance, TypeOK
<1>4. QED
  BY <1>1, <1>2, <1>3 DEF Shift

LEMMA UnchangedShifts == UNCHANGED loopVars => Shift
BY DEF loopVars, Shift

LEMMA KilledUse ==
  ASSUME TypeOK, NEW c
  PROVE  /\ SameUse(Killed(c))
         /\ Killed(c) \in [Conns -> {"free", "run", "ended", "reported"}]
BY DEF SameUse, Killed, Alive, TypeOK

\* Steps that touch neither the map nor the modes.
LEMMA QuietStep ==
  ASSUME TypeOK, TypeOK', TlsInv, Shift, UNCHANGED <<conn, mode>>,
         SameUse(thread'),
         \A c \in Conns : NoTls(queue[c]) /\ mode[c] = "no" => NoTls(queue'[c]),
         Awaiting'
  PROVE  TlsInv'
<1>1. MapInv'
  BY DEF TlsInv, MapInv, SameUse, TypeOK
<1>2. QueueTls'
  BY DEF TlsInv, QueueTls
<1>3. SourceInUse'
  BY DEF TlsInv, SourceInUse, Shift, SameUse
<1>4. BatchTls'
  BY DEF TlsInv, BatchTls, Shift
<1>5. QED
  BY <1>1, <1>2, <1>3, <1>4 DEF TlsInv

\* The restriction of connections that a batch meets was not touched.
LEMMA StillAwaiting ==
  ASSUME TlsInv, Shift, UNCHANGED <<conn, mode, connecting, restricted>>
  PROVE  Awaiting'
BY DEF TlsInv, Awaiting, Shift

\* addConnection, on top of thread functions with the same use.
LEMMA AddStep ==
  ASSUME TypeOK, TypeOK', TlsInv, Shift,
         NEW n \in Networks, NEW th, NEW tries, NEW upgrade \in BOOLEAN,
         NEW otherwise \in {None, conn[n]},
         SameUse(th), th \in [Conns -> {"free", "run", "ended", "reported"}],
         AddConnection(n, th, tries, upgrade, otherwise)
  PROVE  TlsInv'
<1>1. CASE /\ conn' = [conn EXCEPT ![n] = otherwise]
           /\ thread' = th
           /\ UNCHANGED <<mode, stage, attempts, connecting, restricted, queue>>
  <2>1. MapInv'
    <3>1. conn' = [conn EXCEPT ![n] = otherwise] /\ thread' = th
      BY <1>1
    <3>2. \A m \in Networks : conn'[m] = None \/ conn'[m] = conn[m]
      BY <3>1 DEF TypeOK
    <3>3. \A m \in Networks : conn[m] # None => conn[m] \in Conns
      BY DEF TypeOK
    <3>4. \A m \in Networks : conn'[m] # None =>
            conn'[m] = conn[m] /\ thread'[conn[m]] # "free"
      BY <3>1, <3>2, <3>3 DEF TlsInv, MapInv, SameUse
    <3>5. QED
      BY <3>4 DEF TlsInv, MapInv
  <2>2. QueueTls'
    BY <1>1 DEF TlsInv, QueueTls
  <2>3. SourceInUse'
    BY <1>1 DEF TlsInv, SourceInUse, Shift, SameUse
  <2>4. BatchTls'
    BY <1>1 DEF TlsInv, BatchTls, Shift
  <2>5. Awaiting'
    BY <1>1 DEF TlsInv, Awaiting, Shift, TypeOK
  <2>6. QED
    BY <2>1, <2>2, <2>3, <2>4, <2>5 DEF TlsInv
<1>2. ASSUME NEW c \in Conns, thread[c] = "free",
             conn' = [conn EXCEPT ![n] = c],
             thread' = [th EXCEPT ![c] = "run"],
             mode' = [mode EXCEPT ![c] =
                        IF upgrade \/ n \in Secure \/ policy[n] THEN "yes" ELSE "no"],
             queue' = [queue EXCEPT ![c] = << >>],
             connecting' = [connecting EXCEPT ![c] = TRUE],
             restricted' = [restricted EXCEPT ![c] =
                              TlsRestriction(n, upgrade \/ n \in Secure \/ policy[n])]
      PROVE  TlsInv'
  <2>1. \A m \in Networks : conn[m] # c
    BY <1>2, NoneAssumption DEF TlsInv, MapInv
  <2>2. \A m \in Networks : batch[m] # << >> => source[m] \in Conns \ {c}
    BY <1>2 DEF TlsInv, SourceInUse
  <2>3. MapInv'
    <3>1. /\ \A m \in Networks : conn'[m] = IF m = n THEN c ELSE conn[m]
          /\ \A m \in Networks : conn[m] # None => conn[m] \in Conns
          /\ \A d \in Conns : thread'[d] = IF d = c THEN "run" ELSE th[d]
      BY <1>2 DEF TypeOK
    <3>2. \A m \in Networks : conn'[m] # None => thread'[conn'[m]] # "free"
      BY <2>1, <3>1 DEF TlsInv, MapInv, SameUse
    <3>3. QED
      BY <2>1, <3>1, <3>2 DEF TlsInv, MapInv
  <2>4. QueueTls'
    <3>1. NoTls(<< >>)
      BY DEF NoTls
    <3>2. QED
      BY <1>2, <3>1 DEF TlsInv, QueueTls, TypeOK
  <2>5. SourceInUse'
    BY <1>2, <2>2 DEF TlsInv, SourceInUse, Shift, SameUse, TypeOK
  <2>6. BatchTls'
    BY <1>2, <2>2 DEF TlsInv, BatchTls, Shift, TypeOK
  <2>7. Awaiting'
    <3> SUFFICES ASSUME NEW m \in Networks, batch'[m] # << >>,
                        mode'[source'[m]] = "no", conn'[m] # None,
                        mode'[conn'[m]] = "yes"
                 PROVE  connecting'[conn'[m]] /\ restricted'[conn'[m]]
      BY DEF Awaiting
    <3>1. CASE m = n
      <4>1. conn'[m] = c /\ connecting'[c] = TRUE
        BY <1>2, <3>1 DEF TypeOK
      <4>2. upgrade \/ n \in Secure \/ policy[n]
        BY <1>2, <4>1 DEF TypeOK
      <4>3. restricted'[c] = TlsRestriction(n, upgrade \/ n \in Secure \/ policy[n])
        BY <1>2 DEF TypeOK
      <4>4. QED
        BY <4>1, <4>2, <4>3 DEF TlsRestriction
    <3>2. CASE m # n
      <4>1. conn'[m] = conn[m] /\ conn[m] # c
        BY <1>2, <2>1, <3>2 DEF TypeOK
      <4>2. conn[m] \in Conns
        BY <4>1 DEF TypeOK
      <4>3. batch[m] # << >> /\ source'[m] = source[m] /\ source[m] # c
        BY <2>2 DEF Shift
      <4>4. mode[source[m]] = "no" /\ mode[conn[m]] = "yes"
        BY <1>2, <4>1, <4>2, <4>3, <2>2 DEF TypeOK
      <4>5. connecting[conn[m]] /\ restricted[conn[m]]
        BY <4>1, <4>3, <4>4 DEF TlsInv, Awaiting
      <4>6. /\ connecting'[conn[m]] = connecting[conn[m]]
            /\ restricted'[conn[m]] = restricted[conn[m]]
        BY <1>2, <4>1, <4>2 DEF TypeOK
      <4>7. QED
        BY <4>1, <4>5, <4>6
    <3>3. QED
      BY <3>1, <3>2
  <2>8. QED
    BY <2>3, <2>4, <2>5, <2>6, <2>7 DEF TlsInv
<1>3. QED
  BY <1>1, <1>2 DEF AddConnection

\* /connect, /reconnect and /disconnect, from the keyboard or a connect-cmd.
LEMMA CommandStep ==
  ASSUME TypeOK, TypeOK', TlsInv, Shift, NEW n \in Networks,
         Reconnect(n) \/ Disconnect(n)
  PROVE  TlsInv'
<1>1. CASE Reconnect(n)
  BY <1>1, KilledUse, AddStep DEF Reconnect
<1>2. CASE Disconnect(n)
  <2>1. SameUse(thread')
    BY <1>2, KilledUse DEF Disconnect
  <2>2. MapInv'
    BY <1>2, <2>1 DEF Disconnect, TlsInv, MapInv, SameUse, TypeOK
  <2>3. QueueTls'
    BY <1>2 DEF Disconnect, TlsInv, QueueTls
  <2>4. SourceInUse'
    BY <1>2, <2>1 DEF Disconnect, TlsInv, SourceInUse, Shift, SameUse
  <2>5. BatchTls'
    BY <1>2 DEF Disconnect, TlsInv, BatchTls, Shift
  <2>6. Awaiting'
    BY <1>2 DEF Disconnect, TlsInv, Awaiting, Shift, netVars, TypeOK
  <2>7. QED
    BY <2>2, <2>3, <2>4, <2>5, <2>6 DEF TlsInv
<1>3. QED
  BY <1>1, <1>2

\* Steps of a connection's threads.
LEMMA TlsThreadStep ==
  ASSUME TypeOK, TypeOK', TlsInv, NEW c \in Conns, Thread(c)
  PROVE  TlsInv'
<1>1. ASSUME NEW e \in Events, Put(c, e), e = "tls" => mode[c] = "yes",
             UNCHANGED <<conn, mode, netVars, loopVars>>, SameUse(thread')
      PROVE  TlsInv'
  <2>1. \A d \in Conns : NoTls(queue[d]) /\ mode[d] = "no" => NoTls(queue'[d])
    <3>1. SUFFICES ASSUME NoTls(queue[c]), e # "tls"
                   PROVE  NoTls(Append(queue[c], e))
      BY <1>1 DEF Put, TypeOK
    <3>2. queue[c] \in Seq(Events)
      BY DEF TypeOK
    <3>3. /\ Len(Append(queue[c], e)) = Len(queue[c]) + 1 /\ Len(queue[c]) \in Nat
          /\ \A i \in 1 .. Len(queue[c]) : Append(queue[c], e)[i] = queue[c][i]
          /\ Append(queue[c], e)[Len(queue[c]) + 1] = e
      BY <3>2
    <3>4. QED
      BY <3>1, <3>3 DEF NoTls
  <2>2. Shift
    BY <1>1, UnchangedShifts
  <2>3. Awaiting'
    BY <1>1, <2>2, StillAwaiting DEF netVars
  <2>4. QED
    BY <1>1, <2>1, <2>2, <2>3, QuietStep
<1>2. CASE ThreadOpen(c)
  BY <1>1, <1>2 DEF ThreadOpen, Events, SameUse
<1>3. CASE ThreadTLS(c)
  BY <1>1, <1>3 DEF ThreadTLS, Events, SameUse
<1>4. ASSUME NEW e \in Sends, ThreadLine(c, e) PROVE TlsInv'
  <2>1. e \in Events /\ e # "tls"
    BY SendsAssumption DEF Events, LineEvents
  <2>2. QED
    BY <1>1, <1>4, <2>1 DEF ThreadLine, SameUse
<1>5. ASSUME NEW why \in Finals, ThreadEnds(c, why) PROVE TlsInv'
  <2>1. SameUse(thread')
    BY <1>5 DEF ThreadEnds, SameUse, TypeOK
  <2>2. Shift
    BY <1>5, UnchangedShifts DEF ThreadEnds
  <2>3. Awaiting'
    BY <1>5, <2>2, StillAwaiting DEF ThreadEnds, netVars
  <2>4. QED
    BY <1>5, <2>1, <2>2, <2>3, QuietStep DEF ThreadEnds
<1>6. CASE Report(c)
  <2>1. reason[c] \in Events /\ reason[c] # "tls"
    BY DEF TypeOK, Events, Finals
  <2>2. SameUse(thread')
    BY <1>6 DEF Report, SameUse, TypeOK
  <2>3. QED
    BY <1>1, <1>6, <2>1, <2>2 DEF Report
<1>7. CASE Collect(c)
  <2>1. /\ \A n \in Networks : conn[n] # c
        /\ \A n \in Networks : batch[n] # << >> => source[n] # c
    BY <1>7 DEF Collect
  <2>2. \A d \in Conns \ {c} :
          /\ thread'[d] = thread[d] /\ mode'[d] = mode[d] /\ queue'[d] = queue[d]
          /\ connecting'[d] = connecting[d] /\ restricted'[d] = restricted[d]
    BY <1>7 DEF Collect, TypeOK
  <2>3. UNCHANGED <<conn, batch, source>>
    BY <1>7 DEF Collect, loopVars
  <2>4. \A n \in Networks : conn[n] # None => conn[n] \in Conns \ {c}
    BY <2>1 DEF TypeOK
  <2>5. \A n \in Networks : batch[n] # << >> => source[n] \in Conns \ {c}
    BY <2>1 DEF TlsInv, SourceInUse
  <2>6. MapInv'
    BY <2>2, <2>3, <2>4 DEF TlsInv, MapInv
  <2>7. QueueTls'
    <3>1. NoTls(<< >>) /\ queue'[c] = << >>
      BY <1>7 DEF NoTls, Collect, TypeOK
    <3>2. QED
      BY <2>2, <3>1 DEF TlsInv, QueueTls
  <2>8. SourceInUse' /\ BatchTls'
    BY <2>2, <2>3, <2>5 DEF TlsInv, SourceInUse, BatchTls
  <2>9. Awaiting'
    BY <2>2, <2>3, <2>4, <2>5 DEF TlsInv, Awaiting
  <2>10. QED
    BY <2>6, <2>7, <2>8, <2>9 DEF TlsInv
<1>8. QED
  BY <1>2, <1>3, <1>4, <1>5, <1>6, <1>7 DEF Thread

\* The handlers.
LEMMA TlsHandleStep ==
  ASSUME TypeOK, TypeOK', TlsInv, NEW n \in Networks, Handle(n)
  PROVE  TlsInv'
<1>1. ASSUME Shift, UNCHANGED <<conn, mode, queue, connecting, restricted>>,
             SameUse(thread')
      PROVE  TlsInv'
  BY <1>1, StillAwaiting, QuietStep
<1>2. SameUse(thread)
  BY DEF SameUse
<1>3. ~NetworkMissing(n) => Advance(n) /\ batch[n] # << >>
  BY DEF Handle, DoNetworkOpen, DoNetworkTLS, DoNetworkClose, DoNetworkError,
         LineRestricted, DoPlainLine, DoWelcome, DoWelcomeConnectCmd, DoSts,
         DoReconnectError, Applies, Handling
<1>4. ~NetworkMissing(n) => Shift
  BY <1>3, AdvanceShifts
<1>5. CASE NetworkMissing(n)
  BY <1>1, <1>2, <1>5, UnchangedShifts DEF NetworkMissing, netVars
<1>6. CASE ~NetworkMissing(n) /\ (DoNetworkOpen(n) \/ DoPlainLine(n))
  BY <1>1, <1>2, <1>4, <1>6 DEF DoNetworkOpen, DoPlainLine, netVars
<1>7. CASE ~NetworkMissing(n) /\ DoNetworkTLS(n)
  <2>1. Awaiting'
    <3> SUFFICES ASSUME NEW m \in Networks, batch'[m] # << >>,
                        mode'[source'[m]] = "no", conn'[m] # None,
                        mode'[conn'[m]] = "yes"
                 PROVE  connecting'[conn'[m]] /\ restricted'[conn'[m]]
      BY DEF Awaiting
    <3>1. UNCHANGED <<conn, mode, connecting>>
      BY <1>7 DEF DoNetworkTLS
    <3>2. /\ batch[m] # << >> /\ source'[m] = source[m]
          /\ mode[source[m]] = "no"
          /\ conn[m] \in Conns
      BY <1>4, <1>7, <3>1 DEF Shift, TypeOK
    <3>3. connecting[conn[m]] /\ restricted[conn[m]] /\ NoTls(batch[m])
      BY <3>1, <3>2 DEF TlsInv, Awaiting, BatchTls
    <3>4. m # n
      <4>1. Head(batch[n]) = "tls" /\ batch[n] # << >> /\ batch[n] \in Seq(Events)
        BY <1>7 DEF DoNetworkTLS, Handling, TypeOK
      <4>2. batch[n][1] = "tls" /\ 1 \in 1 .. Len(batch[n])
        BY <4>1
      <4>3. QED
        BY <3>3, <4>2 DEF NoTls
    <3>5. conn[n] # conn[m]
      BY <3>2, <3>4, NoneAssumption DEF TlsInv, MapInv
    <3>6. restricted'[conn[m]] = restricted[conn[m]]
      BY <1>7, <3>2, <3>5 DEF DoNetworkTLS, TypeOK
    <3>7. QED
      BY <3>1, <3>3, <3>6
  <2>2. QED
    BY <1>2, <1>4, <1>7, <2>1, QuietStep DEF DoNetworkTLS
<1>8. CASE ~NetworkMissing(n) /\ DoNetworkClose(n)
  <2>1. UNCHANGED <<thread, mode, queue, connecting, restricted>>
    BY <1>8 DEF DoNetworkClose, netVars
  <2>2. conn' = [conn EXCEPT ![n] = None]
    BY <1>8 DEF DoNetworkClose
  <2>3. MapInv' /\ QueueTls'
    BY <2>1, <2>2 DEF TlsInv, MapInv, QueueTls, TypeOK
  <2>4. SourceInUse' /\ BatchTls'
    BY <1>4, <1>8, <2>1 DEF TlsInv, SourceInUse, BatchTls, Shift
  <2>5. Awaiting'
    BY <1>4, <1>8, <2>1, <2>2 DEF TlsInv, Awaiting, Shift, TypeOK
  <2>6. QED
    BY <2>3, <2>4, <2>5 DEF TlsInv
<1>9. CASE ~NetworkMissing(n) /\ DoNetworkError(n)
  <2>1. thread \in [Conns -> {"free", "run", "ended", "reported"}]
    BY DEF TypeOK
  <2>2. CASE AddConnection(n, thread, Retry(conn[n]), FALSE, None)
    BY <1>2, <1>4, <1>9, <2>1, <2>2, AddStep
  <2>3. CASE /\ conn' = [conn EXCEPT ![n] = None]
             /\ UNCHANGED <<thread, mode, stage, queue, netVars>>
    <3>1. MapInv' /\ QueueTls'
      BY <2>3 DEF TlsInv, MapInv, QueueTls, TypeOK
    <3>2. SourceInUse' /\ BatchTls'
      BY <1>4, <1>9, <2>3 DEF TlsInv, SourceInUse, BatchTls, Shift
    <3>3. Awaiting'
      BY <1>4, <1>9, <2>3 DEF TlsInv, Awaiting, Shift, netVars, TypeOK
    <3>4. QED
      BY <3>1, <3>2, <3>3 DEF TlsInv
  <2>4. QED
    BY <1>9, <2>2, <2>3 DEF DoNetworkError
<1>10. CASE ~NetworkMissing(n) /\ LineRestricted(n)
  <2>1. SameUse(thread')
    BY <1>10, KilledUse DEF LineRestricted
  <2>2. QED
    BY <1>1, <1>4, <1>10, <2>1 DEF LineRestricted, netVars
<1>11. CASE ~NetworkMissing(n) /\ DoWelcome(n)
  <2>1. Awaiting'
    <3> SUFFICES ASSUME NEW m \in Networks, batch'[m] # << >>,
                        mode'[source'[m]] = "no", conn'[m] # None,
                        mode'[conn'[m]] = "yes"
                 PROVE  connecting'[conn'[m]] /\ restricted'[conn'[m]]
      BY DEF Awaiting
    <3>1. UNCHANGED <<conn, mode, restricted>>
      BY <1>11 DEF DoWelcome
    <3>2. /\ batch[m] # << >> /\ source'[m] = source[m]
          /\ mode[source[m]] = "no"
          /\ conn[m] \in Conns
      BY <1>4, <1>11, <3>1 DEF Shift, TypeOK
    <3>3. connecting[conn[m]] /\ restricted[conn[m]]
      BY <3>1, <3>2 DEF TlsInv, Awaiting
    <3>4. m # n
      BY <1>11, <3>3 DEF DoWelcome, Applies
    <3>5. conn[n] # conn[m]
      BY <3>2, <3>4, NoneAssumption DEF TlsInv, MapInv
    <3>6. connecting'[conn[m]] = connecting[conn[m]]
      BY <1>11, <3>2, <3>5 DEF DoWelcome, TypeOK
    <3>7. QED
      BY <3>1, <3>3, <3>6
  <2>2. QED
    BY <1>2, <1>4, <1>11, <2>1, QuietStep DEF DoWelcome
<1>12. CASE ~NetworkMissing(n) /\ DoWelcomeConnectCmd(n)
  BY <1>4, <1>12, CommandStep DEF DoWelcomeConnectCmd
<1>13. CASE ~NetworkMissing(n) /\ DoSts(n)
  <2>1. CASE AddConnection(n, Killed(conn[n]), 0, TRUE, conn[n])
    BY <1>4, <1>13, <2>1, KilledUse, AddStep
  <2>2. CASE UNCHANGED <<conn, thread, reason, mode, stage, queue, netVars>>
    BY <1>1, <1>2, <1>4, <1>13, <2>2 DEF netVars
  <2>3. QED
    BY <1>13, <2>1, <2>2 DEF DoSts
<1>14. CASE ~NetworkMissing(n) /\ DoReconnectError(n)
  <2>1. thread \in [Conns -> {"free", "run", "ended", "reported"}]
    BY DEF TypeOK
  <2>2. AddConnection(n, thread, 1, FALSE, conn[n])
    BY <1>14 DEF DoReconnectError
  <2>3. QED
    BY <1>2, <1>4, <1>14, <2>1, <2>2, AddStep
<1>15. QED
  BY <1>5, <1>6, <1>7, <1>8, <1>9, <1>10, <1>11, <1>12, <1>13, <1>14 DEF Handle

\* Every step keeps the argument.
LEMMA TlsStep == TypeOK /\ TlsInv /\ [Next]_vars => TlsInv'
<1> SUFFICES ASSUME TypeOK, TlsInv, [Next]_vars PROVE TlsInv'
  OBVIOUS
<1>1. TypeOK'
  BY TypeStep
<1>2. SameUse(thread)
  BY DEF SameUse
<1>3. ASSUME NEW n \in Networks, User(n) PROVE TlsInv'
  <2>1. Reconnect(n) \/ Disconnect(n)
    BY <1>3 DEF User, UserConnects, UserDisconnects
  <2>2. Shift
    BY <1>3, UnchangedShifts DEF User, UserConnects, UserDisconnects
  <2>3. QED
    BY <1>1, <2>1, <2>2, CommandStep
<1>4. ASSUME NEW n \in Networks, PingTimesOut(n) PROVE TlsInv'
  <2>1. SameUse(thread') /\ Shift
    BY <1>4, KilledUse, UnchangedShifts DEF PingTimesOut
  <2>2. QED
    BY <1>1, <1>4, <2>1, StillAwaiting, QuietStep DEF PingTimesOut, netVars
<1>5. ASSUME NEW n \in Networks, PolicyExpires(n) PROVE TlsInv'
  BY <1>1, <1>2, <1>5, StillAwaiting, QuietStep, UnchangedShifts
    DEF PolicyExpires, netVars
<1>6. CASE GetNetworkEvents
  <2>1. UNCHANGED <<conn, thread, mode>>
    BY <1>6 DEF GetNetworkEvents
  <2>2. \A n \in Networks : batch'[n] # << >> =>
          /\ conn[n] \in Conns /\ source'[n] = conn[n]
          /\ batch'[n] = queue[conn[n]]
    BY <1>6 DEF GetNetworkEvents, Pending, TypeOK
  <2>3. MapInv'
    BY <2>1 DEF TlsInv, MapInv
  <2>4. QueueTls'
    <3>1. NoTls(<< >>)
      BY DEF NoTls
    <3>2. QED
      BY <1>6, <2>1, <3>1 DEF GetNetworkEvents, TlsInv, QueueTls
  <2>5. SourceInUse'
    BY <2>1, <2>2, NoneAssumption DEF TlsInv, SourceInUse, MapInv
  <2>6. BatchTls'
    BY <2>1, <2>2 DEF TlsInv, BatchTls, QueueTls
  <2>7. Awaiting'
    BY <2>1, <2>2 DEF Awaiting
  <2>8. QED
    BY <2>3, <2>4, <2>5, <2>6, <2>7 DEF TlsInv
<1>7. CASE UNCHANGED vars
  BY <1>1, <1>2, <1>7, StillAwaiting, QuietStep, UnchangedShifts DEF vars, netVars
<1>8. QED
  BY <1>1, <1>3, <1>4, <1>5, <1>6, <1>7, TlsThreadStep, TlsHandleStep DEF Next

LEMMA TlsFirst == Init => TypeOK /\ TlsInv
<1> SUFFICES ASSUME Init PROVE TypeOK /\ TlsInv
  OBVIOUS
<1>1. TypeOK
  BY InvInit DEF Inv
<1>2. NoTls(<< >>)
  BY DEF NoTls
<1>3. MapInv /\ QueueTls /\ SourceInUse /\ BatchTls /\ Awaiting
  BY <1>2 DEF Init, MapInv, QueueTls, SourceInUse, BatchTls, Awaiting
<1>4. QED
  BY <1>1, <1>3 DEF TlsInv

\* With STS upgrades, reconnect-error and connect-cmds replacing connections
\* inside a batch, and for every number of networks and connections, no line
\* of a plain connection is applied to the session of a TLS one.
THEOREM NoPlainLineInTlsSession == Spec => []TlsSessionPure
<1>1. TypeOK /\ TlsInv /\ [Next]_vars => (TypeOK /\ TlsInv)'
  BY TypeStep, TlsStep
<1>2. TypeOK /\ TlsInv => TlsSessionPure
  BY DEF TlsInv, Awaiting, TlsSessionPure, Handling
<1>3. QED
  BY <1>1, <1>2, TlsFirst, PTL DEF Spec

(***************************************************************************)
(* Reconnections in a row are bounded.  The row is a history of the        *)
(* network; the count that ends it lives in its connections, each of which *)
(* hands it on when it is replaced.  While a network has a connection the  *)
(* row is no longer than the count the connection carries.                 *)
(***************************************************************************)
Carried(c) == IF connecting[c] THEN attempts[c] ELSE 0

RowInv ==
  \A n \in Networks : /\ inARow[n] =< ReconnectAttempts + 1
                      /\ conn[n] # None => inARow[n] =< Carried(conn[n])

RetriesInv == RowInv /\ \A c \in Conns : attempts[c] =< ReconnectAttempts + 1

\* A step that leaves the table, the counts and the rows alone.
LEMMA QuietRetries ==
  ASSUME RetriesInv, UNCHANGED <<conn, attempts, connecting, inARow>>
  PROVE  RetriesInv'
BY DEF RetriesInv, RowInv, Carried

\* A network without a connection has no count to keep to.
LEMMA RemovedRetries ==
  ASSUME TypeOK, RetriesInv, NEW n \in Networks,
         conn' = [conn EXCEPT ![n] = None],
         UNCHANGED <<attempts, connecting, inARow>>
  PROVE  RetriesInv'
BY DEF TypeOK, RetriesInv, RowInv, Carried

RowBecomes(n, row) == inARow' = [inARow EXCEPT ![n] = row]

\* A new connection carries the count it is given, which is at least its
\* network's row; the others keep theirs.
LEMMA AddRetries ==
  ASSUME TypeOK, MapInv, RetriesInv, NEW n \in Networks, NEW th,
         NEW tries \in Nat, tries =< ReconnectAttempts + 1,
         NEW upgrade, NEW otherwise \in {None, conn[n]},
         AddConnection(n, th, tries, upgrade, otherwise),
         NEW row \in Nat, RowBecomes(n, row),
         row =< ReconnectAttempts + 1, conn'[n] # None => row =< tries,
         otherwise = None \/ row = 0
  PROVE  RetriesInv'
<1>1. CASE /\ conn' = [conn EXCEPT ![n] = otherwise]
           /\ UNCHANGED <<attempts, connecting>>
  <2>1. ASSUME NEW m \in Networks
        PROVE  /\ inARow'[m] =< ReconnectAttempts + 1
               /\ conn'[m] # None => inARow'[m] =< Carried(conn[m])
                                     /\ conn'[m] = conn[m]
    <3>1. CASE m = n
      <4>1. inARow'[m] = row /\ conn'[m] = otherwise
        BY <1>1, <3>1 DEF TypeOK, RowBecomes
      <4>2. conn'[m] # None => row = 0 /\ conn[m] \in Conns /\ conn'[m] = conn[m]
        BY <3>1, <4>1 DEF TypeOK
      <4>3. conn[m] \in Conns => Carried(conn[m]) \in Nat
        BY DEF Carried, TypeOK
      <4>4. QED
        BY <4>1, <4>2, <4>3
    <3>2. CASE m # n
      BY <1>1, <3>2 DEF TypeOK, RetriesInv, RowInv, RowBecomes
    <3>3. QED
      BY <3>1, <3>2
  <2>2. QED
    BY <1>1, <2>1 DEF RetriesInv, RowInv, Carried
<1>2. ASSUME NEW c \in Conns, thread[c] = "free",
             conn' = [conn EXCEPT ![n] = c],
             attempts' = [attempts EXCEPT ![c] = tries],
             connecting' = [connecting EXCEPT ![c] = TRUE]
      PROVE  RetriesInv'
  <2>1. \A d \in Conns : attempts'[d] =< ReconnectAttempts + 1
    BY <1>2 DEF TypeOK, RetriesInv
  <2>2. ASSUME NEW m \in Networks
        PROVE  /\ inARow'[m] =< ReconnectAttempts + 1
               /\ conn'[m] # None =>
                    inARow'[m] =< IF connecting'[conn'[m]] THEN attempts'[conn'[m]]
                                  ELSE 0
    <3>1. CASE m = n
      <4>1. /\ inARow'[m] = row /\ conn'[m] = c /\ c # None
            /\ connecting'[c] = TRUE /\ attempts'[c] = tries
        BY <1>2, <3>1, NoneAssumption DEF TypeOK, RowBecomes
      <4>2. QED
        BY <3>1, <4>1
    <3>2. CASE m # n
      <4>1. inARow'[m] = inARow[m] /\ conn'[m] = conn[m]
        BY <1>2, <3>2 DEF TypeOK, RowBecomes
      <4>2. ASSUME conn[m] # None
            PROVE  /\ attempts'[conn[m]] = attempts[conn[m]]
                   /\ connecting'[conn[m]] = connecting[conn[m]]
        <5>1. conn[m] \in Conns /\ conn[m] # c
          BY <1>2, <4>2 DEF TypeOK, MapInv
        <5>2. QED
          BY <1>2, <5>1 DEF TypeOK
      <4>3. QED
        BY <4>1, <4>2 DEF RetriesInv, RowInv, Carried
    <3>3. QED
      BY <3>1, <3>2
  <2>3. QED
    BY <2>1, <2>2 DEF RetriesInv, RowInv, Carried
<1>3. QED
  BY <1>1, <1>2 DEF AddConnection

\* What somebody asked for starts a row of its own.
LEMMA AnewRetries ==
  ASSUME TypeOK, MapInv, RetriesInv, NEW n \in Networks, NEW th,
         NEW tries \in {0, 1}, NEW upgrade, NEW otherwise \in {None, conn[n]},
         AddConnection(n, th, tries, upgrade, otherwise), CountAnew(n)
  PROVE  RetriesInv'
<1>1. /\ tries \in Nat /\ tries =< ReconnectAttempts + 1
      /\ 0 \in Nat /\ 0 =< ReconnectAttempts + 1 /\ 0 =< tries
  BY AttemptsAssumption
<1>2. RowBecomes(n, 0)
  BY DEF CountAnew, RowBecomes
<1>3. QED
  BY <1>1, <1>2, AddRetries

\* A retry counts one more than the connection it replaces, as long as that
\* one was still within the bound, and so does the row.
LEMMA RetryBound ==
  ASSUME TypeOK, NEW c \in Conns, NEW why, ShouldReconnect(c, why)
  PROVE  /\ Retry(c) \in Nat /\ Retry(c) =< ReconnectAttempts + 1
         /\ Retry(c) = Carried(c) + 1
<1>1. attempts[c] \in Nat
  BY DEF TypeOK
<1>2. QED
  BY <1>1, AttemptsAssumption DEF ShouldReconnect, Retry, Carried

\* Commands of the user and connect-cmds count from nothing.
LEMMA CommandRetries ==
  ASSUME TypeOK, MapInv, RetriesInv, NEW n \in Networks,
         Reconnect(n) \/ Disconnect(n)
  PROVE  RetriesInv'
<1>1. CASE Reconnect(n)
  BY <1>1, AnewRetries DEF Reconnect
<1>2. CASE Disconnect(n)
  BY <1>2, RemovedRetries DEF Disconnect, netVars
<1>3. QED
  BY <1>1, <1>2

\* A connection that failed is replaced, and the row grows with its count.
LEMMA ErrorRetries ==
  ASSUME TypeOK, MapInv, RetriesInv, NEW n \in Networks, DoNetworkError(n)
  PROVE  RetriesInv'
<1> DEFINE c == conn[n]
           row == IF conn'[n] = None THEN inARow[n] ELSE inARow[n] + 1
<1>1. c \in Conns /\ c # None
  BY DEF DoNetworkError, TypeOK
<1>2. /\ inARow[n] \in Nat /\ inARow[n] =< ReconnectAttempts + 1
      /\ inARow[n] =< Carried(c) /\ Carried(c) \in Nat
  BY <1>1 DEF TypeOK, RetriesInv, RowInv, Carried
<1>3. CASE ShouldReconnect(c, Head(batch[n]))
  <2>1. /\ AddConnection(n, thread, Retry(c), FALSE, None)
        /\ RowBecomes(n, row)
    BY <1>3 DEF DoNetworkError, RowBecomes
  <2>2. /\ Retry(c) \in Nat /\ Retry(c) =< ReconnectAttempts + 1
        /\ Retry(c) = Carried(c) + 1
    BY <1>1, <1>3, RetryBound
  <2>3. row \in Nat /\ row =< ReconnectAttempts + 1
        /\ (conn'[n] # None => row =< Retry(c))
    BY <1>2, <2>2, AttemptsAssumption
  <2> HIDE DEF c, row
  <2>4. QED
    BY <2>1, <2>2, <2>3, AddRetries
<1>4. CASE ~ShouldReconnect(c, Head(batch[n]))
  BY <1>4, RemovedRetries DEF DoNetworkError, netVars
<1>5. QED
  BY <1>3, <1>4

LEMMA RetriesStep == TypeOK /\ MapInv /\ RetriesInv /\ [Next]_vars => RetriesInv'
<1> SUFFICES ASSUME TypeOK, MapInv, RetriesInv, [Next]_vars PROVE RetriesInv'
  OBVIOUS
<1>1. ASSUME NEW c \in Conns, Thread(c) PROVE RetriesInv'
  <2>1. CASE Collect(c)
    <3>1. /\ attempts' = [attempts EXCEPT ![c] = 0]
          /\ connecting' = [connecting EXCEPT ![c] = TRUE]
          /\ UNCHANGED <<conn, inARow>> /\ \A n \in Networks : conn[n] # c
      BY <2>1 DEF Collect
    <3>2. \A d \in Conns : attempts'[d] = attempts[d] \/ attempts'[d] = 0
      BY <3>1 DEF TypeOK
    <3>3. \A n \in Networks : conn[n] # None =>
            /\ attempts'[conn[n]] = attempts[conn[n]]
            /\ connecting'[conn[n]] = connecting[conn[n]]
      BY <3>1 DEF TypeOK
    <3>4. QED
      BY <3>1, <3>2, <3>3, AttemptsAssumption DEF RetriesInv, RowInv, Carried
  <2>2. CASE ~Collect(c)
    BY <1>1, <2>2, QuietRetries
      DEF Thread, ThreadOpen, ThreadTLS, ThreadLine, ThreadEnds, Report, netVars
  <2>3. QED
    BY <2>1, <2>2
<1>2. ASSUME NEW n \in Networks, Handle(n) PROVE RetriesInv'
  <2>1. CASE DoNetworkError(n)
    BY <2>1, ErrorRetries
  <2>2. CASE DoSts(n)
    <3>1. CASE AddConnection(n, Killed(conn[n]), 0, TRUE, conn[n]) /\ CountAnew(n)
      BY <3>1, AnewRetries
    <3>2. CASE UNCHANGED <<conn, attempts, connecting, inARow>>
      BY <3>2, QuietRetries
    <3>3. QED
      BY <2>2, <3>1, <3>2 DEF DoSts, netVars
  <2>3. CASE DoReconnectError(n)
    BY <2>3, AnewRetries DEF DoReconnectError
  <2>4. CASE DoWelcomeConnectCmd(n)
    BY <2>4, CommandRetries DEF DoWelcomeConnectCmd
  <2>5. CASE DoWelcome(n)
    <3>1. /\ conn[n] \in Conns /\ conn[n] # None
          /\ connecting' = [connecting EXCEPT ![conn[n]] = FALSE]
          /\ inARow' = [inARow EXCEPT ![n] = 0]
          /\ UNCHANGED <<conn, attempts>>
      BY <2>5 DEF DoWelcome, Applies, CountAnew, TypeOK
    <3>2. ASSUME NEW m \in Networks, m # n
          PROVE  /\ inARow'[m] = inARow[m]
                 /\ conn[m] # None => connecting'[conn[m]] = connecting[conn[m]]
      BY <3>1, <3>2 DEF TypeOK, MapInv
    <3>3. inARow'[n] = 0 /\ connecting'[conn[n]] = FALSE
      BY <3>1 DEF TypeOK
    <3>4. UNCHANGED <<conn, attempts>>
      BY <3>1
    <3>5. ASSUME NEW m \in Networks
          PROVE  /\ inARow'[m] =< ReconnectAttempts + 1
                 /\ conn[m] # None =>
                      inARow'[m] =< IF connecting'[conn[m]] THEN attempts[conn[m]] ELSE 0
      <4>1. CASE m = n
        BY <3>3, <4>1, AttemptsAssumption
      <4>2. CASE m # n
        BY <3>2, <4>2 DEF RetriesInv, RowInv, Carried
      <4>3. QED
        BY <4>1, <4>2
    <3>6. QED
      BY <3>4, <3>5 DEF RetriesInv, RowInv, Carried
  <2>6. CASE DoNetworkClose(n)
    BY <2>6, RemovedRetries DEF DoNetworkClose, netVars
  <2>7. CASE \/ NetworkMissing(n) \/ DoNetworkOpen(n) \/ DoNetworkTLS(n)
             \/ LineRestricted(n) \/ DoPlainLine(n)
    BY <2>7, QuietRetries
      DEF NetworkMissing, DoNetworkOpen, DoNetworkTLS, LineRestricted,
          DoPlainLine, netVars
  <2>8. QED
    BY <1>2, <2>1, <2>2, <2>3, <2>4, <2>5, <2>6, <2>7 DEF Handle
<1>3. ASSUME NEW n \in Networks, User(n) PROVE RetriesInv'
  BY <1>3, CommandRetries DEF User, UserConnects, UserDisconnects
<1>4. ASSUME NEW n \in Networks, PingTimesOut(n) \/ PolicyExpires(n)
      PROVE  RetriesInv'
  BY <1>4, QuietRetries DEF PingTimesOut, PolicyExpires, netVars
<1>5. CASE GetNetworkEvents
  BY <1>5, QuietRetries DEF GetNetworkEvents, netVars
<1>6. CASE UNCHANGED vars
  BY <1>6, QuietRetries DEF vars, netVars
<1>7. QED
  BY <1>1, <1>2, <1>3, <1>4, <1>5, <1>6 DEF Next

\* Without an outside cause a network is reconnected at most
\* reconnect-attempts + 1 times, with all features: connections replaced
\* inside a batch neither lose the count nor let the row outrun it.
THEOREM RowsAreBounded == Spec => []RetriesBounded
<1>1. Init => TypeOK /\ TlsInv /\ RetriesInv
  <2> SUFFICES ASSUME Init PROVE TypeOK /\ TlsInv /\ RetriesInv
    OBVIOUS
  <2>1. TypeOK /\ TlsInv
    BY TlsFirst
  <2>2. RetriesInv
    BY AttemptsAssumption DEF Init, RetriesInv, RowInv
  <2>3. QED
    BY <2>1, <2>2
<1>2. TypeOK /\ TlsInv /\ RetriesInv /\ [Next]_vars => (TypeOK /\ TlsInv /\ RetriesInv)'
  BY TypeStep, TlsStep, RetriesStep DEF TlsInv
<1>3. RetriesInv => RetriesBounded
  BY DEF RetriesInv, RowInv, RetriesBounded
<1>4. QED
  BY <1>1, <1>2, <1>3, PTL DEF Spec
=============================================================================
