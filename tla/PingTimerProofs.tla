-------------------------- MODULE PingTimerProofs --------------------------
(***************************************************************************)
(* Theorems about PingTimer for every MaxStall and MaxQueue, with or       *)
(* without dropped lines.                                                  *)
(***************************************************************************)
EXTENDS PingTimer, TLAPS

\* A PONG is queued.  A line is queued that came after the last PING and that
\* will count.
Pong == \E i \in DOMAIN queue : queue[i].type = "pong"
Sign == \E i \in DOMAIN queue : queue[i].type # "dropped" /\ queue[i].after

\* No PING is unanswered: at the next deadline another one is sent.
Settled == ~pinged \/ fresh

\* The ticks left to a server that has fallen silent keep within the bound.
Within(left) == quiet + left =< 2 * PingInterval + 3 * MaxStall

SilenceInv ==
  phase = "up" =>
    /\ ~Settled /\ Due => Within(MaxStall - late)
    /\ ~Settled /\ ~Due /\ ~Pong /\ ~Sign => Within(next + MaxStall)
    /\ ~Settled /\ ~Due /\ (Pong \/ Sign) =>
         Within(next + 2 * MaxStall + PingInterval)
    /\ Settled /\ ~Pong /\ Due => Within(2 * MaxStall + PingInterval - late)
    /\ Settled /\ ~Pong /\ ~Due =>
         Within(next + 2 * MaxStall + PingInterval)
    /\ Settled /\ Pong => Within(3 * MaxStall + 2 * PingInterval - late)

\* Before the welcome no PING is sent, and the loop has been busy for as long
\* as any line waits.
WelcomeInv ==
  /\ phase = "connecting" => ~heard /\ (queue # << >> => quiet =< late)
  /\ phase = "up" => \A i \in DOMAIN queue : queue[i].type # "welcome"

\* A line that arrived since the PING is counted or still queued.
HeardInv == pinged /\ heard /\ ~fresh => Sign

Inv == TypeOK /\ SilenceInv /\ WelcomeInv /\ HeardInv

\* The queue as a function from its positions.
LEMMA QueueType ==
  ASSUME TypeOK
  PROVE  /\ DOMAIN queue = 1 .. Len(queue) /\ Len(queue) \in Nat
         /\ \A i \in DOMAIN queue : queue[i] \in Lines
         /\ queue = << >> <=> DOMAIN queue = {}
BY DEF TypeOK

\* The invariant holds before the first line.
LEMMA InitInv == Init => Inv
<1>1. Init => TypeOK
  <2> SUFFICES ASSUME Init PROVE TypeOK
    OBVIOUS
  <2>1. queue \in Seq(Lines) /\ Len(queue) =< MaxQueue
    BY PingTimerAssumption DEF Init
  <2>2. <<pinged, fresh, heard>> \in BOOLEAN \X BOOLEAN \X BOOLEAN
    BY DEF Init
  <2>3. next \in 0 .. PingInterval /\ owed \in 0 .. 2 /\ late \in 0 .. MaxStall
        /\ quiet \in 0 .. MaxQuiet
    BY PingTimerAssumption DEF Init, FirstPing, PingInterval, MaxQuiet
  <2>4. QED
    BY <2>1, <2>2, <2>3 DEF Init, TypeOK
<1>2. Init => SilenceInv /\ WelcomeInv /\ HeardInv
  BY DEF Init, SilenceInv, WelcomeInv, HeardInv
<1>3. QED
  BY <1>1, <1>2 DEF Inv

\* Time makes lines older and changes nothing else of them.
LEMMA TickKeepsQueue ==
  ASSUME TypeOK, Tick
  PROVE  /\ queue' \in Seq(Lines) /\ DOMAIN queue' = DOMAIN queue
         /\ Len(queue') = Len(queue)
         /\ \A i \in DOMAIN queue : queue'[i].type = queue[i].type
                                  /\ queue'[i].after = queue[i].after
         /\ (Pong <=> Pong') /\ (Sign <=> Sign')
<1>1. MaxQuiet \in Nat
  BY PingTimerAssumption DEF MaxQuiet, PingInterval
<1>2. \A age \in 0 .. MaxQuiet : Older(age) \in 0 .. MaxQuiet
  BY <1>1 DEF Older
<1>3. \A i \in DOMAIN queue :
        [queue[i] EXCEPT !.age = Older(@)] \in Lines
  BY <1>2, QueueType DEF Lines
<1>4. queue' = [i \in 1 .. Len(queue) |-> [queue[i] EXCEPT !.age = Older(@)]]
  BY QueueType DEF Tick
<1>5. queue' \in Seq(Lines) /\ DOMAIN queue' = DOMAIN queue
      /\ Len(queue') = Len(queue)
  BY <1>3, <1>4, QueueType
<1>6. \A i \in DOMAIN queue : queue'[i].type = queue[i].type
                            /\ queue'[i].after = queue[i].after
  BY <1>4, QueueType DEF Lines
<1>7. QED
  BY <1>5, <1>6 DEF Pong, Sign

\* A tick takes from what is left what it adds to the silence.
LEMMA TickInv == ASSUME Inv, Tick PROVE Inv'
<1>1. /\ late \in 0 .. MaxStall /\ quiet \in Nat /\ next \in 0 .. PingInterval
      /\ quiet' \in 0 .. MaxQuiet /\ quiet' =< quiet + 1 /\ MaxStall \in Nat
  BY PingTimerAssumption DEF Inv, TypeOK, Tick, Older, MaxQuiet, PingInterval
<1>2. next' \in 0 .. PingInterval /\ late' \in 0 .. MaxStall
  BY <1>1 DEF Tick, PingInterval
<1>3. TypeOK'
  BY <1>1, <1>2, TickKeepsQueue DEF Inv, TypeOK, Tick
<1>4. (Settled <=> Settled') /\ (Pong <=> Pong') /\ (Sign <=> Sign')
  BY TickKeepsQueue DEF Inv, Tick, Settled
<1>5. Pong => queue # << >>
  BY QueueType DEF Inv, Pong
<1>6. SilenceInv'
  <2> SUFFICES ASSUME phase' = "up" PROVE SilenceInv'
    BY DEF SilenceInv
  <2>1. /\ phase = "up" /\ next' = (IF next > 0 THEN next - 1 ELSE next)
        /\ (Due <=> next = 0) /\ (Due' <=> next' = 0)
        /\ (Due \/ Pong => late' = late + 1)
    BY <1>1, <1>5 DEF Tick, Due
  <2> DEFINE silent == quiet'
             waited == late'
             left   == next'
  <2>2. /\ silent \in Nat /\ silent =< quiet + 1
        /\ waited \in Nat /\ (Due \/ Pong => waited = late + 1)
        /\ left = IF next > 0 THEN next - 1 ELSE next
    BY <1>1, <1>2, <2>1
  <2> HIDE DEF silent, waited, left
  <2>3. ~Settled /\ Due' => Within(MaxStall - late)'
    <3>1. ~Settled /\ left = 0 =>
            silent + (MaxStall - waited) =< 2 * PingInterval + 3 * MaxStall
      BY <1>1, <2>1, <2>2 DEF Inv, SilenceInv, Within, PingInterval
    <3>2. QED
      BY <2>1, <3>1 DEF Within, silent, waited, left
  <2>4. ~Settled /\ ~Due' /\ ~Pong /\ ~Sign => Within(next + MaxStall)'
    <3>1. ~Settled /\ left # 0 /\ ~Pong /\ ~Sign =>
            silent + (left + MaxStall) =< 2 * PingInterval + 3 * MaxStall
      BY <1>1, <2>1, <2>2 DEF Inv, SilenceInv, Within, PingInterval
    <3>2. QED
      BY <2>1, <3>1 DEF Within, silent, left
  <2>5. /\ ~Settled /\ ~Due' /\ (Pong \/ Sign) =>
             Within(next + 2 * MaxStall + PingInterval)'
        /\ Settled /\ ~Pong /\ ~Due' =>
             Within(next + 2 * MaxStall + PingInterval)'
    <3> DEFINE bounded == silent + (left + 2 * MaxStall + PingInterval)
                            =< 2 * PingInterval + 3 * MaxStall
    <3>1. /\ ~Settled /\ left # 0 /\ (Pong \/ Sign) => bounded
          /\ Settled /\ ~Pong /\ left # 0 => bounded
      BY <1>1, <2>1, <2>2 DEF Inv, SilenceInv, Within, PingInterval
    <3>2. bounded => Within(next + 2 * MaxStall + PingInterval)'
      BY DEF Within, silent, left
    <3>3. Due' <=> left = 0
      BY <2>1 DEF left
    <3> HIDE DEF bounded
    <3>4. QED
      BY <3>1, <3>2, <3>3
  <2>6. Settled /\ ~Pong /\ Due' =>
          Within(2 * MaxStall + PingInterval - late)'
    <3>1. Settled /\ ~Pong /\ left = 0 =>
            silent + (2 * MaxStall + PingInterval - waited)
              =< 2 * PingInterval + 3 * MaxStall
      BY <1>1, <2>1, <2>2 DEF Inv, SilenceInv, Within, PingInterval
    <3>2. QED
      BY <2>1, <3>1 DEF Within, silent, waited, left
  <2>7. Settled /\ Pong => Within(3 * MaxStall + 2 * PingInterval - late)'
    <3>1. Settled /\ Pong =>
            silent + (3 * MaxStall + 2 * PingInterval - waited)
              =< 2 * PingInterval + 3 * MaxStall
      BY <1>1, <2>1, <2>2 DEF Inv, SilenceInv, Within, PingInterval
    <3>2. QED
      BY <3>1 DEF Within, silent, waited
  <2>8. QED
    BY <1>4, <2>3, <2>4, <2>5, <2>6, <2>7 DEF SilenceInv
<1>7. WelcomeInv'
  <2>1. queue' # << >> <=> queue # << >>
    BY TickKeepsQueue, QueueType DEF Inv
  <2>2. phase' = "connecting" =>
          ~heard' /\ (queue' # << >> => quiet' =< late')
    BY <1>1, <2>1 DEF Inv, WelcomeInv, Tick
  <2>3. phase' = "up" => \A i \in DOMAIN queue' : queue'[i].type # "welcome"
    BY TickKeepsQueue DEF Inv, WelcomeInv, Tick
  <2>4. QED
    BY <2>2, <2>3 DEF WelcomeInv
<1>8. HeardInv'
  BY <1>4 DEF Inv, HeardInv, Tick
<1>9. QED
  BY <1>3, <1>6, <1>7, <1>8 DEF Inv

\* A line ends the silence, whatever is due then.
LEMMA ReceiveInv ==
  ASSUME Inv, NEW type \in {"welcome", "line", "pong", "dropped"}, Receive(type)
  PROVE  Inv'
<1> DEFINE line == [type |-> type, after |-> TRUE, age |-> 0]
<1>1. /\ late \in 0 .. MaxStall /\ next \in 0 .. PingInterval
      /\ MaxStall \in Nat /\ MaxQuiet \in Nat /\ MaxQueue \in Nat
  BY PingTimerAssumption DEF Inv, TypeOK, MaxQuiet, PingInterval
<1>2. line \in Lines
  BY <1>1 DEF Lines
<1>3. /\ queue' = Append(queue, line) /\ queue' \in Seq(Lines)
      /\ Len(queue') = Len(queue) + 1 /\ DOMAIN queue' = 1 .. Len(queue) + 1
      /\ queue'[Len(queue) + 1] = line
      /\ \A i \in DOMAIN queue : i \in DOMAIN queue' /\ queue'[i] = queue[i]
  BY <1>2, QueueType DEF Receive, Inv, TypeOK
<1>4. TypeOK'
  <2>1. Len(queue') =< MaxQueue
    BY <1>1, <1>3, QueueType DEF Receive, Inv
  <2>2. owed' \in 0 .. 2 /\ quiet' \in 0 .. MaxQuiet /\ heard' \in BOOLEAN
    BY <1>1 DEF Receive, Inv, TypeOK
  <2>3. QED
    BY <1>3, <2>1, <2>2 DEF Inv, TypeOK, Receive
<1>5. SilenceInv'
  BY <1>1 DEF SilenceInv, Within, Receive, Due, PingInterval
<1>6. WelcomeInv'
  <2>1. phase' = "connecting" =>
          ~heard' /\ (queue' # << >> => quiet' =< late')
    BY <1>1 DEF Inv, TypeOK, WelcomeInv, Receive
  <2>2. phase' = "up" => \A i \in DOMAIN queue' : queue'[i].type # "welcome"
    BY <1>3, QueueType DEF Inv, WelcomeInv, Receive, Welcomed
  <2>3. QED
    BY <2>1, <2>2 DEF WelcomeInv
<1>7. HeardInv'
  <2>1. Sign => Sign'
    BY <1>3 DEF Sign
  <2>2. type # "dropped" => Sign'
    BY <1>3, QueueType DEF Sign, Inv
  <2>3. QED
    BY <2>1, <2>2 DEF Inv, HeardInv, Receive
<1>8. QED
  BY <1>4, <1>5, <1>6, <1>7 DEF Inv

\* A new PING makes the lines that are queued old.
LEMMA SendPingInv == ASSUME Inv, TimedSendPing PROVE Inv'
<1>1. /\ late \in 0 .. MaxStall /\ quiet \in Nat
      /\ MaxStall \in Nat /\ MaxQuiet \in Nat
  BY PingTimerAssumption DEF Inv, TypeOK, MaxQuiet, PingInterval
<1>2. queue' = [i \in 1 .. Len(queue) |-> [queue[i] EXCEPT !.after = FALSE]]
  BY QueueType DEF TimedSendPing, Inv
<1>3. \A i \in DOMAIN queue : [queue[i] EXCEPT !.after = FALSE] \in Lines
  BY QueueType DEF Lines, Inv
<1>4. queue' \in Seq(Lines) /\ DOMAIN queue' = DOMAIN queue
      /\ Len(queue') = Len(queue)
  BY <1>2, <1>3, QueueType DEF Inv
<1>5. \A i \in DOMAIN queue : queue'[i].type = queue[i].type /\ ~queue'[i].after
  BY <1>2, QueueType DEF Lines, Inv
<1>6. (Pong <=> Pong') /\ ~Sign'
  BY <1>4, <1>5 DEF Pong, Sign
<1>7. TypeOK'
  <2>1. <<pinged', fresh', heard'>> \in BOOLEAN \X BOOLEAN \X BOOLEAN
    BY DEF TimedSendPing
  <2>2. next' \in 0 .. PingInterval /\ owed' \in 0 .. 2 /\ late' \in 0 .. MaxStall
    BY <1>1 DEF Inv, TypeOK, TimedSendPing, PingInterval
  <2>3. phase' = phase /\ phase = "up" /\ quiet' = quiet
    BY DEF TimedSendPing, Due
  <2>4. Len(queue') =< MaxQueue
    BY <1>4 DEF Inv, TypeOK
  <2>5. QED
    BY <1>4, <2>1, <2>2, <2>3, <2>4 DEF Inv, TypeOK
<1>8. Settled /\ ~Settled' /\ phase = "up" /\ Due /\ ~Due'
  BY DEF TimedSendPing, TimedOut, Settled, Due, PingInterval
<1>9. SilenceInv'
  BY <1>1, <1>6, <1>8 DEF Inv, SilenceInv, Within, TimedSendPing, PingInterval
<1>10. WelcomeInv'
  BY <1>4, <1>5, <1>8 DEF Inv, WelcomeInv, TimedSendPing
<1>11. HeardInv'
  BY DEF HeardInv, TimedSendPing
<1>12. QED
  BY <1>7, <1>9, <1>10, <1>11 DEF Inv

\* A batch answers the PING, shows a sign of life or welcomes us.
LEMMA NetworkEventsInv == ASSUME Inv, NetworkEvents PROVE Inv'
<1>1. /\ late \in 0 .. MaxStall /\ quiet \in Nat /\ next \in 0 .. PingInterval
      /\ MaxStall \in Nat /\ MaxQuiet \in Nat /\ MaxQueue \in Nat
  BY PingTimerAssumption DEF Inv, TypeOK, MaxQuiet, PingInterval
<1>2. queue' = << >> /\ late' = 0 /\ quiet' = quiet /\ heard' = heard
  BY DEF NetworkEvents
<1>3. ~Pong' /\ ~Sign'
  BY <1>2 DEF Pong, Sign
<1>4. (Has("pong") <=> Pong)
      /\ (Sign <=> \E i \in Applied : queue[i].after)
  BY DEF Has, Applied, Pong, Sign
<1>5. next' \in 0 .. PingInterval
  <2>1. CASE ~Has("welcome")
    BY <1>1, <2>1 DEF NetworkEvents
  <2>2. CASE Has("welcome")
    <3>1. PICK i \in Applied : queue[i].type = "welcome"
                              /\ next' = FirstPingIn(queue[i].age)
      BY <2>2 DEF NetworkEvents, Has
    <3>2. queue[i].age \in Nat
      BY <1>1, QueueType DEF Applied, Lines, Inv
    <3>3. QED
      BY <3>1, <3>2 DEF FirstPingIn, FirstPing, PingInterval
  <2>3. QED
    BY <2>1, <2>2
<1>6. TypeOK'
  <2>1. <<pinged', fresh', heard'>> \in BOOLEAN \X BOOLEAN \X BOOLEAN
    <3>1. pinged' \in BOOLEAN /\ fresh' \in BOOLEAN /\ heard \in BOOLEAN
      BY DEF NetworkEvents, Inv, TypeOK
    <3>2. QED
      BY <1>2, <3>1
  <2>2. queue' \in Seq(Lines) /\ Len(queue') =< MaxQueue
    BY <1>1, <1>2
  <2>3. phase' \in {"connecting", "up", "aborted"}
        /\ (phase' = "connecting" => ~pinged')
    BY DEF NetworkEvents, Inv, TypeOK
  <2>4. QED
    <3>1. owed' \in 0 .. 2 /\ late' \in 0 .. MaxStall /\ quiet' \in 0 .. MaxQuiet
      BY <1>1, <1>2 DEF Inv, TypeOK, NetworkEvents
    <3>2. QED
      BY <1>5, <2>1, <2>2, <2>3, <3>1 DEF TypeOK
<1>7. SilenceInv'
  <2>1. CASE phase = "up"
    <3>1. ~Has("welcome")
      BY <2>1 DEF Inv, WelcomeInv, Has, Applied
    <3>2. phase' = "up" /\ next' = next /\ ~Due /\ ~Due'
      BY <2>1, <3>1 DEF NetworkEvents, Due
    <3>3. Settled' <=> Settled \/ Pong \/ Sign
      BY <1>4 DEF NetworkEvents, Settled, Inv, TypeOK
    <3>4. QED
      BY <1>1, <1>2, <1>3, <2>1, <3>2, <3>3
      DEF Inv, SilenceInv, Within, PingInterval
  <2>2. CASE phase = "connecting"
    <3>1. quiet =< late /\ Settled'
      BY <2>2 DEF NetworkEvents, Inv, TypeOK, WelcomeInv, Settled
    <3> DEFINE left == next'
    <3>2. left \in 0 .. 2 /\ quiet =< MaxStall
      BY <1>1, <1>5, <3>1 DEF PingInterval
    <3> HIDE DEF left
    <3>3. quiet + (left + 2 * MaxStall + PingInterval)
            =< 2 * PingInterval + 3 * MaxStall
          /\ (left = 0 => quiet + (2 * MaxStall + PingInterval - 0)
                            =< 2 * PingInterval + 3 * MaxStall)
      BY <1>1, <3>2 DEF PingInterval
    <3>4. Within(next + 2 * MaxStall + PingInterval)'
          /\ (Due' => Within(2 * MaxStall + PingInterval - late)')
      BY <1>2, <3>3 DEF Within, Due, left
    <3>5. QED
      BY <1>3, <3>1, <3>4 DEF SilenceInv
  <2>3. QED
    BY <2>1, <2>2 DEF NetworkEvents, Inv, TypeOK
<1>8. WelcomeInv'
  BY <1>2 DEF WelcomeInv, Inv, NetworkEvents
<1>9. HeardInv'
  BY <1>4 DEF HeardInv, Inv, NetworkEvents
<1>10. QED
  BY <1>6, <1>7, <1>8, <1>9 DEF Inv

\* An aborted connection has no timer.
LEMMA DisconnectInv == ASSUME Inv, TimedDisconnect PROVE Inv'
<1>1. TypeOK'
  BY DEF Inv, TypeOK, TimedDisconnect
<1>2. SilenceInv' /\ WelcomeInv'
  BY DEF SilenceInv, WelcomeInv, TimedDisconnect
<1>3. HeardInv'
  BY DEF Inv, HeardInv, Sign, TimedDisconnect
<1>4. QED
  BY <1>1, <1>2, <1>3 DEF Inv

\* Every step keeps the invariant.
LEMMA StepInv == Inv /\ [Next]_vars => Inv'
<1> SUFFICES ASSUME Inv, [Next]_vars PROVE Inv'
  OBVIOUS
<1>1. CASE Tick
  BY <1>1, TickInv
<1>2. ASSUME NEW type \in {"welcome", "line", "pong", "dropped"}, Receive(type)
      PROVE  Inv'
  BY <1>2, ReceiveInv
<1>3. CASE TimedSendPing
  BY <1>3, SendPingInv
<1>4. CASE TimedDisconnect
  BY <1>4, DisconnectInv
<1>5. CASE NetworkEvents
  BY <1>5, NetworkEventsInv
<1>6. CASE UNCHANGED vars
  BY <1>6 DEF vars, Inv, TypeOK, SilenceInv, Within, Settled, Due, Pong, Sign,
              WelcomeInv, HeardInv
<1>7. QED
  BY <1>1, <1>2, <1>3, <1>4, <1>5, <1>6 DEF Next

\* The invariant holds throughout.
LEMMA Invariance == Spec => []Inv
BY InitInv, StepInv, PTL DEF Spec

\* The timer, its flags and the queue keep their types: the first deadline
\* after the welcome lies in neither the past nor too far ahead.
THEOREM TypeCorrect == Spec => []TypeOK
<1>1. Inv => TypeOK
  BY DEF Inv
<1>2. QED
  BY <1>1, Invariance, PTL

\* A registered connection that fell silent is given up within two minutes and
\* three times what the loop may be busy, for every such time, whatever PONGs,
\* dropped lines and deadlines came in between.
THEOREM SilenceIsDetected == Spec => []SilenceDetected
<1>1. Inv => SilenceDetected
  BY PingTimerAssumption
  DEF Inv, TypeOK, SilenceInv, Within, Due, SilenceDetected, PingInterval,
      MaxQuiet
<1>2. QED
  BY <1>1, Invariance, PTL

\* No connection is timed out that a line has reached since the last PING,
\* when the loop has taken it from the queue.
THEOREM NoTimeoutIsFalse == Spec => NoFalseTimeout
<1>1. Inv /\ [Next]_vars =>
        [phase = "up" /\ phase' = "aborted" => ~heard \/ queue # << >>]_vars
  <2> SUFFICES ASSUME Inv, [Next]_vars, phase = "up", phase' = "aborted"
               PROVE  ~heard \/ queue # << >>
    OBVIOUS
  <2>1. TimedDisconnect
    BY DEF Next, vars, Tick, Receive, TimedSendPing, NetworkEvents
  <2>2. pinged /\ ~fresh
    BY <2>1 DEF TimedDisconnect, TimedOut
  <2>3. heard => Sign
    BY <2>2 DEF Inv, HeardInv
  <2>4. Sign => queue # << >>
    BY QueueType DEF Sign, Inv
  <2>5. QED
    BY <2>3, <2>4
<1>2. QED
  BY <1>1, Invariance, PTL DEF Spec, NoFalseTimeout
=============================================================================
