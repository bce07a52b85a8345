----------------------------- MODULE PingTimer ------------------------------
(***************************************************************************)
(* The ping timer of one registered connection: csNextPingTime,            *)
(* csPingStatus and csLastReceived of Client.State.Network, driven by      *)
(* getEvent of Client.EventLoop, which looks at the timer before it looks  *)
(* at the lines the receiving thread has queued.                           *)
(*                                                                         *)
(* Time passes in ticks of 30 seconds.  Instants inside a tick are told    *)
(* apart by order alone: a line is "after" when it was received after the  *)
(* last PING was sent.  The latency and its expiry are left out.           *)
(***************************************************************************)
EXTENDS Integers, Sequences

CONSTANTS
  MaxStall,   \* ticks the event loop may be busy while events wait for it
  Drops,      \* whether an extension or a message hook drops some lines
  MaxQueue    \* bound: lines waiting

ASSUME PingTimerAssumption ==
  MaxStall \in Nat /\ Drops \in BOOLEAN /\ MaxQueue \in Nat \ {0}

VARIABLES
  phase,   \* "connecting", "up" or "aborted"
  pinged,  \* csPingStatus is PingSent
  next,    \* ticks until csNextPingTime, 0 when due
  fresh,   \* the PING was sent before csLastReceived
  queue,   \* lines received and not handled yet
  owed,    \* PINGs the server has not answered, counted up to 2
  late,    \* ticks the loop has let events wait
  quiet,   \* ticks since a line was received
  heard    \* a line that counts came since the last PING

vars == <<phase, pinged, next, fresh, queue, owed, late, quiet, heard>>

PingInterval == 2     \* 60 seconds
FirstPing    == 1     \* 30 seconds after RPL_WELCOME
MaxQuiet     == 2 * PingInterval + 3 * MaxStall + 1
                      \* cap of quiet and of a line's age

Lines == [type : {"welcome", "line", "pong", "dropped"}, after : BOOLEAN,
          age : 0..MaxQuiet]

TypeOK ==
  /\ phase \in {"connecting", "up", "aborted"}
  /\ next \in 0..PingInterval
  /\ <<pinged, fresh, heard>> \in BOOLEAN \X BOOLEAN \X BOOLEAN
  /\ queue \in Seq(Lines) /\ Len(queue) =< MaxQueue
  /\ owed \in 0..2 /\ late \in 0..MaxStall /\ quiet \in 0..MaxQuiet
  /\ phase = "connecting" => ~pinged

Init ==
  /\ phase = "connecting" /\ pinged = FALSE /\ next = FirstPing /\ fresh = FALSE
  /\ queue = << >> /\ owed = 0 /\ late = 0 /\ quiet = 0 /\ heard = FALSE

Due == phase = "up" /\ next = 0

(***************************************************************************)
(* Time, and the lines it brings.                                          *)
(***************************************************************************)
Older(age) == IF age < MaxQuiet THEN age + 1 ELSE age

Tick ==
  LET waiting == Due \/ queue # << >> IN
  /\ phase # "aborted"
  /\ waiting => late < MaxStall
  /\ late' = IF waiting THEN late + 1 ELSE 0
  /\ next' = IF phase = "up" /\ next > 0 THEN next - 1 ELSE next
  /\ quiet' = Older(quiet)
  /\ queue' = [i \in DOMAIN queue |-> [queue[i] EXCEPT !.age = Older(@)]]
  /\ UNCHANGED <<phase, pinged, fresh, owed, heard>>

Welcomed == phase # "connecting" \/ \E i \in DOMAIN queue : queue[i].type = "welcome"

\* receiveLoop: the line is stamped with the time it is read.
Receive(type) ==
  /\ phase # "aborted" /\ Len(queue) < MaxQueue
  /\ type = "welcome" => ~Welcomed
  /\ type \in {"pong", "dropped"} => Welcomed
  /\ type = "pong" => owed > 0
  /\ type = "dropped" => Drops
  /\ queue' = Append(queue, [type |-> type, after |-> TRUE, age |-> 0])
  /\ owed' = IF type = "pong" THEN owed - 1 ELSE owed
  /\ quiet' = 0
  /\ heard' = (heard \/ (pinged /\ type # "dropped"))
  /\ UNCHANGED <<phase, pinged, next, fresh, late>>

(***************************************************************************)
(* The event loop.                                                         *)
(***************************************************************************)
\* Mutant of TimedOut: only a PONG counts as a sign of life.
TimedOutWithoutPong == pinged

\* nextPingAction: an unanswered PING and nothing received since.
TimedOut == pinged /\ ~fresh

\* Mutant of TimedSendPing: the time of the first PING is kept.
TimedSendPingKeepsTime ==
  /\ Due /\ ~TimedOut
  /\ pinged' = TRUE /\ next' = PingInterval
  /\ owed' = IF owed < 2 THEN owed + 1 ELSE owed
  /\ late' = 0 /\ heard' = FALSE
  /\ UNCHANGED <<phase, quiet, fresh, queue>>

TimedSendPing ==
  /\ Due /\ ~TimedOut
  /\ pinged' = TRUE /\ fresh' = FALSE /\ next' = PingInterval
  /\ queue' = [i \in DOMAIN queue |-> [queue[i] EXCEPT !.after = FALSE]]
  /\ owed' = IF owed < 2 THEN owed + 1 ELSE owed
  /\ late' = 0 /\ heard' = FALSE
  /\ UNCHANGED <<phase, quiet>>

TimedDisconnect ==
  /\ Due /\ TimedOut
  /\ phase' = "aborted"
  /\ UNCHANGED <<pinged, next, fresh, queue, owed, late, quiet, heard>>

Applied == {i \in DOMAIN queue : queue[i].type # "dropped"}
Has(type) == \E i \in Applied : queue[i].type = type

\* doWelcome counts from the time the line was received.
FirstPingIn(age) == IF age < FirstPing THEN FirstPing - age ELSE 0

\* One batch: every line applied moves csLastReceived, a PONG ends the wait
\* (doPong).  With the timer due, getEvent returns that instead.
NetworkEvents ==
  /\ ~Due /\ phase # "aborted" /\ queue # << >>
  /\ phase' = IF Has("welcome") THEN "up" ELSE phase
  /\ next' = IF ~Has("welcome") THEN next
             ELSE LET i == CHOOSE j \in Applied : queue[j].type = "welcome"
                  IN FirstPingIn(queue[i].age)
  /\ pinged' = (pinged /\ ~Has("pong"))
  /\ fresh' = (pinged' /\ (fresh \/ \E i \in Applied : queue[i].after))
  /\ queue' = << >> /\ late' = 0
  /\ UNCHANGED <<owed, quiet, heard>>

Next ==
  \/ Tick
  \/ \E type \in {"welcome", "line", "pong", "dropped"} : Receive(type)
  \/ TimedSendPing \/ TimedDisconnect \/ NetworkEvents

Spec == Init /\ [][Next]_vars

(***************************************************************************)
(* Properties.                                                             *)
(***************************************************************************)

\* "Avoid ping timeout disconnects while other packets are still arriving"
\* (ChangeLog.md:14): a line since the last PING prevents the timeout, unless
\* it was dropped or the loop was too busy to have taken it from the queue.
NoFalseTimeout ==
  [][phase = "up" /\ phase' = "aborted" => ~heard \/ queue # << >>]_vars

\* A registered connection whose server fell silent is given up in two minutes,
\* plus the time the loop was busy: at the deadline that sends a PING before
\* an earlier PONG is handled, at the next one and at the last.
SilenceDetected == phase = "up" => quiet =< 2 * PingInterval + 3 * MaxStall
=============================================================================
