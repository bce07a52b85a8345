--------------------------- MODULE ExtensionHost ----------------------------
(***************************************************************************)
(* The client's side of its extensions: Client.State.Extensions, the part  *)
(* of Client.CApi that keeps timers and threads, the entry points timers   *)
(* and threads are registered through, and the event loop that calls in.   *)
(*                                                                         *)
(* One thread runs the event loop, all handlers and every callback, so a   *)
(* handler is the calls it still has to make ("todo", in the order of the  *)
(* ids, then "starts" extensions to start), and "call" is the callback     *)
(* that runs now: while there is one the client's state is parked in       *)
(* esMVar for the extension call.ext.  What a callback does is the         *)
(* extension's (LuaExtension).  A timer id or thread stands for the        *)
(* pointer registered with it; delays are left open: any timer may be due. *)
(***************************************************************************)
EXTENDS Integers, Sequences, FiniteSets

CONSTANTS
  Data,        \* pointers an extension registers with its timers and threads
  Sessions,    \* pointers its start callback returns
  Null,        \* the null pointer
  MaxScripts,  \* extensions in the configuration
  MaxEvents,   \* reloads, messages, chats and commands
  MaxId        \* bound of the extension ids

ASSUME ExtensionHostAssumption ==
  /\ Null \notin Sessions /\ Null \notin Data
  /\ MaxScripts \in Nat /\ MaxEvents \in Nat /\ MaxId \in Nat

VARIABLES
  active,    \* esActive: by extension id
  call,      \* the callback that runs, NoCall if none
  todo,      \* the calls the handler still makes
  starts,    \* the extensions it then starts
  running,   \* threads: [ext, data]
  joins,     \* clientThreadJoins
  phase,     \* "up", "leaving" (clientShutdown), "gone"
  fault,     \* "none"; "error" was called; "dangling" memory was used
  events     \* counts up to MaxEvents

hostVars == <<active, call, todo, starts, running, joins, phase, fault, events>>

Ids == 0 .. MaxId
Kinds == {"start", "stop", "message", "chat", "command", "timer", "finish"}
Handle == Sessions \cup {Null}

NoCall == [kind |-> "none", ext |-> 0, session |-> Null, data |-> Null,
           stage |-> "done"]

\* The client calls a function of extension i; it has not done anything yet.
Call(kind, i, session, data) ==
  [kind |-> kind, ext |-> i, session |-> session, data |-> data,
   stage |-> "entered"]

Idle == call = NoCall /\ todo = {} /\ starts = 0 /\ phase = "up" /\ fault = "none"

\* openExtension: nothing registered yet, live.
Opened == [session |-> Null, timers |-> {}, threads |-> 0, live |-> TRUE]

LiveExts == {i \in DOMAIN active : active[i].live}

\* The same call of every extension of S, with the state its start returned.
EachOf(kind, S) == {Call(kind, i, active[i].session, Null) : i \in S}

HostInit ==
  /\ active = << >>
  /\ call = NoCall /\ todo = {} /\ starts \in 0 .. MaxScripts
  /\ running = {} /\ joins = << >>
  /\ phase = "up" /\ fault = "none" /\ events = 0

(***************************************************************************)
(* Handlers of the event loop.                                             *)
(***************************************************************************)

Event ==
  /\ Idle /\ events < MaxEvents
  /\ events' = events + 1

\* Mutant of ReadyToClose: threads are not waited for.
ReadyToCloseNow == DOMAIN active

\* readyToClose
ReadyToClose == {i \in DOMAIN active : active[i].threads = 0}

\* clientStopExtensions: what is ready leaves the table before its stop
\* callback runs, the rest is disabled until its threads are done.
StopExtensions ==
  active' = [i \in DOMAIN active \ ReadyToClose |->
               [active[i] EXCEPT !.live = FALSE]]

\* /reload
Reload ==
  /\ Event
  /\ StopExtensions
  /\ todo' = EachOf("stop", ReadyToClose)
  /\ starts' \in 0 .. MaxScripts
  /\ UNCHANGED <<call, running, joins, phase, fault>>

\* /exit: clientShutdown stops the extensions once, and the process ends.
Quit ==
  /\ Idle
  /\ StopExtensions
  /\ todo' = EachOf("stop", ReadyToClose)
  /\ phase' = "leaving"
  /\ UNCHANGED <<call, starts, running, joins, fault, events>>

Exit ==
  /\ phase = "leaving" /\ call = NoCall /\ todo = {}
  /\ phase' = "gone"
  /\ UNCHANGED <<active, call, todo, starts, running, joins, fault, events>>

\* A line from a server, or a line of chat: offered to the live extensions in
\* turn until one drops it.
Offer(kind) ==
  /\ Event
  /\ todo' = EachOf(kind, LiveExts)
  /\ UNCHANGED <<active, call, starts, running, joins, phase, fault>>

\* /extension Lua ...: the first live extension of that name; every script's
\* name is "Lua".
Command ==
  /\ Event
  /\ \E i \in LiveExts :
       /\ \A j \in LiveExts : i =< j
       /\ todo' = EachOf("command", {i})
  /\ UNCHANGED <<active, call, starts, running, joins, phase, fault>>

\* clientExtTimer: the timer leaves the queue, then its callback runs.
TimerFires(i, d) ==
  /\ Idle
  /\ i \in LiveExts /\ d \in active[i].timers
  /\ active' = [active EXCEPT ![i].timers = @ \ {d}]
  /\ call' = Call("timer", i, active[i].session, d)
  /\ UNCHANGED <<todo, starts, running, joins, phase, fault, events>>

\* clientThreadJoin of a thread of a missing extension: (^?!).
JoinMissing(i) ==
  /\ i \notin DOMAIN active
  /\ fault' = "error"
  /\ UNCHANGED <<active, call>>

\* A live extension's finish callback runs.
JoinLive(i, d) ==
  /\ i \in LiveExts
  /\ active' = [active EXCEPT ![i].threads = @ - 1]
  /\ call' = Call("finish", i, active[i].session, d)
  /\ UNCHANGED fault

\* Mutant of JoinDisabled: it looks at the count of before the join.
JoinDisabledEarly(i) ==
  /\ i \in DOMAIN active \ LiveExts
  /\ IF active[i].threads = 0
     THEN /\ active' = [j \in DOMAIN active \ {i} |-> active[j]]
          /\ call' = Call("stop", i, active[i].session, Null)
     ELSE /\ active' = [active EXCEPT ![i].threads = @ - 1]
          /\ UNCHANGED call
  /\ UNCHANGED fault

\* A disabled one is stopped with its last thread.
JoinDisabled(i) ==
  /\ i \in DOMAIN active \ LiveExts
  /\ IF active[i].threads = 1
     THEN /\ active' = [j \in DOMAIN active \ {i} |-> active[j]]
          /\ call' = Call("stop", i, active[i].session, Null)
     ELSE /\ active' = [active EXCEPT ![i].threads = @ - 1]
          /\ UNCHANGED call
  /\ UNCHANGED fault

ThreadJoin ==
  /\ Idle /\ joins # << >>
  /\ LET i == Head(joins).ext
     IN JoinMissing(i) \/ JoinLive(i, Head(joins).data) \/ JoinDisabled(i)
  /\ joins' = Tail(joins)
  /\ UNCHANGED <<todo, starts, running, phase, events>>

\* The next call of the handler is clientPark'ed: putMVar finds esMVar empty.
Park ==
  /\ call = NoCall /\ fault = "none"
  /\ \E c \in todo :
       /\ \A other \in todo : c.ext =< other.ext
       /\ call' = c
       /\ todo' = todo \ {c}
  /\ UNCHANGED <<active, starts, running, joins, phase, fault, events>>

\* The id after the largest in the table.
NextId(i) ==
  IF DOMAIN active = {} THEN i = 0
  ELSE i - 1 \in DOMAIN active /\ \A j \in DOMAIN active : j < i

\* start1: the extension is in the table before its start callback runs, or
\* the object cannot be opened and is skipped.
Start1 ==
  /\ call = NoCall /\ fault = "none" /\ todo = {} /\ starts > 0
  /\ \/ \E i \in Ids :
          /\ NextId(i)
          /\ active' = [j \in DOMAIN active \cup {i} |->
                          IF j = i THEN Opened ELSE active[j]]
          /\ call' = Call("start", i, Null, Null)
     \/ UNCHANGED <<active, call>>
  /\ starts' = starts - 1
  /\ UNCHANGED <<todo, running, joins, phase, fault, events>>

(***************************************************************************)
(* The entry points of the client, called while a callback runs: what they *)
(* do to the extension the state is parked for.                            *)
(***************************************************************************)

\* glirc_set_timer: singular (ix i) of an extension that left the table.
PushTimer(d) ==
  IF call.ext \in DOMAIN active
  THEN /\ active' = [active EXCEPT ![call.ext].timers = @ \cup {d}]
       /\ UNCHANGED fault
  ELSE /\ fault' = "error"
       /\ UNCHANGED active

\* Is there such a timer to cancel?
HasTimer(d) ==
  call.ext \in DOMAIN active /\ d \in active[call.ext].timers

\* glirc_cancel_timer of a timer there is.
DropTimer(d) == active' = [active EXCEPT ![call.ext].timers = @ \ {d}]

\* glirc_thread: the thread is forked in any case, and counted if its
\* extension is still in the table.
ForkThread(d) ==
  /\ running' = running \cup {[ext |-> call.ext, data |-> d]}
  /\ active' = IF call.ext \in DOMAIN active
               THEN [active EXCEPT ![call.ext].threads = @ + 1]
               ELSE active

\* The thread of glirc_thread: its result is queued for the event loop.
ThreadEnds(t) ==
  /\ t \in running /\ phase # "gone" /\ fault = "none"
  /\ running' = running \ {t}
  /\ joins' = Append(joins, t)
  /\ UNCHANGED <<active, call, todo, starts, phase, fault, events>>

\* The callback is over: takeMVar.  A start callback's result is kept if the
\* extension is still there; a dropped line goes no further.
Returned(session, drop) ==
  /\ call' = NoCall
  /\ active' = IF call.kind = "start" /\ call.ext \in DOMAIN active
               THEN [active EXCEPT ![call.ext].session = session]
               ELSE active
  /\ todo' = IF call.kind \in {"message", "chat"} /\ drop THEN {} ELSE todo

HostLoop ==
  \/ Park \/ Start1 \/ ThreadJoin \/ Exit
  \/ \E i \in Ids, d \in Data : TimerFires(i, d)

HostInput == Reload \/ Quit \/ Offer("message") \/ Offer("chat") \/ Command
=============================================================================
