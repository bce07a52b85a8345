---------------------------- MODULE LuaExtension ----------------------------
(***************************************************************************)
(* The Lua extension (lua-extension/glirc-lua.c, glirc-thread.c and the    *)
(* timer and system functions of glirc-lib.c) in the client of             *)
(* ExtensionHost: one Lua interpreter per configured script, callbacks     *)
(* kept in the interpreter's registry until the client calls them.         *)
(*                                                                         *)
(* A script may do anything the library offers in any callback.  The       *)
(* library's other functions do not touch this state (LuaLibrary); all of  *)
(* them can raise an error, which ends the callback (Raise).               *)
(***************************************************************************)
EXTENDS ExtensionHost

CONSTANT
  Habits  \* what scripts do beyond the ordinary: "failsLate" raises an error
          \* from the script after registering a callback, "lateTimer" and
          \* "lateThread" register one in the stop callback

ASSUME LuaExtensionAssumption ==
  Habits \subseteq {"failsLate", "lateTimer", "lateThread"}

VARIABLES
  interp,  \* by session: "unused", "open" or "closed" (lua_close)
  roots,   \* by session: thread states its registry keeps alive
  home     \* by thread state: the interpreter st->L, Null before it is made

vars == <<hostVars, interp, roots, home>>
luaVars == <<interp, roots, home>>

Init ==
  /\ HostInit
  /\ interp = [L \in Sessions |-> "unused"]
  /\ roots = [L \in Sessions |-> {}]
  /\ home = [d \in Data |-> Null]

Entering(kinds) ==
  call.stage = "entered" /\ call.kind \in kinds /\ fault = "none"

Unused == {L \in Sessions : interp[L] = "unused"}
Fresh == {d \in Data : home[d] = Null}

\* The script runs with interpreter L.
Runs(L) == call' = [call EXCEPT !.session = L, !.stage = "script"]

(***************************************************************************)
(* Entry points.                                                           *)
(***************************************************************************)

\* start: a new interpreter runs the script, or there is no memory for one.
Start ==
  /\ Entering({"start"})
  /\ IF Unused = {}
     THEN Returned(Null, FALSE) /\ UNCHANGED interp
     ELSE LET L == CHOOSE L \in Unused : TRUE
          IN /\ interp' = [interp EXCEPT ![L] = "open"]
             /\ Runs(L)
             /\ UNCHANGED <<active, todo>>
  /\ UNCHANGED <<starts, running, joins, phase, fault, events, roots, home>>

\* The other entry points: nothing to do after a failed start.
Entry ==
  /\ Entering({"stop", "message", "chat", "command"})
  /\ IF call.session = Null
     THEN Returned(Null, FALSE) /\ UNCHANGED fault
     ELSE /\ UNCHANGED <<active, todo>>
          /\ IF interp[call.session] = "open"
             THEN Runs(call.session) /\ UNCHANGED fault
             ELSE fault' = "dangling" /\ UNCHANGED call
  /\ UNCHANGED <<starts, running, joins, phase, events, luaVars>>

\* Is thread state d still there?
Alive(d) == home[d] # Null /\ interp[home[d]] = "open" /\ d \in roots[home[d]]

\* Mutant of FreeThreadState: the registry keeps it.
FreeThreadStateKeepsIt(d) == UNCHANGED roots

\* free_thread_state: the registry lets go of d.
FreeThreadState(d) == roots' = [roots EXCEPT ![home[d]] = @ \ {d}]

\* on_timer, finish_system: take the callback out of the thread state, free
\* it, and run the callback in the interpreter that made it.
Continuation ==
  /\ Entering({"timer", "finish"})
  /\ IF Alive(call.data)
     THEN /\ FreeThreadState(call.data)
          /\ Runs(home[call.data])
          /\ UNCHANGED fault
     ELSE /\ fault' = "dangling"
          /\ UNCHANGED <<call, roots>>
  /\ UNCHANGED <<active, todo, starts, running, joins, phase, events, interp,
                 home>>

(***************************************************************************)
(* What the script does.                                                   *)
(***************************************************************************)

Script == call.stage = "script" /\ fault = "none"

\* new_thread_state: made in the interpreter that runs, kept by its registry.
NewThreadState(d) ==
  /\ d = CHOOSE e \in Fresh : TRUE
  /\ home' = [home EXCEPT ![d] = call.session]
  /\ roots' = [roots EXCEPT ![call.session] = @ \cup {d}]

\* glirc.set_timer
SetTimer ==
  /\ Script /\ Fresh # {}
  /\ call.kind = "stop" => "lateTimer" \in Habits
  /\ \E d \in Fresh : NewThreadState(d) /\ PushTimer(d)
  /\ UNCHANGED <<call, todo, starts, running, joins, phase, events, interp>>

\* glirc.cancel_timer of a timer this extension has; of any other it raises.
CancelTimer(d) ==
  /\ Script /\ HasTimer(d)
  /\ DropTimer(d)
  /\ FreeThreadState(d)
  /\ UNCHANGED <<call, todo, starts, running, joins, phase, fault, events,
                 interp, home>>

\* glirc.system
System ==
  /\ Script /\ Fresh # {}
  /\ call.kind = "stop" => "lateThread" \in Habits
  /\ \E d \in Fresh : NewThreadState(d) /\ ForkThread(d)
  /\ UNCHANGED <<call, todo, starts, joins, phase, fault, events, interp>>

\* Mutant of Close: the interpreter is left open.
CloseForgotten(L) == UNCHANGED <<interp, roots>>

\* lua_close
Close(L) ==
  /\ interp' = [interp EXCEPT ![L] = "closed"]
  /\ roots' = [roots EXCEPT ![L] = {}]

Stays == UNCHANGED <<interp, roots>>

\* The callback ends without an error; TRUE drops the line.
Return(drop) ==
  /\ Script
  /\ Returned(call.session, drop)
  /\ IF call.kind = "stop" THEN Close(call.session) ELSE Stays
  /\ UNCHANGED <<starts, running, joins, phase, fault, events, home>>

\* An error reaches lua_pcall: it is printed and the line passes.  A script
\* that fails has its interpreter closed; the client is told Null.
Raise ==
  /\ Script
  /\ call.kind = "start" /\ roots[call.session] # {} => "failsLate" \in Habits
  /\ Returned(Null, FALSE)
  /\ IF call.kind \in {"start", "stop"} THEN Close(call.session) ELSE Stays
  /\ UNCHANGED <<starts, running, joins, phase, fault, events, home>>

Callback ==
  \/ Start \/ Entry \/ Continuation
  \/ SetTimer \/ System \/ \E d \in Data : CancelTimer(d)
  \/ Raise \/ \E drop \in BOOLEAN : Return(drop)

Threads == \E t \in running : ThreadEnds(t)

Next ==
  \/ (HostLoop \/ HostInput \/ Threads) /\ UNCHANGED luaVars
  \/ Callback

Spec == Init /\ [][Next]_vars

\* The event loop goes on, prefers a due timer (asum [timer, ...]) and is not
\* kept busy by input for ever (MaxEvents); scripts return from their
\* callbacks and system commands end.
FairSpec ==
  /\ Spec
  /\ WF_vars(HostLoop /\ UNCHANGED luaVars)
  /\ WF_vars(Start \/ Entry \/ Continuation)
  /\ WF_vars(\E drop \in BOOLEAN : Return(drop))
  /\ WF_vars(Threads /\ UNCHANGED luaVars)

(***************************************************************************)
(* Properties.                                                             *)
(***************************************************************************)

Outstanding == running \cup {joins[n] : n \in 1 .. Len(joins)}

TypeOK ==
  /\ DOMAIN active \subseteq Ids
  /\ \A i \in DOMAIN active :
       active[i] \in [session : Handle, timers : SUBSET Data, threads : Nat,
                      live : BOOLEAN]
  /\ call \in {NoCall} \cup
       [kind : Kinds, ext : Ids, session : Handle, data : Data \cup {Null},
        stage : {"entered", "script"}]
  /\ todo \subseteq [kind : Kinds, ext : Ids, session : Handle,
                     data : {Null}, stage : {"entered"}]
  /\ starts \in 0 .. MaxScripts
  /\ Outstanding \subseteq [ext : Ids, data : Data]
  /\ phase \in {"up", "leaving", "gone"}
  /\ fault \in {"none", "error", "dangling"}
  /\ events \in 0 .. MaxEvents
  /\ interp \in [Sessions -> {"unused", "open", "closed"}]
  /\ roots \in [Sessions -> SUBSET Data]
  /\ home \in [Data -> Handle]

\* Whatever the order of reloads, timers, commands and their ends, the client
\* never calls back with a thread state that was freed or an interpreter that
\* was closed, and never looks up an extension that is gone.
CallbackAlive == fault = "none"

\* The interpreter that serves extension i; a start callback has not returned
\* it yet.
Serving(i) ==
  IF call.kind = "start" /\ call.ext = i THEN call.session
  ELSE active[i].session

Awaited(i) == {t \in Outstanding : t.ext = i}

\* The thread states extension i is to be called with.
Due(i) == active[i].timers \cup {t.data : t \in Awaited(i)}

\* The client and the interpreters agree on what is registered: the threads
\* counted are those not joined yet, and the registry of a live extension
\* holds exactly the thread states the client will call, no more (a leak) and
\* no fewer.  A disabled one is not called with its thread states, but still
\* holds them.
RegistrationsHeld ==
  /\ \A t \in Outstanding : t.ext \in DOMAIN active
  /\ \A i \in DOMAIN active :
       /\ active[i].threads = Cardinality(Awaited(i))
       /\ Serving(i) # Null /\ call.stage # "entered" =>
            /\ Due(i) \subseteq roots[Serving(i)]
            /\ active[i].live => roots[Serving(i)] = Due(i)

\* Every interpreter that is open belongs to one extension, or is the one a
\* callback is stopping, or waits its turn to be stopped; none is left behind
\* by a reload, a failed script or a delayed stop.
InterpretersOwned ==
  \A L \in Sessions :
    interp[L] = "open" <=>
      \/ \E i \in DOMAIN active : Serving(i) = L
      \/ call.session = L
      \/ \E c \in todo : c.kind = "stop" /\ c.session = L

\* A disabled extension is unloaded once its threads are done, unless the
\* client exits first.
DelayedStop ==
  \A L \in Sessions :
    (\E i \in DOMAIN active : active[i].session = L /\ ~active[i].live)
      ~> (interp[L] = "closed" \/ phase # "up")

Registered(d) ==
  \/ \E t \in Outstanding : t.data = d
  \/ \E i \in DOMAIN active : d \in active[i].timers

\* A callback that was registered is called, cancelled or unloaded.
CallbackSettled ==
  \A d \in Data : Registered(d) ~> (~Registered(d) \/ phase # "up")
=============================================================================
