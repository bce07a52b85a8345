------------------------- MODULE LuaExtensionProofs --------------------------
(***************************************************************************)
(* Proofs about LuaExtension: the interpreters, the registered callbacks   *)
(* and the extension table agree, and no callback runs on freed memory,    *)
(* for every number of scripts, timers, threads and events, as long as     *)
(* scripts keep to Habits = {}.                                            *)
(***************************************************************************)
EXTENDS LuaExtension, FiniteSetTheorems, TLAPS

\* Scripts do not fail after registering a callback, and register none while
\* they are stopped.
Ordinary == Habits = {}

Thread == [ext : Ids, data : Data]
Extension ==
  [session : Handle, timers : SUBSET Data, threads : Nat, live : BOOLEAN]

TypeInv ==
  /\ TypeOK
  /\ active \in [DOMAIN active -> Extension]
  /\ joins \in Seq(Thread) /\ running \subseteq Thread

\* A thread runs or waits to be joined, once, and its extension waits for it.
ThreadsInv ==
  /\ IsFiniteSet(Outstanding)
  /\ \A m, n \in 1 .. Len(joins) : joins[m] = joins[n] => m = n
  /\ \A n \in 1 .. Len(joins) : joins[n] \notin running
  /\ \A t \in Outstanding : t.ext \in DOMAIN active
  /\ \A i \in DOMAIN active : active[i].threads = Cardinality(Awaited(i))

\* The thread state extension i is called with and has not freed yet.
Pending(i) ==
  IF call.kind \in {"timer", "finish"} /\ call.stage = "entered" /\ call.ext = i
  THEN {call.data} ELSE {}

\* An interpreter's registry holds what its extension is to be called with.
HeldInv ==
  /\ \A i \in DOMAIN active :
       /\ Serving(i) = Null => Due(i) = {}
       /\ Serving(i) # Null => Due(i) \subseteq roots[Serving(i)]
       /\ \A t \in Awaited(i) : t.data \notin active[i].timers
       /\ active[i].live /\ Serving(i) # Null =>
            roots[Serving(i)] = Due(i) \cup Pending(i)
  /\ \A L \in Sessions : \A d \in roots[L] : home[d] = L

\* The stop callbacks that run or wait for their turn.
Stops ==
  {c \in todo : c.kind = "stop"}
    \cup (IF call.kind = "stop" THEN {call} ELSE {})

\* An open interpreter has one owner.
OwnedInv ==
  /\ \A L \in Sessions :
       interp[L] = "open" <=> \/ \E i \in DOMAIN active : Serving(i) = L
                              \/ \E c \in Stops : c.session = L
  /\ \A L \in Sessions : interp[L] # "open" => roots[L] = {}
  /\ \A i, j \in DOMAIN active :
       Serving(i) = Serving(j) /\ Serving(i) # Null => i = j
  /\ \A i \in DOMAIN active, c \in Stops :
       Serving(i) = c.session => c.session = Null
  /\ \A b, c \in Stops : b.session = c.session /\ b.session # Null => b = c

Hooks == {"message", "chat", "command"}

\* The callback that runs is one of the handler that is under way.
CallInv ==
  /\ call = NoCall \/ call.kind \in Kinds
  /\ call.kind = "start" =>
       /\ todo = {} /\ call.ext \in LiveExts
       /\ active[call.ext].session = Null
       /\ call.stage = "entered" => call.session = Null
  /\ call.kind \in Hooks =>
       /\ call.ext \in LiveExts /\ call.session = active[call.ext].session
       /\ \A c \in todo : c.kind \in Hooks
  /\ call.kind \in {"timer", "finish"} =>
       /\ todo = {} /\ call.ext \in LiveExts
       /\ call.session = active[call.ext].session /\ call.session # Null
       /\ call.stage = "entered" =>
            call.data \in roots[call.session] /\ call.data \notin Due(call.ext)
  /\ call.kind = "stop" =>
       /\ call.ext \notin DOMAIN active /\ call \notin todo
       /\ \A c \in todo : c.kind = "stop"
  /\ call.stage = "script" => call.session # Null

\* The calls to come are hooks of live extensions or stops of removed ones.
TodoInv ==
  /\ (\A c \in todo : c.kind = "stop") \/ (\A c \in todo : c.kind \in Hooks)
  /\ \A c \in todo :
       IF c.kind = "stop" THEN c.ext \notin DOMAIN active
       ELSE c.ext \in LiveExts /\ c.session = active[c.ext].session

Inv ==
  /\ fault = "none"
  /\ ThreadsInv /\ HeldInv /\ OwnedInv /\ CallInv /\ TodoInv

(***************************************************************************)
(* Queues.                                                                 *)
(***************************************************************************)
LEMMA QueueAppend ==
  ASSUME NEW S, NEW s \in Seq(S), NEW e \in S
  PROVE  /\ Append(s, e) \in Seq(S) /\ Len(Append(s, e)) = Len(s) + 1
         /\ \A n \in 1 .. Len(s) : Append(s, e)[n] = s[n]
         /\ Append(s, e)[Len(s) + 1] = e
         /\ {Append(s, e)[n] : n \in 1 .. Len(Append(s, e))}
              = {s[n] : n \in 1 .. Len(s)} \cup {e}
<1>1. /\ Append(s, e) \in Seq(S) /\ Len(Append(s, e)) = Len(s) + 1
      /\ \A n \in 1 .. Len(s) : Append(s, e)[n] = s[n]
      /\ Append(s, e)[Len(s) + 1] = e
  OBVIOUS
<1>2. Len(s) \in Nat
  OBVIOUS
<1> DEFINE a == Append(s, e)
<1> HIDE DEF a
<1>3. {a[n] : n \in 1 .. Len(a)} = {s[n] : n \in 1 .. Len(s)} \cup {e}
  <2>1. 1 .. Len(a) = (1 .. Len(s)) \cup {Len(s) + 1}
    BY <1>1, <1>2 DEF a
  <2>2. QED
    BY <1>1, <2>1 DEF a
<1>4. QED
  BY <1>1, <1>3 DEF a

LEMMA QueueTail ==
  ASSUME NEW S, NEW s \in Seq(S), s # << >>,
         \A m, n \in 1 .. Len(s) : s[m] = s[n] => m = n
  PROVE  /\ Head(s) \in S /\ Tail(s) \in Seq(S)
         /\ Head(s) \in {s[n] : n \in 1 .. Len(s)}
         /\ \A m, n \in 1 .. Len(Tail(s)) : Tail(s)[m] = Tail(s)[n] => m = n
         /\ {Tail(s)[n] : n \in 1 .. Len(Tail(s))}
              = {s[n] : n \in 1 .. Len(s)} \ {Head(s)}
<1>1. /\ Tail(s) \in Seq(S) /\ Len(Tail(s)) = Len(s) - 1 /\ Len(s) \in Nat
      /\ \A n \in 1 .. Len(Tail(s)) : Tail(s)[n] = s[n + 1]
      /\ Head(s) = s[1] /\ Len(s) >= 1 /\ Head(s) \in S
  OBVIOUS
<1> DEFINE t == Tail(s)
<1> HIDE DEF t
<1>2. \A m, n \in 1 .. Len(t) : t[m] = t[n] => m = n
  BY <1>1 DEF t
<1>3. ASSUME NEW x
      PROVE x \in {t[n] : n \in 1 .. Len(t)}
              <=> x \in {s[n] : n \in 1 .. Len(s)} \ {Head(s)}
  <2>1. ASSUME NEW n \in 1 .. Len(t), x = t[n]
        PROVE  x \in {s[k] : k \in 1 .. Len(s)} \ {Head(s)}
    BY <1>1, <2>1 DEF t
  <2>2. ASSUME NEW n \in 1 .. Len(s), x = s[n], x # Head(s)
        PROVE  x \in {t[k] : k \in 1 .. Len(t)}
    <3>1. n - 1 \in 1 .. Len(t) /\ t[n - 1] = s[n]
      BY <1>1, <2>2 DEF t
    <3>2. QED
      BY <3>1, <2>2
  <2>3. QED
    BY <2>1, <2>2
<1>4. QED
  BY <1>1, <1>2, <1>3 DEF t

(***************************************************************************)
(* Steps that move on in a handler: the table, the threads and the         *)
(* interpreters stay.                                                      *)
(***************************************************************************)
Kept == UNCHANGED <<active, running, joins, interp, roots, home, fault>>

LEMMA Control ==
  ASSUME Inv, Kept, Stops' = Stops,
         \A i \in DOMAIN active :
           Serving(i)' = Serving(i) /\ Pending(i)' = Pending(i)
  PROVE  fault' = "none" /\ ThreadsInv' /\ HeldInv' /\ OwnedInv'
<1>1. Outstanding' = Outstanding /\ \A i : Awaited(i)' = Awaited(i)
  BY DEF Kept, Outstanding, Awaited
<1>2. \A i : Due(i)' = Due(i)
  BY <1>1 DEF Due, Kept
<1>3. ThreadsInv'
  BY <1>1 DEF Inv, ThreadsInv, Kept
<1>4. HeldInv'
  BY <1>1, <1>2 DEF Inv, HeldInv, Kept
<1>5. OwnedInv'
  BY DEF Inv, OwnedInv, Kept
<1>6. QED
  BY <1>3, <1>4, <1>5 DEF Inv, Kept

LEMMA ParkStep ==
  ASSUME TypeInv, Inv, Park, UNCHANGED luaVars
  PROVE  TypeInv' /\ Inv'
<1>1. PICK c \in todo : call' = c /\ todo' = todo \ {c}
  BY DEF Park
<1>2. call = NoCall /\ Kept /\ UNCHANGED <<starts, phase, events>>
  BY DEF Park, Kept, luaVars
<1>3. /\ c \in [kind : Kinds, ext : Ids, session : Handle, data : {Null},
                stage : {"entered"}]
      /\ c.kind \in Hooks \cup {"stop"}
  BY DEF TypeInv, TypeOK, Inv, TodoInv
<1>4. TypeInv'
  BY <1>1, <1>2, <1>3 DEF TypeInv, TypeOK, Kept, Outstanding
<1>5. Stops' = Stops
  BY <1>1, <1>2, <1>3 DEF Stops, NoCall, Hooks
<1>6. \A i : Serving(i)' = Serving(i) /\ Pending(i)' = Pending(i)
  BY <1>1, <1>2, <1>3 DEF Serving, Pending, NoCall, Hooks, Kept
<1>7. CallInv' /\ TodoInv'
  BY <1>1, <1>2, <1>3 DEF Inv, CallInv, TodoInv, Kept, Hooks, LiveExts
<1>8. QED
  BY <1>2, <1>4, <1>5, <1>6, <1>7, Control DEF Inv

LEMMA ExitStep ==
  ASSUME TypeInv, Inv, Exit, UNCHANGED luaVars
  PROVE  TypeInv' /\ Inv'
<1>1. Kept /\ UNCHANGED <<call, todo, starts, events>> /\ phase' = "gone"
  BY DEF Exit, Kept, luaVars
<1>2. TypeInv'
  BY <1>1 DEF TypeInv, TypeOK, Kept, Outstanding
<1>3. Stops' = Stops /\ \A i : Serving(i)' = Serving(i) /\ Pending(i)' = Pending(i)
  BY <1>1 DEF Stops, Serving, Pending, Kept
<1>4. CallInv' /\ TodoInv'
  BY <1>1 DEF Inv, CallInv, TodoInv, Kept, LiveExts, Due, Awaited, Outstanding
<1>5. QED
  BY <1>1, <1>2, <1>3, <1>4, Control DEF Inv

\* What an idle client then calls: a hook of each extension of S.
LEMMA HookStep ==
  ASSUME TypeInv, Inv, Idle, UNCHANGED luaVars,
         NEW kind \in Hooks, NEW S \in SUBSET LiveExts,
         todo' = EachOf(kind, S), events' \in 0 .. MaxEvents,
         UNCHANGED <<active, call, starts, running, joins, phase, fault>>
  PROVE  TypeInv' /\ Inv'
<1>1. Kept /\ UNCHANGED <<call, starts, phase>>
      /\ call = NoCall /\ todo = {} /\ starts = 0
  BY DEF Kept, luaVars, Idle
<1>2. \A c \in todo' :
        /\ c.kind = kind /\ c.ext \in S /\ c.session = active[c.ext].session
        /\ c.data = Null /\ c.stage = "entered"
        /\ c \in [kind : Kinds, ext : Ids, session : Handle, data : {Null},
                  stage : {"entered"}]
  BY DEF EachOf, Call, Hooks, Kinds, TypeInv, TypeOK, Extension, LiveExts
<1>3. TypeInv'
  BY <1>1, <1>2 DEF TypeInv, TypeOK, Kept, Outstanding
<1>4. Stops' = Stops /\ \A i : Serving(i)' = Serving(i) /\ Pending(i)' = Pending(i)
  BY <1>1, <1>2 DEF Stops, Serving, Pending, Kept, Hooks
<1>5. CallInv' /\ TodoInv'
  BY <1>1, <1>2 DEF Inv, CallInv, TodoInv, Kept, LiveExts, NoCall, Hooks, Kinds
<1>6. QED
  BY <1>1, <1>3, <1>4, <1>5, Control DEF Inv

LEMMA EntryStep ==
  ASSUME TypeInv, Inv, Entry
  PROVE  TypeInv' /\ Inv'
<1>1. /\ call.kind \in Hooks \cup {"stop"} /\ call.stage = "entered"
      /\ UNCHANGED <<starts, phase, events>>
      /\ UNCHANGED <<running, joins, interp, roots, home>>
      /\ call # NoCall /\ call.session \in Handle
  BY DEF Entry, Entering, luaVars, Hooks, NoCall, TypeInv, TypeOK
<1>2. CASE call.session = Null
  <2>1. Kept /\ call' = NoCall /\ UNCHANGED todo
    BY <1>1, <1>2 DEF Entry, Returned, Kept, Hooks
  <2>2. TypeInv'
    BY <1>1, <2>1 DEF TypeInv, TypeOK, Kept, Outstanding
  <2>3. \A i : Serving(i)' = Serving(i) /\ Pending(i)' = Pending(i)
    BY <1>1, <2>1 DEF Serving, Pending, Kept, NoCall, Hooks
  <2>4. CallInv' /\ TodoInv'
    BY <1>1, <2>1 DEF Inv, CallInv, TodoInv, Kept, NoCall, LiveExts, Hooks
  <2>5. ThreadsInv' /\ HeldInv' /\ fault' = "none"
    <3>1. Outstanding' = Outstanding /\ \A i : Awaited(i)' = Awaited(i)
      BY <2>1 DEF Kept, Outstanding, Awaited
    <3>2. QED
      BY <2>1, <2>3, <3>1 DEF Inv, ThreadsInv, HeldInv, Kept, Due
  <2>6. OwnedInv'
    <3>1. Stops' = {c \in todo : c.kind = "stop"}
      BY <2>1 DEF Stops, NoCall
    <3>2. Stops' \subseteq Stops /\ \A c \in Stops \ Stops' : c.session = Null
      BY <1>2, <3>1 DEF Stops
    <3>3. QED
      BY <2>1, <2>3, <3>2, ExtensionHostAssumption DEF Inv, OwnedInv, Kept
  <2>7. QED
    BY <2>2, <2>4, <2>5, <2>6 DEF Inv
<1>3. CASE call.session # Null
  <2>1. interp[call.session] = "open" /\ call.session \in Sessions
    <3>1. CASE call.kind = "stop"
      BY <1>1, <1>3, <3>1 DEF Inv, OwnedInv, Stops, Handle
    <3>2. CASE call.kind \in Hooks
      <4>1. call.ext \in DOMAIN active /\ Serving(call.ext) = call.session
        BY <3>2 DEF Inv, CallInv, LiveExts, Serving, Hooks
      <4>2. QED
        BY <1>1, <1>3, <4>1 DEF Inv, OwnedInv, Handle
    <3>3. QED
      BY <1>1, <3>1, <3>2
  <2>2. /\ Kept /\ UNCHANGED todo
        /\ call' = [call EXCEPT !.session = call.session, !.stage = "script"]
    BY <1>1, <1>3, <2>1 DEF Entry, Runs, Kept, Inv
  <2>3. /\ call' \in [kind : Kinds, ext : Ids, session : Handle,
                     data : Data \cup {Null}, stage : {"entered", "script"}]
        /\ call'.kind = call.kind /\ call'.ext = call.ext
        /\ call'.session = call.session /\ call'.stage = "script"
    BY <1>1, <2>2 DEF TypeInv, TypeOK
  <2>4. TypeInv'
    BY <1>1, <2>2, <2>3 DEF TypeInv, TypeOK, Kept, Outstanding
  <2>5. \A i : Serving(i)' = Serving(i) /\ Pending(i)' = Pending(i)
    BY <1>1, <2>2, <2>3 DEF Serving, Pending, Kept, Hooks
  <2>6. CallInv' /\ TodoInv'
    <3>1. \A c \in todo : c.stage = "entered"
      BY DEF TypeInv, TypeOK
    <3>2. QED
      BY <1>1, <1>3, <2>2, <2>3, <3>1
         DEF Inv, CallInv, TodoInv, Kept, LiveExts, Hooks
  <2>7. ThreadsInv' /\ HeldInv' /\ fault' = "none"
    <3>1. Outstanding' = Outstanding /\ \A i : Awaited(i)' = Awaited(i)
      BY <2>2 DEF Kept, Outstanding, Awaited
    <3>2. QED
      BY <2>2, <2>5, <3>1 DEF Inv, ThreadsInv, HeldInv, Kept, Due
  <2>8. OwnedInv'
    <3>1. /\ Stops' = {c \in todo : c.kind = "stop"}
                        \cup (IF call.kind = "stop" THEN {call'} ELSE {})
      BY <2>2, <2>3 DEF Stops
    <3>2. CASE call.kind # "stop"
      BY <2>2, <2>3, <2>5, <3>1, <3>2 DEF Inv, OwnedInv, Kept, Stops
    <3>3. CASE call.kind = "stop"
      <4>1. Stops' = (Stops \ {call}) \cup {call'} /\ call \in Stops
        BY <3>1, <3>3 DEF Stops, Inv, CallInv
      <4>2. /\ \A L : (\E c \in Stops' : c.session = L)
                     <=> (\E c \in Stops : c.session = L)
            /\ \A b, c \in Stops' :
                 b.session = c.session /\ b.session # Null => b = c
        BY <2>3, <4>1 DEF Inv, OwnedInv
      <4>3. QED
        BY <2>2, <2>5, <4>2 DEF Inv, OwnedInv, Kept
    <3>4. QED
      BY <3>2, <3>3
  <2>9. QED
    BY <2>4, <2>6, <2>7, <2>8 DEF Inv
<1>4. QED
  BY <1>2, <1>3

(***************************************************************************)
(* The end of a callback.                                                  *)
(***************************************************************************)
Continuations == {"timer", "finish"}

\* A hook or a continuation is over; a hook may end the handler's calls.
LEMMA EndOfHook ==
  ASSUME TypeInv, Inv, Script, call.kind \in Hooks \cup Continuations,
         Kept, call' = NoCall, todo' \in {todo, {}},
         UNCHANGED <<starts, phase, events>>
  PROVE  TypeInv' /\ Inv'
<1>1. call.stage = "script" /\ call.kind \notin {"start", "stop"}
  BY DEF Script, Hooks, Continuations
<1>2. TypeInv'
  BY DEF TypeInv, TypeOK, Kept, Outstanding
<1>3. \A c \in todo : c.kind \in Hooks
  BY DEF Inv, CallInv, Hooks, Continuations
<1>4. Stops = {} /\ Stops' = {}
  BY <1>1, <1>3 DEF Stops, NoCall, Hooks
<1>5. \A i : Serving(i)' = Serving(i) /\ Pending(i)' = Pending(i)
  BY <1>1 DEF Serving, Pending, Kept, NoCall
<1>6. CallInv' /\ TodoInv'
  BY <1>3 DEF Inv, CallInv, TodoInv, Kept, NoCall, LiveExts, Hooks
<1>7. QED
  BY <1>2, <1>4, <1>5, <1>6, Control DEF Inv

\* lua_close of an interpreter that serves no extension.
LEMMA EndOfStop ==
  ASSUME TypeInv, Inv, Script, call.kind = "stop",
         Close(call.session), call' = NoCall, todo' = todo,
         UNCHANGED <<active, running, joins, home, fault>>,
         UNCHANGED <<starts, phase, events>>
  PROVE  TypeInv' /\ Inv'
<1> DEFINE L == call.session
<1>1. /\ call.stage = "script" /\ L \in Sessions
      /\ call.ext \notin DOMAIN active /\ call \notin todo
  <2>1. /\ call.stage = "script" /\ L # Null
        /\ call.ext \notin DOMAIN active /\ call \notin todo
    BY DEF Script, Inv, CallInv
  <2>2. L \in Handle
    BY DEF TypeInv, TypeOK, NoCall
  <2>3. QED
    BY <2>1, <2>2 DEF Handle
<1>2. /\ interp' = [interp EXCEPT ![L] = "closed"]
      /\ roots' = [roots EXCEPT ![L] = {}]
      /\ interp' \in [Sessions -> {"unused", "open", "closed"}]
      /\ roots' \in [Sessions -> SUBSET Data]
      /\ \A M \in Sessions \ {L} : interp'[M] = interp[M] /\ roots'[M] = roots[M]
      /\ interp'[L] = "closed" /\ roots'[L] = {}
  BY <1>1 DEF Close, TypeInv, TypeOK
<1>3. TypeInv'
  BY <1>2 DEF TypeInv, TypeOK, Outstanding
<1>4. /\ \A i : Serving(i)' = Serving(i) /\ Pending(i)' = Pending(i)
      /\ \A i : Awaited(i)' = Awaited(i) /\ Due(i)' = Due(i)
      /\ Outstanding' = Outstanding
  BY DEF Serving, Pending, NoCall, Awaited, Due, Outstanding
<1>5. call \in Stops /\ Stops' = Stops \ {call}
  BY <1>1 DEF Stops, NoCall
<1>6. \A i \in DOMAIN active : Serving(i) # L
  BY <1>1, <1>5, ExtensionHostAssumption DEF Inv, OwnedInv
<1>7. \A c \in Stops : c.session = L => c = call
  BY <1>1, <1>5, ExtensionHostAssumption DEF Inv, OwnedInv
<1>8. ThreadsInv' /\ fault' = "none"
  BY <1>4 DEF Inv, ThreadsInv
<1>9. HeldInv'
  <2>1. \A i \in DOMAIN active : Serving(i) \in Sessions \cup {Null}
    BY DEF Serving, TypeInv, TypeOK, Handle, Extension
  <2>2. \A i \in DOMAIN active : Serving(i) # Null =>
          roots'[Serving(i)] = roots[Serving(i)]
    BY <1>2, <1>6, <2>1
  <2>3. \A M \in Sessions : roots'[M] \subseteq roots[M]
    BY <1>2
  <2>4. QED
    BY <1>4, <2>2, <2>3 DEF Inv, HeldInv
<1>10. OwnedInv'
  <2>1. \A M \in Sessions :
          interp'[M] = "open" <=> \/ \E i \in DOMAIN active : Serving(i) = M
                                  \/ \E c \in Stops' : c.session = M
    BY <1>2, <1>5, <1>6, <1>7 DEF Inv, OwnedInv
  <2>2. QED
    BY <1>2, <1>4, <1>5, <2>1 DEF Inv, OwnedInv
<1>11. CallInv' /\ TodoInv'
  BY DEF Inv, CallInv, TodoInv, NoCall, LiveExts, Hooks
<1>12. QED
  BY <1>3, <1>8, <1>9, <1>10, <1>11 DEF Inv

\* start returns the interpreter, or Null after closing it.
LEMMA EndOfStart ==
  ASSUME TypeInv, Inv, Script, call.kind = "start", NEW session,
         \/ session = call.session /\ Stays
         \/ /\ session = Null /\ Close(call.session)
            /\ roots[call.session] = {},
         active' = [active EXCEPT ![call.ext].session = session],
         call' = NoCall, todo' = todo,
         UNCHANGED <<running, joins, home, fault, starts, phase, events>>
  PROVE  TypeInv' /\ Inv'
<1> DEFINE L == call.session
           e == call.ext
<1>1. /\ call.stage = "script" /\ L \in Sessions /\ L # Null
      /\ e \in DOMAIN active /\ active[e].live /\ todo = {}
      /\ Serving(e) = L
  <2>1. call.stage = "script" /\ L # Null /\ e \in LiveExts /\ todo = {}
    BY DEF Script, Inv, CallInv
  <2>2. L \in Handle
    BY DEF TypeInv, TypeOK, NoCall
  <2>3. QED
    BY <2>1, <2>2 DEF Handle, LiveExts, Serving
<1>2. session \in Handle /\ active \in [DOMAIN active -> Extension]
  BY <1>1 DEF Handle, TypeInv
<1>3. /\ DOMAIN active' = DOMAIN active
      /\ active' \in [DOMAIN active' -> Extension]
      /\ \A i \in DOMAIN active :
           /\ active'[i].timers = active[i].timers
           /\ active'[i].threads = active[i].threads
           /\ active'[i].live = active[i].live
           /\ active'[i].session = IF i = e THEN session ELSE active[i].session
  BY <1>1, <1>2 DEF Extension
<1>4. /\ \A i \in DOMAIN active :
           Serving(i)' = IF i = e THEN session ELSE Serving(i)
      /\ \A i : Pending(i) = {} /\ Pending(i)' = {}
  BY <1>1, <1>3 DEF Serving, Pending, NoCall
<1>5. Outstanding' = Outstanding /\ \A i : Awaited(i)' = Awaited(i)
  BY DEF Outstanding, Awaited
<1>6. \A i \in DOMAIN active : Due(i)' = Due(i)
  BY <1>3, <1>5 DEF Due
<1>7. Stops' = {} /\ Stops = {}
  BY <1>1 DEF Stops, NoCall
<1>8. ThreadsInv' /\ fault' = "none"
  BY <1>3, <1>5 DEF Inv, ThreadsInv
<1>9. CallInv' /\ TodoInv'
  BY <1>1 DEF CallInv, TodoInv, NoCall, Hooks
<1>10. CASE session = L /\ Stays
  <2>1. UNCHANGED <<interp, roots>>
    BY <1>10 DEF Stays
  <2>2. TypeInv'
    BY <1>3, <1>5, <2>1 DEF TypeInv, TypeOK, Extension
  <2>3. \A i \in DOMAIN active : Serving(i)' = Serving(i)
    BY <1>1, <1>4, <1>10
  <2>4. HeldInv'
    BY <1>3, <1>4, <1>5, <1>6, <2>1, <2>3 DEF Inv, HeldInv
  <2>5. OwnedInv'
    BY <1>3, <1>7, <2>1, <2>3 DEF Inv, OwnedInv
  <2>6. QED
    BY <1>8, <1>9, <2>2, <2>4, <2>5 DEF Inv
<1>11. CASE session = Null /\ Close(L) /\ roots[L] = {}
  <2>1. /\ interp' \in [Sessions -> {"unused", "open", "closed"}]
        /\ roots' \in [Sessions -> SUBSET Data]
        /\ \A M \in Sessions \ {L} : interp'[M] = interp[M]
        /\ \A M \in Sessions : roots'[M] = roots[M]
        /\ interp'[L] = "closed"
    BY <1>1, <1>11 DEF Close, TypeInv, TypeOK
  <2>2. TypeInv'
    BY <1>3, <1>5, <2>1 DEF TypeInv, TypeOK, Extension
  <2>3. Due(e) = {}
    BY <1>1, <1>4, <1>11 DEF Inv, HeldInv
  <2>4. HeldInv'
    <3>1. \A i \in DOMAIN active : Serving(i) \in Sessions \cup {Null}
      BY <1>1 DEF Serving, TypeInv, TypeOK, Handle, Extension
    <3>2. \A i \in DOMAIN active : Serving(i) # Null =>
            roots'[Serving(i)] = roots[Serving(i)]
      BY <2>1, <3>1
    <3>3. QED
      BY <1>3, <1>4, <1>5, <1>6, <1>11, <2>1, <2>3, <3>2 DEF Inv, HeldInv
  <2>5. OwnedInv'
    <3>1. \A i \in DOMAIN active : Serving(i) = L => i = e
      BY <1>1 DEF Inv, OwnedInv
    <3>2. QED
      BY <1>1, <1>3, <1>4, <1>7, <1>11, <2>1, <3>1, ExtensionHostAssumption
         DEF Inv, OwnedInv
  <2>6. QED
    BY <1>8, <1>9, <2>2, <2>4, <2>5 DEF Inv
<1>12. QED
  BY <1>10, <1>11

LEMMA ScriptKind ==
  ASSUME Inv, Script
  PROVE  /\ call.kind \in {"start", "stop"} \cup Hooks \cup Continuations
         /\ call # NoCall
BY DEF Inv, CallInv, Script, NoCall, Kinds, Hooks, Continuations

LEMMA ReturnStep ==
  ASSUME TypeInv, Inv, NEW drop \in BOOLEAN, Return(drop)
  PROVE  TypeInv' /\ Inv'
<1>1. /\ Script /\ call' = NoCall
      /\ active' = IF call.kind = "start" /\ call.ext \in DOMAIN active
                   THEN [active EXCEPT ![call.ext].session = call.session]
                   ELSE active
      /\ todo' = IF call.kind \in {"message", "chat"} /\ drop THEN {} ELSE todo
      /\ IF call.kind = "stop" THEN Close(call.session) ELSE Stays
      /\ UNCHANGED <<starts, running, joins, phase, fault, events, home>>
  BY DEF Return, Returned
<1>2. CASE call.kind = "start"
  <2>1. call.ext \in DOMAIN active
    BY <1>2 DEF Inv, CallInv, LiveExts
  <2>2. QED
    BY <1>1, <1>2, <2>1, EndOfStart
<1>3. CASE call.kind = "stop"
  BY <1>1, <1>3, EndOfStop
<1>4. CASE call.kind \in Hooks \cup Continuations
  <2>1. Kept /\ todo' \in {todo, {}}
    BY <1>1, <1>4 DEF Kept, Stays, Hooks, Continuations
  <2>2. QED
    BY <1>1, <1>4, <2>1, EndOfHook
<1>5. QED
  BY <1>1, <1>2, <1>3, <1>4, ScriptKind

\* Only an ordinary script's interpreter is closed without its stop callback.
LEMMA RaiseStep ==
  ASSUME TypeInv, Inv, Ordinary, Raise
  PROVE  TypeInv' /\ Inv'
<1>1. /\ Script /\ call' = NoCall
      /\ active' = IF call.kind = "start" /\ call.ext \in DOMAIN active
                   THEN [active EXCEPT ![call.ext].session = Null]
                   ELSE active
      /\ todo' = todo
      /\ IF call.kind \in {"start", "stop"} THEN Close(call.session) ELSE Stays
      /\ UNCHANGED <<starts, running, joins, phase, fault, events, home>>
  BY DEF Raise, Returned
<1>2. CASE call.kind = "start"
  <2>1. call.ext \in DOMAIN active
    BY <1>2 DEF Inv, CallInv, LiveExts
  <2>2. roots[call.session] = {}
    BY <1>2 DEF Raise, Ordinary
  <2>3. QED
    BY <1>1, <1>2, <2>1, <2>2, EndOfStart
<1>3. CASE call.kind = "stop"
  BY <1>1, <1>3, EndOfStop
<1>4. CASE call.kind \in Hooks \cup Continuations
  <2>1. Kept /\ todo' \in {todo, {}}
    BY <1>1, <1>4 DEF Kept, Stays, Hooks, Continuations
  <2>2. QED
    BY <1>1, <1>4, <2>1, EndOfHook
<1>5. QED
  BY <1>1, <1>2, <1>3, <1>4, ScriptKind

(***************************************************************************)
(* Entry points that change the interpreters.                              *)
(***************************************************************************)
LEMMA StartStep ==
  ASSUME TypeInv, Inv, Start
  PROVE  TypeInv' /\ Inv'
<1> DEFINE e == call.ext
<1>1. /\ call.kind = "start" /\ call.stage = "entered" /\ call.session = Null
      /\ todo = {} /\ e \in DOMAIN active /\ active[e].live
      /\ active[e].session = Null /\ Serving(e) = Null
      /\ UNCHANGED <<starts, running, joins, phase, fault, events, roots, home>>
  BY DEF Start, Entering, Inv, CallInv, LiveExts, Serving
<1>2. Outstanding' = Outstanding /\ \A i : Awaited(i)' = Awaited(i)
  BY <1>1 DEF Outstanding, Awaited
<1>3. \A i : Pending(i) = {}
  BY <1>1 DEF Pending
<1>4. CASE Unused = {}
  <2>1. /\ call' = NoCall /\ todo' = todo /\ interp' = interp
        /\ active' = [active EXCEPT ![e].session = Null]
    BY <1>1, <1>4 DEF Start, Returned
  <2>2. active' = active
    <3>1. [active[e] EXCEPT !.session = Null] = active[e]
      BY <1>1 DEF TypeInv, Extension
    <3>2. QED
      BY <1>1, <2>1, <3>1 DEF TypeInv
  <2>3. Kept /\ call' = NoCall /\ UNCHANGED <<todo, starts, phase, events>>
    BY <1>1, <2>1, <2>2 DEF Kept
  <2>4. TypeInv'
    BY <2>3 DEF TypeInv, TypeOK, Kept, Outstanding
  <2>5. /\ Stops' = Stops
        /\ \A i : Serving(i)' = Serving(i) /\ Pending(i)' = Pending(i)
    BY <1>1, <2>3 DEF Stops, Serving, Pending, NoCall, Kept
  <2>6. CallInv' /\ TodoInv'
    BY <1>1, <2>3 DEF CallInv, TodoInv, NoCall, Hooks
  <2>7. QED
    BY <2>3, <2>4, <2>5, <2>6, Control DEF Inv
<1>5. CASE Unused # {}
  <2>1. PICK L \in Unused :
          /\ interp' = [interp EXCEPT ![L] = "open"]
          /\ call' = [call EXCEPT !.session = L, !.stage = "script"]
          /\ UNCHANGED <<active, todo>>
    BY <1>5 DEF Start, Runs
  <2>2. /\ L \in Sessions /\ L # Null /\ interp[L] = "unused" /\ roots[L] = {}
        /\ interp' \in [Sessions -> {"unused", "open", "closed"}]
        /\ interp'[L] = "open"
        /\ \A M \in Sessions \ {L} : interp'[M] = interp[M]
    BY <2>1, ExtensionHostAssumption
       DEF Unused, TypeInv, TypeOK, Inv, OwnedInv
  <2>3. /\ call' \in [kind : Kinds, ext : Ids, session : Handle,
                     data : Data \cup {Null}, stage : {"entered", "script"}]
        /\ call'.kind = "start" /\ call'.ext = e
        /\ call'.session = L /\ call'.stage = "script"
    <3>1. call \in [kind : Kinds, ext : Ids, session : Handle,
                    data : Data \cup {Null}, stage : {"entered", "script"}]
      BY <1>1 DEF TypeInv, TypeOK, NoCall
    <3>2. QED
      BY <1>1, <2>1, <2>2, <3>1 DEF Handle
  <2>4. TypeInv'
    BY <1>1, <1>2, <2>1, <2>2, <2>3 DEF TypeInv, TypeOK
  <2>5. /\ \A i : Serving(i)' = IF i = e THEN L ELSE Serving(i)
        /\ \A i : Pending(i)' = {}
    BY <1>1, <2>1, <2>3 DEF Serving, Pending
  <2>6. Stops' = {} /\ Stops = {}
    BY <1>1, <2>1, <2>3 DEF Stops
  <2>7. \A i \in DOMAIN active : Serving(i) # L
    BY <2>2 DEF Inv, OwnedInv
  <2>8. ThreadsInv' /\ fault' = "none"
    BY <1>1, <1>2, <2>1 DEF Inv, ThreadsInv
  <2>9. HeldInv'
    <3>1. \A i : Due(i)' = Due(i)
      BY <1>2, <2>1 DEF Due
    <3>2. Due(e) = {}
      BY <1>1 DEF Inv, HeldInv
    <3>3. QED
      BY <1>1, <1>2, <1>3, <2>1, <2>2, <2>5, <3>1, <3>2 DEF Inv, HeldInv
  <2>10. OwnedInv'
    <3>1. \A M \in Sessions :
            interp'[M] = "open" <=> \E i \in DOMAIN active : Serving(i)' = M
      BY <1>1, <2>2, <2>5, <2>6, <2>7, ExtensionHostAssumption
         DEF Inv, OwnedInv
    <3>2. \A M \in Sessions : interp'[M] # "open" => roots[M] = {}
      BY <2>2 DEF Inv, OwnedInv
    <3>3. \A i, j \in DOMAIN active :
            Serving(i)' = Serving(j)' /\ Serving(i)' # Null => i = j
      BY <2>5, <2>7 DEF Inv, OwnedInv
    <3>4. QED
      BY <1>1, <2>1, <2>6, <3>1, <3>2, <3>3 DEF OwnedInv
  <2>11. CallInv' /\ TodoInv'
    BY <1>1, <2>1, <2>2, <2>3 DEF CallInv, TodoInv, LiveExts, Hooks
  <2>12. QED
    BY <2>4, <2>8, <2>9, <2>10, <2>11 DEF Inv
<1>6. QED
  BY <1>4, <1>5

LEMMA ContinuationStep ==
  ASSUME TypeInv, Inv, Continuation
  PROVE  TypeInv' /\ Inv'
<1> DEFINE e == call.ext
           d == call.data
           L == call.session
<1>1. /\ call.kind \in Continuations /\ call.stage = "entered"
      /\ todo = {} /\ e \in DOMAIN active /\ active[e].live
      /\ L = active[e].session /\ L # Null /\ d \in roots[L] /\ d \notin Due(e)
      /\ UNCHANGED <<active, todo, starts, running, joins, phase, events,
                     interp, home>>
  BY DEF Continuation, Entering, Inv, CallInv, LiveExts, Continuations
<1>2. /\ call \in [kind : Kinds, ext : Ids, session : Handle,
                   data : Data \cup {Null}, stage : {"entered", "script"}]
      /\ L \in Sessions
  <2>1. call \in [kind : Kinds, ext : Ids, session : Handle,
                  data : Data \cup {Null}, stage : {"entered", "script"}]
    BY <1>1 DEF TypeInv, TypeOK, NoCall
  <2>2. QED
    BY <1>1, <2>1 DEF Handle
<1>3. home[d] = L /\ interp[L] = "open"
  BY <1>1, <1>2 DEF Inv, HeldInv, OwnedInv
<1>4. Alive(d)
  BY <1>1, <1>3 DEF Alive
<1>5. /\ roots' = [roots EXCEPT ![L] = @ \ {d}] /\ fault' = fault
      /\ call' = [call EXCEPT !.session = L, !.stage = "script"]
  BY <1>3, <1>4 DEF Continuation, FreeThreadState, Runs
<1>6. /\ call' \in [kind : Kinds, ext : Ids, session : Handle,
                   data : Data \cup {Null}, stage : {"entered", "script"}]
      /\ call'.kind = call.kind /\ call'.ext = e
      /\ call'.session = L /\ call'.stage = "script"
  BY <1>2, <1>5
<1>7. /\ roots' \in [Sessions -> SUBSET Data]
      /\ roots'[L] = roots[L] \ {d}
      /\ \A M \in Sessions \ {L} : roots'[M] = roots[M]
  BY <1>2, <1>5 DEF TypeInv, TypeOK
<1>8. /\ Outstanding' = Outstanding /\ \A i : Awaited(i)' = Awaited(i)
      /\ \A i : Due(i)' = Due(i)
  BY <1>1 DEF Outstanding, Awaited, Due
<1>9. TypeInv'
  BY <1>1, <1>5, <1>6, <1>7, <1>8 DEF TypeInv, TypeOK
<1>10. /\ \A i : Serving(i)' = active[i].session
       /\ \A i : Serving(i) = active[i].session
       /\ \A i : Pending(i)' = {}
       /\ \A i : Pending(i) = IF i = e THEN {d} ELSE {}
  BY <1>1, <1>6 DEF Serving, Pending, Continuations
<1>11. Stops' = {} /\ Stops = {}
  BY <1>1, <1>6 DEF Stops, Continuations
<1>12. ThreadsInv' /\ fault' = "none"
  BY <1>1, <1>5, <1>8 DEF Inv, ThreadsInv
<1>13. HeldInv'
  <2>1. \A i \in DOMAIN active : Serving(i) = L => i = e
    BY <1>1, <1>10 DEF Inv, OwnedInv
  <2>2. \A i \in DOMAIN active : active[i].session \in Sessions \cup {Null}
    BY DEF TypeInv, Extension, Handle
  <2>3. \A i \in DOMAIN active : active[i].session # Null /\ i # e =>
          roots'[active[i].session] = roots[active[i].session]
    BY <1>7, <1>10, <2>1, <2>2
  <2>4. \A M \in Sessions : roots'[M] \subseteq roots[M]
    BY <1>7
  <2>5. roots[L] = Due(e) \cup {d}
    BY <1>1, <1>10 DEF Inv, HeldInv
  <2>6. roots'[L] = Due(e)
    BY <1>1, <1>7, <2>5
  <2>7. QED
    BY <1>1, <1>8, <1>10, <2>3, <2>4, <2>6 DEF Inv, HeldInv
<1>14. OwnedInv'
  BY <1>1, <1>7, <1>10, <1>11 DEF Inv, OwnedInv
<1>15. CallInv' /\ TodoInv'
  BY <1>1, <1>6 DEF CallInv, TodoInv, LiveExts, Hooks, Continuations
<1>16. QED
  BY <1>9, <1>12, <1>13, <1>14, <1>15 DEF Inv

(***************************************************************************)
(* What a script registers and cancels.                                    *)
(***************************************************************************)

\* The extension whose script runs, outside its stop callback.
LEMMA AtScript ==
  ASSUME TypeInv, Inv, Script, call.kind # "stop"
  PROVE  /\ call.ext \in DOMAIN active /\ active[call.ext].live
         /\ Serving(call.ext) = call.session
         /\ call.session \in Sessions /\ call.session # Null
         /\ call \in [kind : Kinds, ext : Ids, session : Handle,
                      data : Data \cup {Null}, stage : {"entered", "script"}]
         /\ \A i : Pending(i) = {}
<1>1. /\ call.kind \in {"start"} \cup Hooks \cup Continuations /\ call # NoCall
      /\ call.stage = "script"
  BY ScriptKind DEF Script
<1>2. /\ call.ext \in LiveExts /\ Serving(call.ext) = call.session
      /\ call.session # Null
  BY <1>1 DEF Inv, CallInv, Serving, Hooks, Continuations
<1>3. call \in [kind : Kinds, ext : Ids, session : Handle,
                data : Data \cup {Null}, stage : {"entered", "script"}]
  BY <1>1 DEF TypeInv, TypeOK
<1>4. \A i : Pending(i) = {}
  BY <1>1 DEF Pending
<1>5. QED
  BY <1>2, <1>3, <1>4 DEF Handle, LiveExts

\* A fresh thread state is registered nowhere.
LEMMA FreshIsNew ==
  ASSUME TypeInv, Inv, NEW d \in Fresh
  PROVE  /\ \A L \in Sessions : d \notin roots[L]
         /\ \A i \in DOMAIN active : d \notin Due(i)
<1>1. home[d] = Null /\ Null \notin Sessions
  BY ExtensionHostAssumption DEF Fresh
<1>2. \A L \in Sessions : d \notin roots[L]
  BY <1>1 DEF Inv, HeldInv
<1>3. \A i \in DOMAIN active : Serving(i) \in Sessions \cup {Null}
  BY DEF Serving, TypeInv, TypeOK, Handle, Extension, NoCall
<1>4. QED
  BY <1>2, <1>3 DEF Inv, HeldInv

LEMMA RegisterStep ==
  ASSUME TypeInv, Inv, Script, call.kind # "stop",
         NEW d \in Fresh, NewThreadState(d), NEW e, e = call.ext,
         UNCHANGED <<interp, call, todo, starts, phase, events, fault>>,
         active' \in [DOMAIN active -> Extension],
         \A i \in DOMAIN active : /\ active'[i].session = active[i].session
                                  /\ active'[i].live = active[i].live
                                  /\ Due(i)' = IF i = e THEN Due(i) \cup {d}
                                               ELSE Due(i),
         \A i \in DOMAIN active :
           \A t \in Awaited(i)' : t.data \notin active'[i].timers,
         running' \subseteq Thread, joins' \in Seq(Thread),
         Outstanding' \subseteq Thread, ThreadsInv'
  PROVE  TypeInv' /\ Inv'
<1> DEFINE L == call.session
<1>1. /\ e \in DOMAIN active /\ Serving(e) = L /\ L \in Sessions /\ L # Null
      /\ \A i : Pending(i) = {} /\ Pending(i)' = {}
      /\ d \in Data
  BY AtScript DEF Pending, Fresh
<1>2. /\ home' \in [Data -> Handle] /\ home'[d] = L
      /\ \A x \in Data \ {d} : home'[x] = home[x]
      /\ roots' \in [Sessions -> SUBSET Data]
      /\ roots'[L] = roots[L] \cup {d}
      /\ \A M \in Sessions \ {L} : roots'[M] = roots[M]
  <2>1. /\ home' = [home EXCEPT ![d] = L]
        /\ roots' = [roots EXCEPT ![L] = @ \cup {d}]
    BY DEF NewThreadState
  <2>2. home \in [Data -> Handle] /\ roots \in [Sessions -> SUBSET Data]
    BY DEF TypeInv, TypeOK
  <2>3. QED
    BY <1>1, <2>1, <2>2 DEF Handle
<1>3. DOMAIN active' = DOMAIN active /\ active' \in [DOMAIN active' -> Extension]
  OBVIOUS
<1>4. TypeInv'
  BY <1>2, <1>3 DEF TypeInv, TypeOK, Extension, Thread
<1>5. \A i \in DOMAIN active : Serving(i)' = Serving(i)
  BY DEF Serving
<1>6. Stops' = Stops
  BY DEF Stops
<1>7. interp[L] = "open" /\ \A i \in DOMAIN active : Serving(i) = L => i = e
  BY <1>1 DEF Inv, OwnedInv
<1>8. HeldInv'
  <2>1. \A i \in DOMAIN active : Serving(i) \in Sessions \cup {Null}
    BY DEF Serving, TypeInv, TypeOK, Handle, Extension, NoCall
  <2>2. \A i \in DOMAIN active : i # e /\ Serving(i) # Null =>
          roots'[Serving(i)] = roots[Serving(i)]
    BY <1>2, <1>7, <2>1
  <2>3. \A M \in Sessions : \A x \in roots'[M] : home'[x] = M
    <3>1. SUFFICES ASSUME NEW M \in Sessions, NEW x \in roots'[M]
                   PROVE  home'[x] = M
      OBVIOUS
    <3>2. CASE x = d
      <4>1. d \notin roots[M]
        BY FreshIsNew
      <4>2. M = L
        BY <1>2, <3>2, <4>1
      <4>3. QED
        BY <1>2, <3>2, <4>2
    <3>3. CASE x # d
      <4>1. x \in roots[M] /\ x \in Data
        BY <1>2, <3>3 DEF TypeInv, TypeOK
      <4>2. QED
        BY <1>2, <3>3, <4>1 DEF Inv, HeldInv
    <3>4. QED
      BY <3>2, <3>3
  <2>4. \A i \in DOMAIN active :
          /\ Serving(i) = Null => Due(i)' = {}
          /\ Serving(i) # Null => Due(i)' \subseteq roots'[Serving(i)]
          /\ active[i].live /\ Serving(i) # Null => roots'[Serving(i)] = Due(i)'
    <3>1. SUFFICES ASSUME NEW i \in DOMAIN active
                   PROVE
                     /\ Serving(i) = Null => Due(i)' = {}
                     /\ Serving(i) # Null => Due(i)' \subseteq roots'[Serving(i)]
                     /\ active[i].live /\ Serving(i) # Null =>
                          roots'[Serving(i)] = Due(i)'
      OBVIOUS
    <3>2. /\ Serving(i) = Null => Due(i) = {}
          /\ Serving(i) # Null => Due(i) \subseteq roots[Serving(i)]
          /\ active[i].live /\ Serving(i) # Null => roots[Serving(i)] = Due(i)
      BY <1>1 DEF Inv, HeldInv
    <3>3. CASE i = e
      <4>1. Serving(i) = L
        BY <1>1, <3>3
      <4>2. Due(i)' = Due(i) \cup {d}
        BY <3>3
      <4>3. QED
        BY <1>1, <1>2, <3>2, <4>1, <4>2
    <3>4. CASE i # e
      BY <2>2, <3>2, <3>4
    <3>5. QED
      BY <3>3, <3>4
  <2>5. QED
    BY <1>1, <1>3, <1>5, <2>3, <2>4 DEF HeldInv
<1>9. OwnedInv'
  <2>1. \A M \in Sessions : interp[M] # "open" => roots'[M] = {}
    BY <1>2, <1>7 DEF Inv, OwnedInv
  <2>2. QED
    BY <1>3, <1>5, <1>6, <2>1 DEF Inv, OwnedInv
<1>10. CallInv' /\ TodoInv'
  <2>1. LiveExts' = LiveExts
    BY <1>3 DEF LiveExts
  <2>2. call.stage = "script"
    BY DEF Script
  <2>3. TodoInv'
    BY <1>3, <2>1 DEF Inv, TodoInv, LiveExts
  <2>4. CallInv'
    BY <1>3, <2>1, <2>2 DEF Inv, CallInv, LiveExts
  <2>5. QED
    BY <2>3, <2>4
<1>11. QED
  BY <1>4, <1>8, <1>9, <1>10 DEF Inv

LEMMA SetTimerStep ==
  ASSUME TypeInv, Inv, Ordinary, SetTimer
  PROVE  TypeInv' /\ Inv'
<1>1. PICK d \in Fresh : NewThreadState(d) /\ PushTimer(d)
  BY DEF SetTimer
<1>2. /\ Script /\ call.kind # "stop"
      /\ UNCHANGED <<call, todo, starts, running, joins, phase, events, interp>>
  BY DEF SetTimer, Ordinary
<1>3. PICK e \in DOMAIN active : e = call.ext
  BY <1>2, AtScript
<1>4. active' = [active EXCEPT ![e].timers = @ \cup {d}] /\ fault' = fault
  BY <1>1, <1>3 DEF PushTimer
<1>5. active \in [DOMAIN active -> Extension]
  BY DEF TypeInv
<1>6. /\ active' \in [DOMAIN active -> Extension]
      /\ \A i \in DOMAIN active :
           /\ active'[i].session = active[i].session
           /\ active'[i].live = active[i].live
           /\ active'[i].threads = active[i].threads
           /\ active'[i].timers =
                IF i = e THEN active[i].timers \cup {d} ELSE active[i].timers
  BY <1>3, <1>4, <1>5 DEF Extension, Fresh
<1>7. Outstanding' = Outstanding /\ \A i : Awaited(i)' = Awaited(i)
  BY <1>2 DEF Outstanding, Awaited
<1>8. \A i \in DOMAIN active :
        Due(i)' = IF i = e THEN Due(i) \cup {d} ELSE Due(i)
  BY <1>3, <1>6, <1>7 DEF Due
<1>9. \A i \in DOMAIN active :
        \A t \in Awaited(i)' : t.data \notin active'[i].timers
  <2>1. \A i \in DOMAIN active : \A t \in Awaited(i) : t.data # d
    BY FreshIsNew DEF Due
  <2>2. \A i \in DOMAIN active : \A t \in Awaited(i) :
          t.data \notin active'[i].timers
    <3>1. SUFFICES ASSUME NEW i \in DOMAIN active, NEW t \in Awaited(i)
                   PROVE  t.data \notin active'[i].timers
      OBVIOUS
    <3>2. t.data \notin active[i].timers /\ t.data # d
      BY <2>1 DEF Inv, HeldInv
    <3>3. active'[i].timers \subseteq active[i].timers \cup {d}
      BY <1>6
    <3>4. QED
      BY <3>2, <3>3
  <2>3. QED
    BY <1>7, <2>2
<1>10. ThreadsInv'
  <2>1. DOMAIN active' = DOMAIN active
    BY <1>6
  <2>2. QED
    BY <1>2, <1>6, <1>7, <2>1 DEF Inv, ThreadsInv
<1>11. running' \subseteq Thread /\ joins' \in Seq(Thread)
       /\ Outstanding' \subseteq Thread
  BY <1>2, <1>7 DEF TypeInv, TypeOK, Thread
<1>12. QED
  <2>1. \A i \in DOMAIN active : /\ active'[i].session = active[i].session
                                 /\ active'[i].live = active[i].live
    BY <1>6
  <2>2. active' \in [DOMAIN active -> Extension]
    BY <1>6
  <2>3. /\ Script /\ call.kind # "stop" /\ NewThreadState(d)
        /\ UNCHANGED <<interp, call, todo, starts, phase, events, fault>>
    BY <1>1, <1>2, <1>4
  <2>4. QED
    BY <1>3, <1>8, <1>9, <1>10, <1>11, <2>1, <2>2, <2>3, RegisterStep

LEMMA SystemStep ==
  ASSUME TypeInv, Inv, Ordinary, System
  PROVE  TypeInv' /\ Inv'
<1>1. PICK d \in Fresh : NewThreadState(d) /\ ForkThread(d)
  BY DEF System
<1>2. /\ Script /\ call.kind # "stop"
      /\ UNCHANGED <<call, todo, starts, joins, phase, fault, events, interp>>
  BY DEF System, Ordinary
<1>3. PICK e \in DOMAIN active : e = call.ext
  BY <1>2, AtScript
<1> DEFINE t == [ext |-> e, data |-> d]
<1>4. /\ active' = [active EXCEPT ![e].threads = @ + 1]
      /\ running' = running \cup {t}
  BY <1>1, <1>3 DEF ForkThread
<1>5. active \in [DOMAIN active -> Extension]
  BY DEF TypeInv
<1>6. /\ active' \in [DOMAIN active -> Extension]
      /\ \A i \in DOMAIN active :
           /\ active'[i].session = active[i].session
           /\ active'[i].live = active[i].live
           /\ active'[i].timers = active[i].timers
           /\ active'[i].threads =
                IF i = e THEN active[i].threads + 1 ELSE active[i].threads
  BY <1>3, <1>4, <1>5 DEF Extension
<1>7. t \in Thread /\ t.ext = e /\ t.data = d
  BY <1>3 DEF Thread, TypeInv, TypeOK, Fresh
<1>8. t \notin Outstanding
  BY <1>3, <1>7, FreshIsNew DEF Due, Awaited
<1>9. /\ Outstanding' = Outstanding \cup {t}
      /\ \A i : Awaited(i)' =
                  IF i = e THEN Awaited(i) \cup {t} ELSE Awaited(i)
      /\ t \notin Awaited(e)
  <2>1. Outstanding' = Outstanding \cup {t}
    BY <1>2, <1>4 DEF Outstanding
  <2>2. QED
    BY <1>7, <1>8, <2>1 DEF Awaited
<1> HIDE DEF t
<1>10. \A i \in DOMAIN active :
         Due(i)' = IF i = e THEN Due(i) \cup {d} ELSE Due(i)
  BY <1>3, <1>6, <1>7, <1>9 DEF Due
<1>11. \A i \in DOMAIN active :
         \A u \in Awaited(i)' : u.data \notin active'[i].timers
  <2>1. d \notin active[e].timers
    BY <1>3, FreshIsNew DEF Due
  <2>2. QED
    BY <1>6, <1>7, <1>9, <2>1 DEF Inv, HeldInv
<1>12. ThreadsInv'
  <2>1. DOMAIN active' = DOMAIN active
    BY <1>6
  <2>2. IsFiniteSet(Outstanding')
    BY <1>9, FS_AddElement DEF Inv, ThreadsInv
  <2>3. \A u \in Outstanding' : u.ext \in DOMAIN active
    BY <1>3, <1>7, <1>9 DEF Inv, ThreadsInv
  <2>4. \A i \in DOMAIN active : active'[i].threads = Cardinality(Awaited(i)')
    <3>1. IsFiniteSet(Awaited(e))
      <4>1. Awaited(e) \subseteq Outstanding
        BY DEF Awaited
      <4>2. QED
        BY <4>1, FS_Subset DEF Inv, ThreadsInv
    <3>2. Cardinality(Awaited(e) \cup {t}) = Cardinality(Awaited(e)) + 1
      BY <1>9, <3>1, FS_AddElement
    <3>3. SUFFICES ASSUME NEW i \in DOMAIN active
                   PROVE  active'[i].threads = Cardinality(Awaited(i)')
      OBVIOUS
    <3>4. active[i].threads = Cardinality(Awaited(i))
      BY DEF Inv, ThreadsInv
    <3>5. CASE i = e
      <4>1. Awaited(i)' = Awaited(e) \cup {t}
        BY <1>9, <3>5
      <4>2. QED
        BY <1>6, <3>2, <3>4, <3>5, <4>1
    <3>6. CASE i # e
      <4>1. Awaited(i)' = Awaited(i)
        BY <1>9, <3>6
      <4>2. QED
        BY <1>6, <3>4, <3>6, <4>1
    <3>7. QED
      BY <3>5, <3>6
  <2>5. \A n \in 1 .. Len(joins) : joins[n] \notin running'
    BY <1>4, <1>8 DEF Inv, ThreadsInv, Outstanding
  <2>6. QED
    BY <1>2, <2>1, <2>2, <2>3, <2>4, <2>5 DEF Inv, ThreadsInv
<1>13. running' \subseteq Thread /\ joins' \in Seq(Thread)
       /\ Outstanding' \subseteq Thread
  BY <1>2, <1>4, <1>7, <1>9 DEF TypeInv, TypeOK, Thread
<1>14. QED
  BY <1>1, <1>2, <1>3, <1>6, <1>10, <1>11, <1>12, <1>13, RegisterStep

LEMMA CancelTimerStep ==
  ASSUME TypeInv, Inv, Ordinary, NEW d \in Data, CancelTimer(d)
  PROVE  TypeInv' /\ Inv'
<1>1. /\ Script /\ HasTimer(d)
      /\ UNCHANGED <<call, todo, starts, running, joins, phase, fault, events,
                     interp, home>>
      /\ active' = [active EXCEPT ![call.ext].timers = @ \ {d}]
      /\ roots' = [roots EXCEPT ![home[d]] = @ \ {d}]
  BY DEF CancelTimer, DropTimer, FreeThreadState
<1>2. PICK e \in DOMAIN active : e = call.ext
  BY <1>1 DEF HasTimer
<1>3. d \in active[e].timers
  BY <1>1, <1>2 DEF HasTimer
<1>4. call.kind # "stop"
  BY <1>2 DEF Inv, CallInv
<1> DEFINE L == call.session
<1>5. /\ Serving(e) = L /\ L \in Sessions /\ L # Null
      /\ \A i : Pending(i) = {} /\ Pending(i)' = {}
      /\ active[e].live
  BY <1>1, <1>2, <1>4, AtScript DEF Pending, Script
<1>6. d \in roots[L] /\ home[d] = L
  <2>1. d \in Due(e)
    BY <1>3 DEF Due
  <2>2. QED
    BY <1>2, <1>5, <2>1 DEF Inv, HeldInv
<1>7. active \in [DOMAIN active -> Extension]
  BY DEF TypeInv
<1>8. /\ active' \in [DOMAIN active -> Extension]
      /\ \A i \in DOMAIN active :
           /\ active'[i].session = active[i].session
           /\ active'[i].live = active[i].live
           /\ active'[i].threads = active[i].threads
           /\ active'[i].timers =
                IF i = e THEN active[i].timers \ {d} ELSE active[i].timers
  BY <1>1, <1>2, <1>7 DEF Extension
<1>9. /\ DOMAIN active' = DOMAIN active
      /\ active' \in [DOMAIN active' -> Extension]
  BY <1>8
<1>10. /\ roots' \in [Sessions -> SUBSET Data]
       /\ roots'[L] = roots[L] \ {d}
       /\ \A M \in Sessions \ {L} : roots'[M] = roots[M]
  <2>1. roots \in [Sessions -> SUBSET Data]
    BY DEF TypeInv, TypeOK
  <2>2. QED
    BY <1>1, <1>5, <1>6, <2>1
<1>11. /\ Outstanding' = Outstanding /\ \A i : Awaited(i)' = Awaited(i)
  BY <1>1 DEF Outstanding, Awaited
<1>12. \A t \in Awaited(e) : t.data # d
  BY <1>2, <1>3 DEF Inv, HeldInv
<1>13. \A i \in DOMAIN active :
         Due(i)' = IF i = e THEN Due(i) \ {d} ELSE Due(i)
  <2>1. SUFFICES ASSUME NEW i \in DOMAIN active
                 PROVE  Due(i)' = IF i = e THEN Due(i) \ {d} ELSE Due(i)
    OBVIOUS
  <2>2. Due(i)' = active'[i].timers \cup {t.data : t \in Awaited(i)}
    BY <1>11 DEF Due
  <2>3. CASE i = e
    <3>1. active'[i].timers = active[i].timers \ {d}
      BY <1>8, <2>3
    <3>2. d \notin {t.data : t \in Awaited(i)}
      BY <1>12, <2>3
    <3>3. QED
      BY <2>2, <2>3, <3>1, <3>2 DEF Due
  <2>4. CASE i # e
    BY <1>8, <2>2, <2>4 DEF Due
  <2>5. QED
    BY <2>3, <2>4
<1>14. TypeInv'
  BY <1>1, <1>9, <1>10, <1>11 DEF TypeInv, TypeOK, Extension
<1>15. \A i \in DOMAIN active : Serving(i)' = Serving(i)
  BY <1>1, <1>8 DEF Serving
<1>16. Stops' = Stops
  BY <1>1 DEF Stops
<1>17. \A i \in DOMAIN active : Serving(i) = L => i = e
  BY <1>2, <1>5 DEF Inv, OwnedInv
<1>18. ThreadsInv'
  BY <1>1, <1>8, <1>9, <1>11 DEF Inv, ThreadsInv
<1>19. HeldInv'
  <2>1. \A i \in DOMAIN active : Serving(i) \in Sessions \cup {Null}
    BY DEF Serving, TypeInv, TypeOK, Handle, Extension, NoCall
  <2>2. \A i \in DOMAIN active : i # e /\ Serving(i) # Null =>
          roots'[Serving(i)] = roots[Serving(i)]
    BY <1>10, <1>17, <2>1
  <2>3. \A M \in Sessions : roots'[M] \subseteq roots[M]
    BY <1>10
  <2>4. \A i \in DOMAIN active :
          /\ Serving(i) = Null => Due(i)' = {}
          /\ Serving(i) # Null => Due(i)' \subseteq roots'[Serving(i)]
          /\ active[i].live /\ Serving(i) # Null => roots'[Serving(i)] = Due(i)'
    <3>1. SUFFICES ASSUME NEW i \in DOMAIN active
                   PROVE
                     /\ Serving(i) = Null => Due(i)' = {}
                     /\ Serving(i) # Null => Due(i)' \subseteq roots'[Serving(i)]
                     /\ active[i].live /\ Serving(i) # Null =>
                          roots'[Serving(i)] = Due(i)'
      OBVIOUS
    <3>2. /\ Serving(i) = Null => Due(i) = {}
          /\ Serving(i) # Null => Due(i) \subseteq roots[Serving(i)]
          /\ active[i].live /\ Serving(i) # Null => roots[Serving(i)] = Due(i)
      BY <1>5 DEF Inv, HeldInv
    <3>3. CASE i = e
      <4>1. Serving(i) = L
        BY <1>5, <3>3
      <4>2. Due(i)' = Due(i) \ {d}
        BY <1>13, <3>3
      <4>3. QED
        BY <1>5, <1>10, <3>2, <4>1, <4>2
    <3>4. CASE i # e
      BY <1>13, <2>2, <3>2, <3>4
    <3>5. QED
      BY <3>3, <3>4
  <2>5. \A i \in DOMAIN active : \A t \in Awaited(i) :
          t.data \notin active'[i].timers
    <3>1. \A i \in DOMAIN active : active'[i].timers \subseteq active[i].timers
      BY <1>8
    <3>2. QED
      BY <3>1 DEF Inv, HeldInv
  <2>6. \A M \in Sessions : \A x \in roots'[M] : home'[x] = M
    BY <1>1, <2>3 DEF Inv, HeldInv
  <2>7. /\ DOMAIN active' = DOMAIN active
        /\ \A i : Awaited(i)' = Awaited(i) /\ Pending(i)' = {}
        /\ \A i \in DOMAIN active : /\ active'[i].live = active[i].live
                                   /\ Serving(i)' = Serving(i)
    BY <1>5, <1>8, <1>9, <1>11, <1>15
  <2>8. QED
    BY <2>4, <2>5, <2>6, <2>7 DEF HeldInv
<1>20. OwnedInv'
  <2>1. \A M \in Sessions : interp[M] # "open" => roots'[M] = {}
    BY <1>10 DEF Inv, OwnedInv
  <2>2. QED
    BY <1>1, <1>9, <1>15, <1>16, <2>1 DEF Inv, OwnedInv
<1>21. CallInv' /\ TodoInv'
  <2>1. LiveExts' = LiveExts
    BY <1>8, <1>9 DEF LiveExts
  <2>2. call.stage = "script"
    BY <1>1 DEF Script
  <2>3. TodoInv'
    BY <1>1, <1>8, <1>9, <2>1 DEF Inv, TodoInv, LiveExts
  <2>4. CallInv'
    BY <1>1, <1>8, <1>9, <2>1, <2>2 DEF Inv, CallInv, LiveExts
  <2>5. QED
    BY <2>3, <2>4
<1>22. QED
  BY <1>1, <1>14, <1>18, <1>19, <1>20, <1>21 DEF Inv

(***************************************************************************)
(* Handlers of the event loop.                                             *)
(***************************************************************************)
LEMMA OfferStep ==
  ASSUME TypeInv, Inv, NEW kind \in {"message", "chat"}, Offer(kind),
         UNCHANGED luaVars
  PROVE  TypeInv' /\ Inv'
<1>1. events' \in 0 .. MaxEvents
  BY ExtensionHostAssumption DEF Offer, Event, TypeInv, TypeOK
<1>2. QED
  BY <1>1, HookStep DEF Offer, Event, Hooks

LEMMA CommandStep ==
  ASSUME TypeInv, Inv, Command, UNCHANGED luaVars
  PROVE  TypeInv' /\ Inv'
<1>1. events' \in 0 .. MaxEvents
  BY ExtensionHostAssumption DEF Command, Event, TypeInv, TypeOK
<1>2. PICK i \in LiveExts : todo' = EachOf("command", {i})
  BY DEF Command
<1>3. QED
  BY <1>1, <1>2, HookStep DEF Command, Event, Hooks

\* The extensions that stay are disabled; the others have no thread left.
LEMMA StoppingStep ==
  ASSUME TypeInv, Inv, Idle, UNCHANGED luaVars,
         StopExtensions, todo' = EachOf("stop", ReadyToClose),
         starts' \in 0 .. MaxScripts, events' \in 0 .. MaxEvents,
         phase' \in {"up", "leaving"},
         UNCHANGED <<call, running, joins, fault>>
  PROVE  TypeInv' /\ Inv'
<1>1. /\ call = NoCall /\ todo = {} /\ fault = "none"
      /\ UNCHANGED <<interp, roots, home>>
  BY DEF Idle, luaVars
<1>2. active \in [DOMAIN active -> Extension]
  BY DEF TypeInv
<1>3. /\ DOMAIN active' = DOMAIN active \ ReadyToClose
      /\ active' \in [DOMAIN active' -> Extension]
      /\ \A i \in DOMAIN active' :
           /\ active'[i].session = active[i].session
           /\ active'[i].timers = active[i].timers
           /\ active'[i].threads = active[i].threads
           /\ active'[i].live = FALSE
  BY <1>2 DEF StopExtensions, Extension
<1>4. /\ Outstanding' = Outstanding /\ \A i : Awaited(i)' = Awaited(i)
  BY DEF Outstanding, Awaited
<1>5. \A i \in DOMAIN active' : Due(i)' = Due(i)
  BY <1>3, <1>4 DEF Due
<1>6. \A c \in todo' :
        /\ c.kind = "stop" /\ c.ext \in ReadyToClose
        /\ c = Call("stop", c.ext, active[c.ext].session, Null)
        /\ c.session = active[c.ext].session
        /\ c \in [kind : Kinds, ext : Ids, session : Handle, data : {Null},
                  stage : {"entered"}]
  BY <1>2 DEF EachOf, Call, Kinds, TypeInv, TypeOK, Extension, ReadyToClose
<1>7. TypeInv'
  BY <1>1, <1>3, <1>4, <1>6 DEF TypeInv, TypeOK, Extension, ReadyToClose
<1>8. \A i \in ReadyToClose : Awaited(i) = {}
  <2>1. SUFFICES ASSUME NEW i \in ReadyToClose
                 PROVE  Awaited(i) = {}
    OBVIOUS
  <2>2. Cardinality(Awaited(i)) = 0
    BY DEF ReadyToClose, Inv, ThreadsInv
  <2>3. IsFiniteSet(Awaited(i))
    <3>1. Awaited(i) \subseteq Outstanding
      BY DEF Awaited
    <3>2. QED
      BY <3>1, FS_Subset DEF Inv, ThreadsInv
  <2>4. QED
    BY <2>2, <2>3, FS_EmptySet
<1>9. ThreadsInv'
  <2>1. \A t \in Outstanding : t.ext \in DOMAIN active'
    BY <1>3, <1>8 DEF Inv, ThreadsInv, Awaited
  <2>2. QED
    BY <1>3, <1>4, <2>1 DEF Inv, ThreadsInv
<1>10. /\ \A i \in DOMAIN active : Serving(i) = active[i].session
       /\ \A i \in DOMAIN active' : Serving(i)' = active[i].session
       /\ \A i : Pending(i) = {} /\ Pending(i)' = {}
  BY <1>1, <1>3 DEF Serving, Pending, NoCall
<1>11. HeldInv'
  BY <1>1, <1>3, <1>4, <1>5, <1>10 DEF Inv, HeldInv
<1>12. Stops = {} /\ Stops' = todo'
  BY <1>1, <1>6 DEF Stops, NoCall
<1>13. \A i \in ReadyToClose :
         \E c \in todo' : c.session = active[i].session
  <2>1. SUFFICES ASSUME NEW i \in ReadyToClose
                 PROVE  \E c \in todo' : c.session = active[i].session
    OBVIOUS
  <2>2. Call("stop", i, active[i].session, Null) \in todo'
    BY DEF EachOf
  <2>3. Call("stop", i, active[i].session, Null).session = active[i].session
    BY DEF Call
  <2>4. QED
    BY <2>2, <2>3
<1>14. OwnedInv'
  <2>1. \A L \in Sessions :
          interp[L] = "open" <=> \E i \in DOMAIN active : active[i].session = L
    BY <1>10, <1>12 DEF Inv, OwnedInv
  <2>2. \A L \in Sessions :
          interp[L] = "open" <=> \/ \E i \in DOMAIN active' : Serving(i)' = L
                                 \/ \E c \in todo' : c.session = L
    <3>1. ReadyToClose \subseteq DOMAIN active
      BY DEF ReadyToClose
    <3>2. QED
      BY <1>3, <1>6, <1>10, <1>13, <2>1, <3>1
  <2>3. \A i, j \in DOMAIN active :
          active[i].session = active[j].session /\ active[i].session # Null
            => i = j
    BY <1>10 DEF Inv, OwnedInv
  <2>4. /\ \A i, j \in DOMAIN active' :
             Serving(i)' = Serving(j)' /\ Serving(i)' # Null => i = j
        /\ \A i \in DOMAIN active', c \in todo' :
             Serving(i)' = c.session => c.session = Null
        /\ \A b, c \in todo' : b.session = c.session /\ b.session # Null => b = c
    <3>1. \A c \in todo' : c.ext \in DOMAIN active /\ c.ext \notin DOMAIN active'
      BY <1>3, <1>6 DEF ReadyToClose
    <3>2. \A i \in DOMAIN active' : i \in DOMAIN active
      BY <1>3
    <3>3. \A b, c \in todo' : b.ext = c.ext => b = c
      BY <1>6
    <3>4. QED
      BY <1>6, <1>10, <2>3, <3>1, <3>2, <3>3
  <2>5. QED
    BY <1>1, <1>12, <2>2, <2>4 DEF Inv, OwnedInv
<1>15. CallInv' /\ TodoInv'
  BY <1>1, <1>3, <1>6 DEF CallInv, TodoInv, NoCall, Hooks
<1>16. QED
  BY <1>1, <1>7, <1>9, <1>11, <1>14, <1>15 DEF Inv

LEMMA ReloadStep ==
  ASSUME TypeInv, Inv, Reload, UNCHANGED luaVars
  PROVE  TypeInv' /\ Inv'
<1>1. events' \in 0 .. MaxEvents /\ phase' = "up"
  BY ExtensionHostAssumption DEF Reload, Event, Idle, TypeInv, TypeOK
<1>2. QED
  BY <1>1, StoppingStep DEF Reload, Event

LEMMA QuitStep ==
  ASSUME TypeInv, Inv, Quit, UNCHANGED luaVars
  PROVE  TypeInv' /\ Inv'
<1>1. starts' \in 0 .. MaxScripts /\ events' \in 0 .. MaxEvents
  BY DEF Quit, TypeInv, TypeOK
<1>2. QED
  BY <1>1, StoppingStep DEF Quit

\* The client calls extension i with the thread state d it was registered
\* with, and forgets it.
LEMMA CalledBackStep ==
  ASSUME TypeInv, Inv, Idle, UNCHANGED luaVars,
         NEW i \in LiveExts, NEW d \in Data, d \in Due(i),
         NEW kind \in Continuations, call' = Call(kind, i, active[i].session, d),
         UNCHANGED <<todo, starts, phase, fault, events>>,
         active' \in [DOMAIN active -> Extension],
         \A j \in DOMAIN active : /\ active'[j].session = active[j].session
                                  /\ active'[j].live = active[j].live
                                  /\ Due(j)' = IF j = i THEN Due(j) \ {d}
                                               ELSE Due(j),
         \A j \in DOMAIN active :
           \A t \in Awaited(j)' : t.data \notin active'[j].timers,
         running' \subseteq Thread, joins' \in Seq(Thread),
         Outstanding' \subseteq Thread, ThreadsInv'
  PROVE  TypeInv' /\ Inv'
<1> DEFINE L == active[i].session
<1>1. /\ call = NoCall /\ todo = {} /\ fault = "none"
      /\ UNCHANGED <<interp, roots, home>>
  BY DEF Idle, luaVars
<1>2. /\ i \in DOMAIN active /\ active[i].live /\ i \in Ids
      /\ L \in Sessions \cup {Null}
  BY DEF LiveExts, TypeInv, TypeOK, Extension, Handle
<1>3. /\ \A j \in DOMAIN active : Serving(j) = active[j].session
      /\ \A j : Pending(j) = {}
  BY <1>1 DEF Serving, Pending, NoCall
<1>4. L # Null /\ L \in Sessions /\ roots[L] = Due(i)
  <2>1. L # Null
    BY <1>2, <1>3 DEF Inv, HeldInv
  <2>2. QED
    BY <1>2, <1>3, <2>1 DEF Inv, HeldInv
<1>5. /\ call'.kind = kind /\ call'.ext = i /\ call'.session = L
      /\ call'.data = d /\ call'.stage = "entered"
      /\ call' \in [kind : Kinds, ext : Ids, session : Handle,
                    data : Data \cup {Null}, stage : {"entered", "script"}]
  BY <1>2, <1>4 DEF Call, Kinds, Handle, Continuations
<1>6. DOMAIN active' = DOMAIN active /\ active' \in [DOMAIN active' -> Extension]
  OBVIOUS
<1>7. TypeInv'
  BY <1>1, <1>5, <1>6 DEF TypeInv, TypeOK, Extension, Thread
<1>8. /\ \A j \in DOMAIN active : Serving(j)' = active[j].session
      /\ \A j : Pending(j)' = IF j = i THEN {d} ELSE {}
  BY <1>5 DEF Serving, Pending, Continuations
<1>9. Stops = {} /\ Stops' = {}
  BY <1>1, <1>5 DEF Stops, NoCall, Continuations
<1>10. HeldInv'
  <2>1. \A j \in DOMAIN active :
          /\ active[j].session = Null => Due(j)' = {}
          /\ active[j].session # Null => Due(j)' \subseteq roots[active[j].session]
          /\ active[j].live /\ active[j].session # Null =>
               roots[active[j].session] = Due(j)' \cup Pending(j)'
    <3>1. SUFFICES ASSUME NEW j \in DOMAIN active
                   PROVE
                     /\ active[j].session = Null => Due(j)' = {}
                     /\ active[j].session # Null =>
                          Due(j)' \subseteq roots[active[j].session]
                     /\ active[j].live /\ active[j].session # Null =>
                          roots[active[j].session] = Due(j)' \cup Pending(j)'
      OBVIOUS
    <3>2. /\ active[j].session = Null => Due(j) = {}
          /\ active[j].session # Null => Due(j) \subseteq roots[active[j].session]
          /\ active[j].live /\ active[j].session # Null =>
               roots[active[j].session] = Due(j)
      BY <1>3 DEF Inv, HeldInv
    <3>3. CASE j = i
      <4>1. Due(j)' = Due(i) \ {d} /\ Pending(j)' = {d}
        BY <1>8, <3>3
      <4>2. QED
        BY <1>4, <3>3, <4>1
    <3>4. CASE j # i
      <4>1. Due(j)' = Due(j) /\ Pending(j)' = {}
        BY <1>8, <3>4
      <4>2. QED
        BY <3>2, <4>1
    <3>5. QED
      BY <3>3, <3>4
  <2>2. \A M \in Sessions : \A x \in roots[M] : home[x] = M
    BY DEF Inv, HeldInv
  <2>3. QED
    BY <1>1, <1>6, <1>8, <2>1, <2>2 DEF HeldInv
<1>11. OwnedInv'
  BY <1>1, <1>3, <1>6, <1>8, <1>9 DEF Inv, OwnedInv
<1>12. CallInv' /\ TodoInv'
  <2>1. d \notin Due(i)'
    <3>1. Due(i)' = Due(i) \ {d}
      BY <1>2
    <3>2. QED
      BY <3>1
  <2>2. d \notin Due(call.ext)'
    BY <1>5, <2>1 DEF Due, Awaited
  <2>3. d \in roots'[L]
    BY <1>1, <1>4
  <2>4. call'.ext \in LiveExts' /\ call'.session = active'[call'.ext].session
    BY <1>2, <1>5, <1>6 DEF LiveExts
  <2>5. QED
    BY <1>1, <1>4, <1>5, <2>2, <2>3, <2>4
       DEF CallInv, TodoInv, Continuations, Hooks, Kinds
<1>13. QED
  BY <1>1, <1>7, <1>10, <1>11, <1>12 DEF Inv

LEMMA TimerFiresStep ==
  ASSUME TypeInv, Inv, NEW i \in Ids, NEW d \in Data, TimerFires(i, d),
         UNCHANGED luaVars
  PROVE  TypeInv' /\ Inv'
<1>1. /\ Idle /\ i \in LiveExts /\ i \in DOMAIN active /\ d \in active[i].timers
      /\ active' = [active EXCEPT ![i].timers = @ \ {d}]
      /\ call' = Call("timer", i, active[i].session, d)
      /\ UNCHANGED <<todo, starts, running, joins, phase, fault, events>>
  BY DEF TimerFires, LiveExts
<1>2. active \in [DOMAIN active -> Extension]
  BY DEF TypeInv
<1>3. /\ active' \in [DOMAIN active -> Extension]
      /\ \A j \in DOMAIN active :
           /\ active'[j].session = active[j].session
           /\ active'[j].live = active[j].live
           /\ active'[j].threads = active[j].threads
           /\ active'[j].timers =
                IF j = i THEN active[j].timers \ {d} ELSE active[j].timers
  BY <1>1, <1>2 DEF Extension
<1>4. /\ Outstanding' = Outstanding /\ \A j : Awaited(j)' = Awaited(j)
  BY <1>1 DEF Outstanding, Awaited
<1>5. \A t \in Awaited(i) : t.data # d
  BY <1>1 DEF Inv, HeldInv
<1>6. \A j \in DOMAIN active :
        Due(j)' = IF j = i THEN Due(j) \ {d} ELSE Due(j)
  <2>1. SUFFICES ASSUME NEW j \in DOMAIN active
                 PROVE  Due(j)' = IF j = i THEN Due(j) \ {d} ELSE Due(j)
    OBVIOUS
  <2>2. Due(j)' = active'[j].timers \cup {t.data : t \in Awaited(j)}
    BY <1>4 DEF Due
  <2>3. CASE j = i
    <3>1. active'[j].timers = active[j].timers \ {d}
      BY <1>3, <2>3
    <3>2. d \notin {t.data : t \in Awaited(j)}
      BY <1>5, <2>3
    <3>3. QED
      BY <2>2, <2>3, <3>1, <3>2 DEF Due
  <2>4. CASE j # i
    BY <1>3, <2>2, <2>4 DEF Due
  <2>5. QED
    BY <2>3, <2>4
<1>7. \A j \in DOMAIN active :
        \A t \in Awaited(j)' : t.data \notin active'[j].timers
  <2>1. \A j \in DOMAIN active : active'[j].timers \subseteq active[j].timers
    BY <1>3
  <2>2. \A j \in DOMAIN active : \A t \in Awaited(j) :
          t.data \notin active'[j].timers
    BY <2>1 DEF Inv, HeldInv
  <2>3. QED
    BY <1>4, <2>2
<1>8. ThreadsInv'
  <2>1. DOMAIN active' = DOMAIN active
    BY <1>3
  <2>2. QED
    BY <1>1, <1>3, <1>4, <2>1 DEF Inv, ThreadsInv
<1>9. /\ running' \subseteq Thread /\ joins' \in Seq(Thread)
      /\ Outstanding' \subseteq Thread
  BY <1>1, <1>4 DEF TypeInv, TypeOK, Thread
<1>10. d \in Due(i) /\ "timer" \in Continuations
  BY <1>1 DEF Due, Continuations
<1>11. /\ \A j \in DOMAIN active : /\ active'[j].session = active[j].session
                                   /\ active'[j].live = active[j].live
       /\ UNCHANGED <<todo, starts, phase, fault, events>>
       /\ active' \in [DOMAIN active -> Extension]
  BY <1>1, <1>3
<1>12. Idle /\ i \in LiveExts /\ call' = Call("timer", i, active[i].session, d)
  BY <1>1
<1>13. QED
  BY <1>6, <1>7, <1>8, <1>9, <1>10, <1>11, <1>12, CalledBackStep

(***************************************************************************)
(* Threads: their ends, and the joins of the event loop.                   *)
(***************************************************************************)
LEMMA ThreadEndsStep ==
  ASSUME TypeInv, Inv, NEW t \in running, ThreadEnds(t), UNCHANGED luaVars
  PROVE  TypeInv' /\ Inv'
<1>1. /\ running' = running \ {t} /\ joins' = Append(joins, t)
      /\ UNCHANGED <<active, call, todo, starts, phase, fault, events,
                     interp, roots, home>>
  BY DEF ThreadEnds, luaVars
<1>2. t \in Thread /\ joins \in Seq(Thread) /\ running' \subseteq Thread
  BY <1>1 DEF TypeInv
<1>3. /\ joins' \in Seq(Thread) /\ Len(joins') = Len(joins) + 1
      /\ \A n \in 1 .. Len(joins) : joins'[n] = joins[n]
      /\ joins'[Len(joins) + 1] = t
      /\ {joins'[n] : n \in 1 .. Len(joins')}
           = {joins[n] : n \in 1 .. Len(joins)} \cup {t}
  BY <1>1, <1>2, QueueAppend
<1>4. /\ Outstanding' = Outstanding /\ \A i : Awaited(i)' = Awaited(i)
  <2>1. Outstanding' = Outstanding
    BY <1>1, <1>3 DEF Outstanding
  <2>2. QED
    BY <2>1 DEF Awaited
<1>5. \A i : Due(i)' = Due(i)
  BY <1>1, <1>4 DEF Due
<1>6. TypeInv'
  BY <1>1, <1>2, <1>3, <1>4 DEF TypeInv, TypeOK
<1>7. \A i : Serving(i)' = Serving(i) /\ Pending(i)' = Pending(i)
  BY <1>1 DEF Serving, Pending
<1>8. Stops' = Stops /\ LiveExts' = LiveExts
  BY <1>1 DEF Stops, LiveExts
<1>9. ThreadsInv'
  <2>1. \A n \in 1 .. Len(joins) : joins[n] # t
    BY DEF Inv, ThreadsInv
  <2>2. Len(joins) \in Nat
    BY <1>2
  <2>3. \A m, n \in 1 .. Len(joins) : joins[m] = joins[n] => m = n
    BY DEF Inv, ThreadsInv
  <2>4. \A n \in 1 .. Len(joins') : n \in 1 .. Len(joins) \/ n = Len(joins) + 1
    BY <1>3, <2>2
  <2>5. \A m, n \in 1 .. Len(joins') : joins'[m] = joins'[n] => m = n
    BY <1>3, <2>1, <2>3, <2>4
  <2>6. \A n \in 1 .. Len(joins') : joins'[n] \notin running'
    BY <1>1, <1>3, <2>4 DEF Inv, ThreadsInv
  <2>7. QED
    BY <1>1, <1>4, <2>5, <2>6 DEF Inv, ThreadsInv
<1>10. HeldInv' /\ OwnedInv'
  BY <1>1, <1>4, <1>5, <1>7, <1>8 DEF Inv, HeldInv, OwnedInv
<1>11. TodoInv'
  BY <1>1, <1>8 DEF Inv, TodoInv
<1>12. CallInv'
  BY <1>1, <1>5, <1>8 DEF Inv, CallInv
<1>13. QED
  BY <1>1, <1>6, <1>9, <1>10, <1>11, <1>12 DEF Inv

\* The thread at the head of the queue is no longer waited for.
LEMMA Joined ==
  ASSUME TypeInv, Inv, joins # << >>, NEW t, t = Head(joins),
         joins' = Tail(joins), UNCHANGED running
  PROVE  /\ t \in Thread /\ t \in Outstanding /\ t.ext \in DOMAIN active
         /\ joins' \in Seq(Thread) /\ running' \subseteq Thread
         /\ Outstanding' = Outstanding \ {t} /\ Outstanding' \subseteq Thread
         /\ \A i : Awaited(i)' =
                     IF i = t.ext THEN Awaited(i) \ {t} ELSE Awaited(i)
         /\ t \in Awaited(t.ext)
         /\ \A u \in Awaited(t.ext) : u.data = t.data => u = t
         /\ IsFiniteSet(Outstanding')
         /\ \A m, n \in 1 .. Len(joins') : joins'[m] = joins'[n] => m = n
         /\ \A n \in 1 .. Len(joins') : joins'[n] \notin running'
         /\ IsFiniteSet(Awaited(t.ext))
         /\ Cardinality(Awaited(t.ext) \ {t}) = Cardinality(Awaited(t.ext)) - 1
<1>1. joins \in Seq(Thread) /\ running' \subseteq Thread
  BY DEF TypeInv
<1>2. \A m, n \in 1 .. Len(joins) : joins[m] = joins[n] => m = n
  BY DEF Inv, ThreadsInv
<1>3. /\ t \in Thread /\ joins' \in Seq(Thread)
      /\ t \in {joins[n] : n \in 1 .. Len(joins)}
      /\ \A m, n \in 1 .. Len(joins') : joins'[m] = joins'[n] => m = n
      /\ {joins'[n] : n \in 1 .. Len(joins')}
           = {joins[n] : n \in 1 .. Len(joins)} \ {t}
  BY <1>1, <1>2, QueueTail
<1>4. t \in Outstanding /\ t \notin running
  BY <1>3 DEF Outstanding, Inv, ThreadsInv
<1>5. Outstanding' = Outstanding \ {t}
  BY <1>3, <1>4 DEF Outstanding
<1>6. Outstanding \subseteq Thread
  BY DEF TypeInv, TypeOK, Thread
<1>7. \A i : Awaited(i)' = IF i = t.ext THEN Awaited(i) \ {t} ELSE Awaited(i)
  BY <1>5 DEF Awaited
<1>8. t \in Awaited(t.ext) /\ t.ext \in DOMAIN active
  BY <1>4 DEF Awaited, Inv, ThreadsInv
<1>9. \A u \in Awaited(t.ext) : u.data = t.data => u = t
  BY <1>3, <1>6 DEF Awaited, Thread
<1>10. IsFiniteSet(Outstanding) /\ IsFiniteSet(Outstanding')
  BY <1>5, FS_Subset DEF Inv, ThreadsInv
<1>11. IsFiniteSet(Awaited(t.ext))
  <2>1. Awaited(t.ext) \subseteq Outstanding
    BY DEF Awaited
  <2>2. QED
    BY <1>10, <2>1, FS_Subset
<1>12. Cardinality(Awaited(t.ext) \ {t}) = Cardinality(Awaited(t.ext)) - 1
  BY <1>8, <1>11, FS_RemoveElement
<1>13. \A n \in 1 .. Len(joins') : joins'[n] \notin running'
  <2>1. \A n \in 1 .. Len(joins') : joins'[n] \in {joins[k] : k \in 1 .. Len(joins)}
    BY <1>3
  <2>2. \A x \in {joins[k] : k \in 1 .. Len(joins)} : x \notin running
    BY DEF Inv, ThreadsInv
  <2>3. QED
    BY <2>1, <2>2
<1>14. QED
  BY <1>1, <1>3, <1>4, <1>5, <1>6, <1>7, <1>8, <1>9, <1>10, <1>11, <1>12, <1>13

LEMMA JoinLiveStep ==
  ASSUME TypeInv, Inv, Idle, joins # << >>,
         NEW t, t = Head(joins), NEW i, i = t.ext, JoinLive(i, t.data),
         joins' = Tail(joins),
         UNCHANGED <<todo, starts, running, phase, events>>, UNCHANGED luaVars
  PROVE  TypeInv' /\ Inv'
<1>1. /\ t \in Thread /\ t \in Awaited(i)
      /\ joins' \in Seq(Thread) /\ running' \subseteq Thread
      /\ Outstanding' = Outstanding \ {t} /\ Outstanding' \subseteq Thread
      /\ \A j : Awaited(j)' = IF j = i THEN Awaited(j) \ {t} ELSE Awaited(j)
      /\ \A u \in Awaited(i) : u.data = t.data => u = t
      /\ IsFiniteSet(Outstanding')
      /\ \A m, n \in 1 .. Len(joins') : joins'[m] = joins'[n] => m = n
      /\ \A n \in 1 .. Len(joins') : joins'[n] \notin running'
      /\ Cardinality(Awaited(i) \ {t}) = Cardinality(Awaited(i)) - 1
  BY Joined
<1>2. PICK d \in Data : d = t.data
  BY <1>1 DEF Thread
<1>3. /\ i \in LiveExts /\ i \in DOMAIN active
      /\ active' = [active EXCEPT ![i].threads = @ - 1]
      /\ call' = Call("finish", i, active[i].session, d) /\ fault' = fault
  BY <1>2 DEF JoinLive, LiveExts
<1>4. active \in [DOMAIN active -> Extension]
  BY DEF TypeInv
<1>5. active[i].threads # 0 /\ active[i].threads = Cardinality(Awaited(i))
  <2>1. active[i].threads = Cardinality(Awaited(i))
    BY <1>3 DEF Inv, ThreadsInv
  <2>2. IsFiniteSet(Awaited(i) \ {t})
    <3>1. Awaited(i) \ {t} \subseteq Outstanding
      BY DEF Awaited
    <3>2. QED
      BY <3>1, FS_Subset DEF Inv, ThreadsInv
  <2>3. Cardinality(Awaited(i) \ {t}) \in Nat
    BY <2>2, FS_CardinalityType
  <2>4. QED
    BY <1>1, <2>1, <2>3
<1>6. /\ active' \in [DOMAIN active -> Extension]
      /\ \A j \in DOMAIN active :
           /\ active'[j].session = active[j].session
           /\ active'[j].live = active[j].live
           /\ active'[j].timers = active[j].timers
           /\ active'[j].threads =
                IF j = i THEN active[j].threads - 1 ELSE active[j].threads
  <2>1. active[i].threads - 1 \in Nat
    BY <1>3, <1>4, <1>5 DEF Extension
  <2>2. [active[i] EXCEPT !.threads = @ - 1] \in Extension
    BY <1>3, <1>4, <2>1 DEF Extension
  <2>3. \A j \in DOMAIN active :
          active'[j] = IF j = i THEN [active[i] EXCEPT !.threads = @ - 1]
                       ELSE active[j]
    BY <1>3, <1>4
  <2>4. active' \in [DOMAIN active -> Extension]
    BY <1>3, <1>4, <2>2
  <2>5. QED
    BY <1>4, <2>3, <2>4 DEF Extension
<1>7. d \notin active[i].timers
  BY <1>1, <1>2, <1>3 DEF Inv, HeldInv
<1>8. \A j \in DOMAIN active :
        Due(j)' = IF j = i THEN Due(j) \ {d} ELSE Due(j)
  <2>1. SUFFICES ASSUME NEW j \in DOMAIN active
                 PROVE  Due(j)' = IF j = i THEN Due(j) \ {d} ELSE Due(j)
    OBVIOUS
  <2>2. CASE j = i
    <3>1. Awaited(j)' = Awaited(j) \ {t} /\ active'[j].timers = active[j].timers
      BY <1>1, <1>6, <2>2
    <3>2. Due(j)' = active[j].timers \cup {u.data : u \in Awaited(j) \ {t}}
      BY <3>1 DEF Due
    <3>3. {u.data : u \in Awaited(j) \ {t}} = {u.data : u \in Awaited(j)} \ {d}
      BY <1>1, <1>2, <2>2
    <3>4. QED
      BY <1>7, <2>2, <3>2, <3>3 DEF Due
  <2>3. CASE j # i
    <3>1. Awaited(j)' = Awaited(j) /\ active'[j].timers = active[j].timers
      BY <1>1, <1>6, <2>3
    <3>2. QED
      BY <2>3, <3>1 DEF Due
  <2>4. QED
    BY <2>2, <2>3
<1>9. \A j \in DOMAIN active :
        \A u \in Awaited(j)' : u.data \notin active'[j].timers
  <2>1. \A j : Awaited(j)' \subseteq Awaited(j)
    BY <1>1
  <2>2. \A j \in DOMAIN active : active'[j].timers = active[j].timers
    BY <1>6
  <2>3. QED
    BY <2>1, <2>2 DEF Inv, HeldInv
<1>10. ThreadsInv'
  <2>1. DOMAIN active' = DOMAIN active
    BY <1>6
  <2>2. \A j \in DOMAIN active : active'[j].threads = Cardinality(Awaited(j)')
    <3>1. SUFFICES ASSUME NEW j \in DOMAIN active
                   PROVE  active'[j].threads = Cardinality(Awaited(j)')
      OBVIOUS
    <3>2. CASE j = i
      <4>1. Awaited(j)' = Awaited(i) \ {t}
        BY <1>1, <3>2
      <4>2. QED
        BY <1>1, <1>5, <1>6, <3>2, <4>1
    <3>3. CASE j # i
      <4>1. Awaited(j)' = Awaited(j)
        BY <1>1, <3>3
      <4>2. QED
        BY <1>6, <3>3, <4>1 DEF Inv, ThreadsInv
    <3>4. QED
      BY <3>2, <3>3
  <2>3. \A u \in Outstanding' : u.ext \in DOMAIN active
    BY <1>1 DEF Inv, ThreadsInv
  <2>4. QED
    BY <1>1, <2>1, <2>2, <2>3 DEF ThreadsInv
<1>11. d \in Due(i) /\ "finish" \in Continuations
  BY <1>1, <1>2 DEF Due, Continuations
<1>12. /\ \A j \in DOMAIN active : /\ active'[j].session = active[j].session
                                   /\ active'[j].live = active[j].live
       /\ UNCHANGED <<todo, starts, phase, fault, events>>
       /\ active' \in [DOMAIN active -> Extension]
       /\ running' \subseteq Thread /\ joins' \in Seq(Thread)
       /\ Outstanding' \subseteq Thread
  BY <1>1, <1>3, <1>6
<1>13. i \in LiveExts /\ call' = Call("finish", i, active[i].session, d)
  BY <1>3
<1>14. QED
  BY <1>8, <1>9, <1>10, <1>11, <1>12, <1>13, CalledBackStep

\* The last thread of a disabled extension: it leaves the table and is
\* stopped.
LEMMA LastJoinStep ==
  ASSUME TypeInv, Inv, Idle, joins # << >>,
         NEW t, t = Head(joins), NEW i, i = t.ext,
         i \in DOMAIN active, active[i].threads = 1,
         active' = [j \in DOMAIN active \ {i} |-> active[j]],
         call' = Call("stop", i, active[i].session, Null), fault' = fault,
         joins' = Tail(joins),
         UNCHANGED <<todo, starts, running, phase, events>>, UNCHANGED luaVars
  PROVE  TypeInv' /\ Inv'
<1> DEFINE L == active[i].session
<1>1. /\ t \in Thread /\ t \in Awaited(i)
      /\ joins' \in Seq(Thread) /\ running' \subseteq Thread
      /\ Outstanding' = Outstanding \ {t} /\ Outstanding' \subseteq Thread
      /\ \A j : Awaited(j)' = IF j = i THEN Awaited(j) \ {t} ELSE Awaited(j)
      /\ IsFiniteSet(Outstanding') /\ IsFiniteSet(Awaited(i))
      /\ \A m, n \in 1 .. Len(joins') : joins'[m] = joins'[n] => m = n
      /\ \A n \in 1 .. Len(joins') : joins'[n] \notin running'
      /\ Cardinality(Awaited(i) \ {t}) = Cardinality(Awaited(i)) - 1
  BY Joined
<1>2. /\ call = NoCall /\ todo = {} /\ fault = "none"
      /\ UNCHANGED <<interp, roots, home>>
  BY DEF Idle, luaVars
<1>3. Awaited(i) = {t}
  <2>1. IsFiniteSet(Awaited(i) \ {t})
    BY <1>1, FS_Subset
  <2>2. Cardinality(Awaited(i) \ {t}) = 0
    <3>1. Cardinality(Awaited(i)) = 1
      BY DEF Inv, ThreadsInv
    <3>2. QED
      BY <1>1, <3>1
  <2>3. Awaited(i) \ {t} = {}
    BY <2>1, <2>2, FS_EmptySet
  <2>4. QED
    BY <1>1, <2>3
<1>4. active \in [DOMAIN active -> Extension]
  BY DEF TypeInv
<1>5. /\ DOMAIN active' = DOMAIN active \ {i}
      /\ active' \in [DOMAIN active' -> Extension]
      /\ \A j \in DOMAIN active' : active'[j] = active[j]
  BY <1>4
<1>6. \A j \in DOMAIN active' : Awaited(j)' = Awaited(j)
  BY <1>1, <1>5
<1>7. \A j \in DOMAIN active' : Due(j)' = Due(j)
  BY <1>5, <1>6 DEF Due
<1>8. i \in Ids /\ L \in Handle
  BY <1>4 DEF TypeInv, TypeOK, Extension
<1>9. /\ call'.kind = "stop" /\ call'.ext = i /\ call'.session = L
      /\ call'.data = Null /\ call'.stage = "entered"
      /\ call' \in [kind : Kinds, ext : Ids, session : Handle,
                    data : Data \cup {Null}, stage : {"entered", "script"}]
  BY <1>8 DEF Call, Kinds
<1>10. TypeInv'
  BY <1>1, <1>2, <1>5, <1>9 DEF TypeInv, TypeOK, Extension, Thread
<1>11. /\ \A j \in DOMAIN active : Serving(j) = active[j].session
       /\ \A j \in DOMAIN active' : Serving(j)' = active[j].session
       /\ \A j : Pending(j) = {} /\ Pending(j)' = {}
  BY <1>2, <1>5, <1>9 DEF Serving, Pending, NoCall
<1>12. ThreadsInv'
  <2>1. \A u \in Outstanding' : u.ext \in DOMAIN active'
    BY <1>1, <1>3, <1>5 DEF Inv, ThreadsInv, Awaited
  <2>2. \A j \in DOMAIN active' : active'[j].threads = Cardinality(Awaited(j)')
    <3>1. SUFFICES ASSUME NEW j \in DOMAIN active'
                   PROVE  active'[j].threads = Cardinality(Awaited(j)')
      OBVIOUS
    <3>2. Awaited(j)' = Awaited(j) /\ active'[j] = active[j] /\ j \in DOMAIN active
      BY <1>5, <1>6
    <3>3. QED
      BY <3>2 DEF Inv, ThreadsInv
  <2>3. QED
    BY <1>1, <2>1, <2>2 DEF ThreadsInv
<1>13. HeldInv'
  <2>1. \A j \in DOMAIN active' :
          /\ j \in DOMAIN active /\ active'[j] = active[j]
          /\ Due(j)' = Due(j) /\ Awaited(j)' = Awaited(j)
          /\ Serving(j)' = Serving(j) /\ Pending(j)' = Pending(j)
    BY <1>5, <1>6, <1>7, <1>11
  <2>2. \A j \in DOMAIN active' :
          /\ Serving(j) = Null => Due(j) = {}
          /\ Serving(j) # Null => Due(j) \subseteq roots[Serving(j)]
          /\ \A u \in Awaited(j) : u.data \notin active[j].timers
          /\ active[j].live /\ Serving(j) # Null =>
               roots[Serving(j)] = Due(j) \cup Pending(j)
    BY <2>1 DEF Inv, HeldInv
  <2>3. \A M \in Sessions : \A x \in roots[M] : home[x] = M
    BY DEF Inv, HeldInv
  <2>4. \A j \in DOMAIN active' :
          /\ Serving(j)' = Null => Due(j)' = {}
          /\ Serving(j)' # Null => Due(j)' \subseteq roots[Serving(j)']
          /\ \A u \in Awaited(j)' : u.data \notin active'[j].timers
          /\ active'[j].live /\ Serving(j)' # Null =>
               roots[Serving(j)'] = Due(j)' \cup Pending(j)'
    <3>1. SUFFICES ASSUME NEW j \in DOMAIN active'
                   PROVE
                     /\ Serving(j)' = Null => Due(j)' = {}
                     /\ Serving(j)' # Null => Due(j)' \subseteq roots[Serving(j)']
                     /\ \A u \in Awaited(j)' : u.data \notin active'[j].timers
                     /\ active'[j].live /\ Serving(j)' # Null =>
                          roots[Serving(j)'] = Due(j)' \cup Pending(j)'
      OBVIOUS
    <3>2. /\ active'[j] = active[j]
          /\ Due(j)' = Due(j) /\ Awaited(j)' = Awaited(j)
          /\ Serving(j)' = Serving(j) /\ Pending(j)' = Pending(j)
      BY <2>1
    <3>3. QED
      BY <2>2, <3>2
  <2>5. QED
    BY <1>2, <2>3, <2>4 DEF HeldInv
<1>14. Stops = {} /\ Stops' = {call'}
  BY <1>2, <1>9 DEF Stops, NoCall
<1>15. OwnedInv'
  <2>1. /\ \A M \in Sessions :
             interp[M] = "open" <=> \E j \in DOMAIN active : active[j].session = M
        /\ \A j, k \in DOMAIN active :
             active[j].session = active[k].session /\ active[j].session # Null
               => j = k
    BY <1>11, <1>14 DEF Inv, OwnedInv
  <2>2. \A M \in Sessions :
          interp[M] = "open" <=> \/ \E j \in DOMAIN active' : Serving(j)' = M
                                 \/ call'.session = M
    <3>1. \A M : (\E j \in DOMAIN active : active[j].session = M)
                   <=> \/ \E j \in DOMAIN active' : active[j].session = M
                       \/ L = M
      BY <1>5
    <3>2. QED
      BY <1>9, <1>11, <2>1, <3>1
  <2>3. /\ \A j, k \in DOMAIN active' :
             Serving(j)' = Serving(k)' /\ Serving(j)' # Null => j = k
        /\ \A j \in DOMAIN active' :
             Serving(j)' = call'.session => call'.session = Null
    BY <1>5, <1>9, <1>11, <2>1
  <2>4. QED
    BY <1>2, <1>14, <2>2, <2>3 DEF Inv, OwnedInv
<1>16. CallInv' /\ TodoInv'
  BY <1>2, <1>5, <1>9 DEF CallInv, TodoInv, Hooks, Kinds
<1>17. QED
  BY <1>2, <1>10, <1>12, <1>13, <1>15, <1>16 DEF Inv

\* One thread of several of a disabled extension.
LEMMA EarlyJoinStep ==
  ASSUME TypeInv, Inv, Idle, joins # << >>,
         NEW t, t = Head(joins), NEW i, i = t.ext,
         i \in DOMAIN active \ LiveExts,
         active' = [active EXCEPT ![i].threads = @ - 1],
         joins' = Tail(joins),
         UNCHANGED <<call, fault, todo, starts, running, phase, events>>,
         UNCHANGED luaVars
  PROVE  TypeInv' /\ Inv'
<1>1. /\ t \in Thread /\ t \in Awaited(i)
      /\ joins' \in Seq(Thread) /\ running' \subseteq Thread
      /\ Outstanding' = Outstanding \ {t} /\ Outstanding' \subseteq Thread
      /\ \A j : Awaited(j)' = IF j = i THEN Awaited(j) \ {t} ELSE Awaited(j)
      /\ IsFiniteSet(Outstanding') /\ IsFiniteSet(Awaited(i))
      /\ \A m, n \in 1 .. Len(joins') : joins'[m] = joins'[n] => m = n
      /\ \A n \in 1 .. Len(joins') : joins'[n] \notin running'
      /\ Cardinality(Awaited(i) \ {t}) = Cardinality(Awaited(i)) - 1
  BY Joined
<1>2. /\ call = NoCall /\ todo = {} /\ fault = "none"
      /\ UNCHANGED <<interp, roots, home>>
  BY DEF Idle, luaVars
<1>3. active \in [DOMAIN active -> Extension] /\ ~active[i].live
  BY DEF TypeInv, LiveExts
<1>4. active[i].threads = Cardinality(Awaited(i)) /\ active[i].threads - 1 \in Nat
  <2>1. IsFiniteSet(Awaited(i) \ {t})
    BY <1>1, FS_Subset
  <2>2. Cardinality(Awaited(i) \ {t}) \in Nat
    BY <2>1, FS_CardinalityType
  <2>3. active[i].threads = Cardinality(Awaited(i))
    BY DEF Inv, ThreadsInv
  <2>4. QED
    BY <1>1, <2>2, <2>3
<1>5. /\ active' \in [DOMAIN active -> Extension]
      /\ \A j \in DOMAIN active :
           /\ active'[j].session = active[j].session
           /\ active'[j].live = active[j].live
           /\ active'[j].timers = active[j].timers
           /\ active'[j].threads =
                IF j = i THEN active[j].threads - 1 ELSE active[j].threads
  <2>1. [active[i] EXCEPT !.threads = @ - 1] \in Extension
    BY <1>3, <1>4 DEF Extension
  <2>2. \A j \in DOMAIN active :
          active'[j] = IF j = i THEN [active[i] EXCEPT !.threads = @ - 1]
                       ELSE active[j]
    BY <1>3
  <2>3. active' \in [DOMAIN active -> Extension]
    BY <1>3, <2>1
  <2>4. \A j \in DOMAIN active : active[j] \in Extension
    BY <1>3
  <2>5. \A j \in DOMAIN active :
          /\ active'[j].session = active[j].session
          /\ active'[j].live = active[j].live
          /\ active'[j].timers = active[j].timers
    BY <2>2, <2>4 DEF Extension
  <2>6. \A j \in DOMAIN active :
          active'[j].threads =
            IF j = i THEN active[j].threads - 1 ELSE active[j].threads
    BY <2>2, <2>4 DEF Extension
  <2>7. QED
    BY <2>3, <2>5, <2>6
<1>6. /\ DOMAIN active' = DOMAIN active
      /\ active' \in [DOMAIN active' -> Extension]
  BY <1>5
<1>7. \A j \in DOMAIN active :
        /\ Awaited(j)' \subseteq Awaited(j)
        /\ j # i => Awaited(j)' = Awaited(j)
  BY <1>1
<1>8. \A j \in DOMAIN active :
        Due(j)' \subseteq Due(j) /\ (j # i => Due(j)' = Due(j))
  BY <1>5, <1>7 DEF Due
<1>9. TypeInv'
  BY <1>1, <1>2, <1>6 DEF TypeInv, TypeOK, Extension, Thread
<1>10. /\ \A j \in DOMAIN active : Serving(j)' = Serving(j)
       /\ \A j : Pending(j) = {} /\ Pending(j)' = {}
  BY <1>2, <1>5 DEF Serving, Pending, NoCall
<1>11. ThreadsInv'
  <2>1. \A j \in DOMAIN active : active'[j].threads = Cardinality(Awaited(j)')
    <3>1. SUFFICES ASSUME NEW j \in DOMAIN active
                   PROVE  active'[j].threads = Cardinality(Awaited(j)')
      OBVIOUS
    <3>2. CASE j = i
      <4>1. Awaited(j)' = Awaited(i) \ {t}
        BY <1>1, <3>2
      <4>2. QED
        BY <1>1, <1>4, <1>5, <3>2, <4>1
    <3>3. CASE j # i
      <4>1. Awaited(j)' = Awaited(j)
        BY <1>1, <3>3
      <4>2. QED
        BY <1>5, <3>3, <4>1 DEF Inv, ThreadsInv
    <3>4. QED
      BY <3>2, <3>3
  <2>2. \A u \in Outstanding' : u.ext \in DOMAIN active
    BY <1>1 DEF Inv, ThreadsInv
  <2>3. QED
    BY <1>1, <1>6, <2>1, <2>2 DEF ThreadsInv
<1>12. HeldInv'
  <2>1. \A j \in DOMAIN active :
          /\ Serving(j) = Null => Due(j)' = {}
          /\ Serving(j) # Null => Due(j)' \subseteq roots[Serving(j)]
          /\ \A u \in Awaited(j)' : u.data \notin active'[j].timers
          /\ active[j].live /\ Serving(j) # Null => roots[Serving(j)] = Due(j)'
    <3>1. SUFFICES ASSUME NEW j \in DOMAIN active
                   PROVE
                     /\ Serving(j) = Null => Due(j)' = {}
                     /\ Serving(j) # Null => Due(j)' \subseteq roots[Serving(j)]
                     /\ \A u \in Awaited(j)' : u.data \notin active'[j].timers
                     /\ active[j].live /\ Serving(j) # Null =>
                          roots[Serving(j)] = Due(j)'
      OBVIOUS
    <3>2. /\ Serving(j) = Null => Due(j) = {}
          /\ Serving(j) # Null => Due(j) \subseteq roots[Serving(j)]
          /\ \A u \in Awaited(j) : u.data \notin active[j].timers
          /\ active[j].live /\ Serving(j) # Null => roots[Serving(j)] = Due(j)
      BY <1>10 DEF Inv, HeldInv
    <3>3. /\ Due(j)' \subseteq Due(j) /\ Awaited(j)' \subseteq Awaited(j)
          /\ active'[j].timers = active[j].timers
          /\ active[j].live => Due(j)' = Due(j)
      BY <1>3, <1>5, <1>7, <1>8
    <3>4. QED
      BY <3>2, <3>3
  <2>2. /\ \A j \in DOMAIN active : active'[j].live = active[j].live
        /\ \A M \in Sessions : \A x \in roots[M] : home[x] = M
    BY <1>5 DEF Inv, HeldInv
  <2>3. QED
    BY <1>2, <1>6, <1>10, <2>1, <2>2 DEF HeldInv
<1>13. Stops' = Stops
  BY DEF Stops
<1>14. OwnedInv'
  BY <1>2, <1>6, <1>10, <1>13 DEF Inv, OwnedInv
<1>15. CallInv' /\ TodoInv'
  BY <1>2 DEF CallInv, TodoInv, NoCall, Hooks
<1>16. QED
  BY <1>2, <1>9, <1>11, <1>12, <1>14, <1>15 DEF Inv

LEMMA ThreadJoinStep ==
  ASSUME TypeInv, Inv, ThreadJoin, UNCHANGED luaVars
  PROVE  TypeInv' /\ Inv'
<1> DEFINE t == Head(joins)
           i == t.ext
<1>1. /\ Idle /\ joins # << >> /\ joins' = Tail(joins)
      /\ JoinMissing(i) \/ JoinLive(i, t.data) \/ JoinDisabled(i)
      /\ UNCHANGED <<todo, starts, running, phase, events>>
  BY DEF ThreadJoin
<1>2. i \in DOMAIN active
  BY <1>1, Joined
<1> HIDE DEF t, i
<1>3. CASE JoinMissing(i)
  BY <1>2, <1>3 DEF JoinMissing
<1>4. CASE JoinLive(i, t.data)
  BY <1>1, <1>4, JoinLiveStep DEF t, i
<1>5. CASE JoinDisabled(i)
  <2>1. i \in DOMAIN active \ LiveExts /\ fault' = fault
    BY <1>5 DEF JoinDisabled
  <2>2. CASE active[i].threads = 1
    <3>1. /\ active' = [j \in DOMAIN active \ {i} |-> active[j]]
          /\ call' = Call("stop", i, active[i].session, Null)
      BY <1>5, <2>2 DEF JoinDisabled
    <3>2. QED
      BY <1>1, <1>2, <2>1, <2>2, <3>1, LastJoinStep DEF t, i
  <2>3. CASE active[i].threads # 1
    <3>1. /\ active' = [active EXCEPT ![i].threads = @ - 1]
          /\ UNCHANGED call
      BY <1>5, <2>3 DEF JoinDisabled
    <3>2. QED
      BY <1>1, <2>1, <3>1, EarlyJoinStep DEF t, i
  <2>4. QED
    BY <2>2, <2>3
<1>6. QED
  BY <1>1, <1>3, <1>4, <1>5

LEMMA Start1Step ==
  ASSUME TypeInv, Inv, Start1, UNCHANGED luaVars
  PROVE  TypeInv' /\ Inv'
<1>1. /\ call = NoCall /\ fault = "none" /\ todo = {} /\ todo' = {}
      /\ UNCHANGED <<running, joins, phase, fault, events, interp, roots, home>>
      /\ starts' \in 0 .. MaxScripts
  <2>1. /\ starts \in 0 .. MaxScripts /\ starts > 0 /\ starts' = starts - 1
        /\ MaxScripts \in Nat
    BY ExtensionHostAssumption DEF Start1, TypeInv, TypeOK
  <2>2. starts' \in 0 .. MaxScripts
    BY <2>1
  <2>3. QED
    BY <2>2 DEF Start1, luaVars
<1>2. CASE UNCHANGED <<active, call>>
  <2>1. Kept /\ UNCHANGED <<call, todo, phase, events>>
    BY <1>1, <1>2 DEF Kept
  <2>2. TypeInv'
    BY <1>1, <2>1 DEF TypeInv, TypeOK, Kept, Outstanding
  <2>3. /\ Stops' = Stops
        /\ \A i : Serving(i)' = Serving(i) /\ Pending(i)' = Pending(i)
    BY <2>1 DEF Stops, Serving, Pending, Kept
  <2>4. CallInv' /\ TodoInv'
    BY <1>1, <2>1 DEF CallInv, TodoInv, NoCall, Hooks
  <2>5. QED
    BY <2>1, <2>2, <2>3, <2>4, Control DEF Inv
<1>3. ASSUME NEW i \in Ids, NextId(i),
             active' = [j \in DOMAIN active \cup {i} |->
                          IF j = i THEN Opened ELSE active[j]],
             call' = Call("start", i, Null, Null)
      PROVE  TypeInv' /\ Inv'
  <2>1. i \notin DOMAIN active
    BY <1>3 DEF NextId, Ids, TypeInv, TypeOK
  <2>2. active \in [DOMAIN active -> Extension] /\ Opened \in Extension
    BY DEF TypeInv, Opened, Extension, Handle
  <2>3. /\ DOMAIN active' = DOMAIN active \cup {i}
        /\ active' \in [DOMAIN active' -> Extension]
        /\ active'[i] = Opened
        /\ \A j \in DOMAIN active : active'[j] = active[j]
    BY <1>3, <2>1, <2>2
  <2>4. /\ Opened.session = Null /\ Opened.timers = {} /\ Opened.threads = 0
        /\ Opened.live
    BY DEF Opened
  <2>5. /\ call'.kind = "start" /\ call'.ext = i /\ call'.session = Null
        /\ call'.stage = "entered"
        /\ call' \in [kind : Kinds, ext : Ids, session : Handle,
                      data : Data \cup {Null}, stage : {"entered", "script"}]
    BY <1>3 DEF Call, Kinds, Handle
  <2>6. /\ Outstanding' = Outstanding /\ \A j : Awaited(j)' = Awaited(j)
    BY <1>1 DEF Outstanding, Awaited
  <2>7. Awaited(i) = {}
    BY <2>1 DEF Inv, ThreadsInv, Awaited
  <2>8. /\ \A j \in DOMAIN active : Due(j)' = Due(j)
        /\ \A j \in {i} : Due(j)' = {}
    BY <2>3, <2>4, <2>6, <2>7 DEF Due
  <2>9. /\ \A j \in DOMAIN active : Serving(j)' = Serving(j)
        /\ \A j \in {i} : Serving(j)' = Null
        /\ \A j : Pending(j)' = {} /\ Pending(j) = {}
    BY <1>1, <2>1, <2>3, <2>5 DEF Serving, Pending, NoCall
  <2>10. Stops' = {} /\ Stops = {}
    BY <1>1, <2>5 DEF Stops, NoCall
  <2>11. TypeInv'
    BY <1>1, <2>3, <2>5, <2>6 DEF TypeInv, TypeOK, Extension
  <2>12. ThreadsInv'
    <3>1. \A j \in DOMAIN active' : active'[j].threads = Cardinality(Awaited(j))
      BY <2>3, <2>4, <2>7, FS_EmptySet DEF Inv, ThreadsInv
    <3>2. QED
      BY <1>1, <2>3, <2>6, <3>1 DEF Inv, ThreadsInv
  <2>13. HeldInv'
    <3>1. \A j \in DOMAIN active :
            /\ Serving(j) = Null => Due(j) = {}
            /\ Serving(j) # Null => Due(j) \subseteq roots[Serving(j)]
            /\ \A u \in Awaited(j) : u.data \notin active[j].timers
            /\ active[j].live /\ Serving(j) # Null =>
                 roots[Serving(j)] = Due(j) \cup Pending(j)
      BY DEF Inv, HeldInv
    <3>2. \A M \in Sessions : \A x \in roots[M] : home[x] = M
      BY DEF Inv, HeldInv
    <3>3. \A j \in DOMAIN active' :
            /\ Serving(j)' = Null => Due(j)' = {}
            /\ Serving(j)' # Null => Due(j)' \subseteq roots[Serving(j)']
            /\ \A u \in Awaited(j)' : u.data \notin active'[j].timers
            /\ active'[j].live /\ Serving(j)' # Null =>
                 roots[Serving(j)'] = Due(j)' \cup Pending(j)'
      <4>1. SUFFICES ASSUME NEW j \in DOMAIN active'
                     PROVE
                       /\ Serving(j)' = Null => Due(j)' = {}
                       /\ Serving(j)' # Null =>
                            Due(j)' \subseteq roots[Serving(j)']
                       /\ \A u \in Awaited(j)' : u.data \notin active'[j].timers
                       /\ active'[j].live /\ Serving(j)' # Null =>
                            roots[Serving(j)'] = Due(j)' \cup Pending(j)'
        OBVIOUS
      <4>2. CASE j = i
        <5>1. Serving(j)' = Null /\ Due(j)' = {} /\ active'[j].timers = {}
          BY <2>3, <2>4, <2>8, <2>9, <4>2
        <5>2. QED
          BY <5>1
      <4>3. CASE j # i
        <5>1. j \in DOMAIN active
          BY <2>3, <4>3
        <5>2. /\ Serving(j)' = Serving(j) /\ Due(j)' = Due(j)
              /\ Awaited(j)' = Awaited(j) /\ Pending(j)' = Pending(j)
              /\ active'[j] = active[j]
          BY <2>3, <2>6, <2>8, <2>9, <5>1
        <5>3. QED
          BY <3>1, <5>1, <5>2
      <4>4. QED
        BY <4>2, <4>3
    <3>4. QED
      BY <1>1, <3>2, <3>3 DEF HeldInv
  <2>14. OwnedInv'
    <3>1. \A M \in Sessions :
            interp[M] = "open" <=> \E j \in DOMAIN active' : Serving(j)' = M
      <4>1. \A M \in Sessions :
              interp[M] = "open" <=> \E j \in DOMAIN active : Serving(j) = M
        BY <2>10 DEF Inv, OwnedInv
      <4>2. QED
        BY <2>3, <2>9, <4>1, ExtensionHostAssumption
    <3>2. \A j, k \in DOMAIN active' :
            Serving(j)' = Serving(k)' /\ Serving(j)' # Null => j = k
      <4>1. \A j, k \in DOMAIN active :
              Serving(j) = Serving(k) /\ Serving(j) # Null => j = k
        BY DEF Inv, OwnedInv
      <4>2. QED
        BY <2>3, <2>9, <4>1
    <3>3. QED
      BY <1>1, <2>10, <3>1, <3>2 DEF Inv, OwnedInv
  <2>15. CallInv' /\ TodoInv'
    BY <1>1, <2>3, <2>4, <2>5
       DEF CallInv, TodoInv, LiveExts, Hooks, Kinds
  <2>16. QED
    BY <1>1, <2>11, <2>12, <2>13, <2>14, <2>15 DEF Inv
<1>4. QED
  BY <1>2, <1>3 DEF Start1

(***************************************************************************)
(* The specification.                                                      *)
(***************************************************************************)
LEMMA InitInv == Init => TypeInv /\ Inv
<1> SUFFICES ASSUME Init PROVE TypeInv /\ Inv
  OBVIOUS
<1>1. /\ active = << >> /\ DOMAIN active = {} /\ call = NoCall /\ todo = {}
      /\ running = {} /\ joins = << >> /\ Len(joins) = 0
      /\ fault = "none" /\ phase = "up" /\ events = 0
      /\ starts \in 0 .. MaxScripts
  BY DEF Init, HostInit
<1>2. /\ interp = [L \in Sessions |-> "unused"]
      /\ roots = [L \in Sessions |-> {}]
      /\ home = [d \in Data |-> Null]
  BY DEF Init
<1>3. Outstanding = {}
  BY <1>1 DEF Outstanding
<1>4. TypeInv
  <2>1. events \in 0 .. MaxEvents
    BY <1>1, ExtensionHostAssumption
  <2>2. /\ interp \in [Sessions -> {"unused", "open", "closed"}]
        /\ roots \in [Sessions -> SUBSET Data]
        /\ home \in [Data -> Handle]
    BY <1>2 DEF Handle
  <2>3. TypeOK
    BY <1>1, <1>3, <2>1, <2>2 DEF TypeOK
  <2>4. active \in [DOMAIN active -> Extension]
    BY <1>1
  <2>5. joins \in Seq(Thread) /\ running \subseteq Thread
    BY <1>1
  <2>6. QED
    BY <2>3, <2>4, <2>5 DEF TypeInv
<1>5. ThreadsInv
  <2>1. \A n \in 1 .. Len(joins) : FALSE
    BY <1>1
  <2>2. QED
    BY <1>1, <1>3, <2>1, FS_EmptySet DEF ThreadsInv
<1>6. HeldInv /\ TodoInv
  BY <1>1, <1>2 DEF HeldInv, TodoInv
<1>7. Stops = {}
  BY <1>1 DEF Stops, NoCall
<1>8. OwnedInv
  BY <1>1, <1>2, <1>7 DEF OwnedInv
<1>9. CallInv
  BY <1>1 DEF CallInv, NoCall, Hooks
<1>10. QED
  BY <1>1, <1>4, <1>5, <1>6, <1>8, <1>9 DEF Inv

LEMMA StutterInv ==
  ASSUME TypeInv, Inv, UNCHANGED vars
  PROVE  TypeInv' /\ Inv'
<1>1. Kept /\ UNCHANGED <<call, todo, starts, phase, events>>
  BY DEF vars, hostVars, Kept
<1>2. TypeInv'
  BY <1>1 DEF TypeInv, TypeOK, Kept, Outstanding
<1>3. Stops' = Stops /\ \A i : Serving(i)' = Serving(i) /\ Pending(i)' = Pending(i)
  BY <1>1 DEF Stops, Serving, Pending, Kept
<1>4. \A i : Due(i)' = Due(i)
  BY <1>1 DEF Due, Awaited, Outstanding, Kept
<1>5. CallInv' /\ TodoInv'
  BY <1>1, <1>4 DEF Inv, CallInv, TodoInv, Kept, LiveExts
<1>6. QED
  BY <1>1, <1>2, <1>3, <1>5, Control DEF Inv

LEMMA NextInv ==
  ASSUME Ordinary, TypeInv, Inv, [Next]_vars
  PROVE  TypeInv' /\ Inv'
<1>1. CASE HostLoop /\ UNCHANGED luaVars
  BY <1>1, ParkStep, Start1Step, ThreadJoinStep, ExitStep, TimerFiresStep
     DEF HostLoop
<1>2. CASE HostInput /\ UNCHANGED luaVars
  BY <1>2, ReloadStep, QuitStep, OfferStep, CommandStep DEF HostInput
<1>3. CASE Threads /\ UNCHANGED luaVars
  BY <1>3, ThreadEndsStep DEF Threads
<1>4. CASE Callback
  BY <1>4, StartStep, EntryStep, ContinuationStep, SetTimerStep, SystemStep,
     CancelTimerStep, RaiseStep, ReturnStep DEF Callback
<1>5. CASE UNCHANGED vars
  BY <1>5, StutterInv
<1>6. QED
  BY <1>1, <1>2, <1>3, <1>4, <1>5 DEF Next

\* The inductive invariant.
THEOREM Invariant == ASSUME Ordinary PROVE Spec => [](TypeInv /\ Inv)
<1>1. TypeInv /\ Inv /\ [Next]_vars => TypeInv' /\ Inv'
  BY NextInv
<1>2. QED
  BY <1>1, InitInv, PTL DEF Spec

\* The extension table, the calls under way and the interpreters have their
\* types (Client.State.Extensions, glirc-lua.c).
THEOREM TypeCorrect == ASSUME Ordinary PROVE Spec => []TypeOK
<1>1. TypeInv /\ Inv => TypeOK
  BY DEF TypeInv
<1>2. QED
  BY <1>1, Invariant, PTL

\* However reloads, timers, commands and their ends interleave, no callback
\* is given a freed thread state or a closed interpreter, and no join looks up
\* an extension that is gone (clientThreadJoin, on_timer, finish_system).
THEOREM CallbacksStayAlive == ASSUME Ordinary PROVE Spec => []CallbackAlive
<1>1. TypeInv /\ Inv => CallbackAlive
  BY DEF Inv, CallbackAlive
<1>2. QED
  BY <1>1, Invariant, PTL

\* The client's timers and counted threads are exactly what the interpreter's
\* registry holds (glirc_set_timer, glirc_thread, free_thread_state).
THEOREM RegistrationsAreHeld ==
  ASSUME Ordinary PROVE Spec => []RegistrationsHeld
<1>1. TypeInv /\ Inv => RegistrationsHeld
  <2> SUFFICES ASSUME TypeInv, Inv PROVE RegistrationsHeld
    OBVIOUS
  <2>1. call.stage # "entered" => \A i : Pending(i) = {}
    BY DEF Pending
  <2>2. QED
    BY <2>1 DEF Inv, ThreadsInv, HeldInv, RegistrationsHeld
<1>2. QED
  BY <1>1, Invariant, PTL

\* No interpreter is left open without an extension, and none is closed while
\* an extension is served by it (start1, stop, clientStopExtensions).
THEOREM InterpretersAreOwned ==
  ASSUME Ordinary PROVE Spec => []InterpretersOwned
<1>1. TypeInv /\ Inv => InterpretersOwned
  <2> SUFFICES ASSUME TypeInv, Inv, NEW L \in Sessions
                 PROVE  interp[L] = "open" <=>
                          \/ \E i \in DOMAIN active : Serving(i) = L
                          \/ call.session = L
                          \/ \E c \in todo : c.kind = "stop" /\ c.session = L
    BY DEF InterpretersOwned
  <2>1. interp[L] = "open" <=> \/ \E i \in DOMAIN active : Serving(i) = L
                               \/ \E c \in Stops : c.session = L
    BY DEF Inv, OwnedInv
  <2>2. ASSUME call.session = L
        PROVE  \/ \E i \in DOMAIN active : Serving(i) = L
               \/ \E c \in Stops : c.session = L
    <3>1. call # NoCall
      BY <2>2, ExtensionHostAssumption DEF NoCall
    <3>2. CASE call.kind = "stop"
      BY <2>2, <3>2 DEF Stops
    <3>3. CASE call.kind \in {"start"} \cup Hooks \cup Continuations
      <4>1. call.ext \in LiveExts /\ Serving(call.ext) = call.session
        BY <3>3 DEF Inv, CallInv, Serving, Hooks, Continuations
      <4>2. QED
        BY <2>2, <4>1 DEF LiveExts
    <3>4. QED
      BY <3>1, <3>2, <3>3 DEF Inv, CallInv, Kinds, Hooks, Continuations
  <2>3. (\E c \in Stops : c.session = L) =>
          \/ call.session = L
          \/ \E c \in todo : c.kind = "stop" /\ c.session = L
    BY DEF Stops
  <2>4. (\E c \in todo : c.kind = "stop" /\ c.session = L) =>
          \E c \in Stops : c.session = L
    BY DEF Stops
  <2>5. QED
    BY <2>1, <2>2, <2>3, <2>4
<1>2. QED
  BY <1>1, Invariant, PTL
=============================================================================
