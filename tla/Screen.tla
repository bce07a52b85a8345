------------------------------- MODULE Screen -------------------------------
(***************************************************************************)
(* The event loop around the windows.  The user's keys and commands are    *)
(* one event each and the loop redraws after it (eventLoop, doVtyEvent).   *)
(* What comes from the networks, timers and threads, and what scripts do   *)
(* in their callbacks, comes in batches of any length before a redraw      *)
(* (NetworkEvents, clientExtTimer, clientThreadJoin, chat and message      *)
(* hooks, /extension).                                                     *)
(***************************************************************************)
EXTENDS LuaLibrary

CONSTANT MaxEvents  \* bound of the events

ASSUME ScreenAssumption == MaxEvents \in Nat

VARIABLES
  client,  \* the client's state, see Windows
  phase,   \* "idle" at getEvent, "batch" inside one, "crashed"
  events   \* history: how many events there were

vars == <<client, phase, events>>

\* Views of the splits: /splits takes places, /splits+ the current view.
Views == {View(p, m) : p \in Places, m \in BOOLEAN}

\* withClientState, then addInitialNetworks for the networks of S, n first.
Start(S, p) ==
  [windows |-> [q \in {} |-> EmptyWindow(0)],
   focus |-> p, messages |-> TRUE, prev |-> << >>, extra |-> {},
   return |-> {}, looking |-> TRUE, online |-> S, joined |-> {}]

Init ==
  /\ phase = "idle" /\ events = 0
  /\ \/ client = Start({}, << >>)
     \/ \E S \in SUBSET Each(Networks) : \E n \in S : client = Start(S, <<n>>)

Lines(st) ==
  UNION {{<<p, n>> : n \in DOMAIN st.windows[p].lines} : p \in DOMAIN st.windows}

\* The event that leads to st: one without effect is a stuttering step.
Event(st) ==
  /\ st # client
  /\ events' = events + 1
  /\ Cardinality(Lines(st)) =< MaxLines
  /\ Cardinality(st.extra) =< MaxSplits
  /\ client' = st

(***************************************************************************)
(* One event of the terminal, and the redraw after it.                     *)
(***************************************************************************)
Handle(st) ==
  /\ phase = "idle"
  /\ Event(Redraw(st))
  /\ UNCHANGED phase

\* M-a
JumpKey == Handle(PressJump(client))

\* The other keys; "edit" is a key that only touches the line being edited.
Key ==
  \/ \E n \in 1 .. Names : Handle(PressOther(JumpFocus(client, n)))
  \/ Handle(PressOther(ReturnFocus(client)))
  \/ Handle(PressOther(AdvanceFocus(client)))
  \/ Handle(PressOther(RetreatFocus(client)))
  \/ Handle(PressOther(AdvanceNetworkFocus(client)))
  \/ Handle(PressOther([client EXCEPT !.messages = TRUE]))
  \/ Handle(PressOther(client))

\* A command given by Enter does not end the chain of M-a, one bound to a
\* key does.
Command(st) ==
  \E out \in {st, PressOther(st)} : Handle(out)

FocusCommand == \E p \in Places : Command(ChangeFocus(client, p))

\* /windows, /mentions, ... : another view of the focus
SubfocusCommand == Command([client EXCEPT !.messages = FALSE])

\* /splits, /splits+ and /splits- with the places P, none or one
Splits(P) ==
  LET args == {View(p, TRUE) : p \in P}
      given == IF P = {} THEN {Current(client)} ELSE args
  IN {args, client.extra \cup given, client.extra \ given}

SplitsCommand ==
  \E new \in UNION {Splits(P) : P \in {{}} \cup {{p} : p \in Places}} :
    /\ Cardinality(new) =< MaxSplits
    /\ Command(SetExtraFocus(client, new))

ClearCommand == \E p \in Places : Command(ClearFocus(client, client.prev, p))

ClearNetworkCommand ==
  \E n \in Each(Networks) : Command(ClearNetwork(client, n))

SetNameCommand == \E n \in 0 .. Names : Command(SetWindowName(client, n))

SetWindowCommand ==
  \/ Command(Over(client, client.focus, Show))
  \/ Command(Over(client, client.focus, Hide))
  \/ \E f \in Filters :
       LET Choose(w) == [w EXCEPT !.filter = f]
       IN Command(Over(client, client.focus, Choose))

\* What the user says goes to the focused chat window.
SayCommand ==
  /\ Len(client.focus) = 2 /\ client.focus[1] \in client.online
  /\ \E imp \in {Normal, Important} :
       Command(RecordWindowLine(client, TRUE, client.focus, imp))

\* EvLostFocus and EvGainedFocus
UiFocus == \E b \in BOOLEAN : Handle([client EXCEPT !.looking = b])

User ==
  \/ JumpKey \/ Key \/ FocusCommand \/ SubfocusCommand \/ SplitsCommand
  \/ ClearCommand \/ ClearNetworkCommand \/ SetNameCommand
  \/ SetWindowCommand \/ SayCommand \/ UiFocus

(***************************************************************************)
(* Events of the networks and of scripts, before the next redraw.          *)
(***************************************************************************)
Happen(st) ==
  /\ phase \in {"idle", "batch"}
  /\ Event(st)
  /\ phase' = "batch"

\* TargetWindow and TargetExisting
ChatLine ==
  \E n \in client.online, t \in Each(Targets), imp \in Importance,
     create \in BOOLEAN :
    Happen(RecordWindowLine(client, create, <<n, t>>, imp))

\* TargetNetwork, and the messages about a connection
NetworkLine ==
  \E n \in Each(Networks), imp \in Importance :
    Happen(RecordWindowLine(client, TRUE, <<n>>, imp))

\* TargetUser
UserLine ==
  \E n \in client.online, u \in Each(Targets) \ Channels,
     S \in SUBSET Channels :
    /\ \A c \in S : <<n, c>> \in client.joined
    /\ Happen(RecordUserMessage(client, n, u, S))

NickLine ==
  \E n \in client.online, old, new \in Each(Targets) \ Channels :
    Happen(ApplyWindowRenames(client, n, old, new))

\* clientResponse to ERR_LINKCHANNEL: changeFocus is not called.
Forwarded(st, n, src, dst) ==
  IF st.focus = <<n, src>> THEN [st EXCEPT !.focus = <<n, dst>>] ELSE st

\* The reply is recorded like any other, unless a message hook hides it.  The
\* client takes the two names for channels whatever they are.
ForwardLine ==
  \E n \in client.online, src, dst \in Each(Targets), imp \in Importance :
    \E st \in {client, RecordWindowLine(client, TRUE, <<n>>, imp)} :
      Happen(Forwarded(st, n, src, dst))

\* A change of the network table touches no window and is not counted.
Table(online, joined) ==
  /\ phase \in {"idle", "batch"}
  /\ client' = [client EXCEPT !.online = online, !.joined = joined]
  /\ phase' = "batch"
  /\ UNCHANGED events

\* addConnection and removeNetwork
ConnectionChange ==
  \E n \in Each(Networks) :
    \/ /\ n \notin client.online
       /\ Table(client.online \cup {n}, client.joined)
    \/ /\ n \in client.online
       /\ Table(client.online \ {n}, {p \in client.joined : p[1] # n})

ChannelChange ==
  \E n \in client.online, c \in Channels :
    LET p == <<n, c>>
    IN Table(client.online, IF p \in client.joined THEN client.joined \ {p}
                            ELSE client.joined \cup {p})

Network ==
  \/ ChatLine \/ NetworkLine \/ UserLine \/ NickLine \/ ForwardLine
  \/ ConnectionChange \/ ChannelChange

\* A call of the library by a script, at any point of a batch.  The window
\* that a chat to the empty target opens is left out.
Call(result) == ~result.raised /\ Happen(result.client)

Script ==
  \/ \E p \in Places :
       LET names == LuaNames(p)
       IN \/ Call(LuaMarkSeen(client, names[1], names[2]))
          \/ Call(LuaClearWindow(client, names[1], names[2]))
          \/ Call(LuaSetFocus(client, names[1], names[2]))
  \/ Call(LuaPrint(client, NoText))
  \/ \E net \in client.online, tgt \in Each(Targets),
        imp \in {Normal, Important} :
       Call(LuaInjectChat(client, net, tgt, imp))

\* recordChannelMessage looks the network up with ^?! in a state that is
\* only computed after glirc_inject_chat has answered 0.
InjectElsewhere ==
  /\ phase \in {"idle", "batch"}
  /\ {a \in NetworkArgs : Injects(a, NoText)} \ client.online # {}
  /\ phase' = "crashed"
  /\ client' = Start({}, << >>)
  /\ UNCHANGED events

EndOfBatch ==
  /\ phase = "batch"
  /\ phase' = "idle"
  /\ client' = Redraw(client)
  /\ UNCHANGED events

Next ==
  \/ events < MaxEvents /\ (User \/ Network \/ Script)
  \/ InjectElsewhere
  \/ EndOfBatch

Spec == Init /\ [][Next]_vars

(***************************************************************************)
(* Properties.                                                             *)
(***************************************************************************)

\* A script's mistake is its own: glirc_inject_chat answers a failure with 1
\* (Exports.hs:258) and Lua raises 'client failure' (glirc-lib.c:65).  The code
\* refutes it with InjectElsewhere; no run checks it.
Alive == phase # "crashed"

WindowOK(w) ==
  /\ w.lines \in Seq([imp : Importance, known : BOOLEAN])
  /\ \A m \in w.marker : m \in 0 .. Len(w.lines)
  /\ Cardinality(w.marker) =< 1
  /\ w.unread \in 0 .. Len(w.lines)
  /\ w.mention \in Importance
  /\ w.name \in 0 .. Names
  /\ w.hidden \in BOOLEAN
  /\ w.filter \in AllFilters

\* Every field has its type, the marker lies inside the window, and no two
\* windows answer to one letter, whatever /setname, /setwindow, renames and
\* new windows did (State.hs:598, Window.hs:252).
WindowsSound ==
  /\ phase \in {"idle", "batch", "crashed"} /\ events \in 0 .. MaxEvents
  /\ DOMAIN client.windows \subseteq Places
  /\ \A p \in DOMAIN client.windows : WindowOK(client.windows[p])
  /\ {client.focus, client.prev} \cup client.return \subseteq Places
  /\ Cardinality(client.return) =< 1
  /\ client.extra \subseteq Views
  /\ client.messages \in BOOLEAN /\ client.looking \in BOOLEAN
  /\ client.online \subseteq Each(Networks)
  /\ client.joined \subseteq {<<n, c>> : n \in client.online, c \in Channels}
  /\ \A p, q \in DOMAIN client.windows :
       p # q /\ client.windows[p].name = client.windows[q].name
         => client.windows[p].name = 0

\* The activity a window announces is that of the lines its user has not had
\* on the screen: the count is their number, the mention their highest
\* importance.  No jump of the focus, split, rename, lost terminal focus or
\* script makes activity vanish unseen or linger (State.hs:695, 703).
Unknown(w) ==
  {n \in DOMAIN w.lines : w.lines[n].imp > Boring /\ ~w.lines[n].known}

ActivityShown ==
  \A p \in DOMAIN client.windows :
    LET w == client.windows[p]
    IN /\ w.unread = Cardinality(Unknown(w))
       /\ w.mention = Max({w.lines[n].imp : n \in Unknown(w)} \cup {Boring})

\* A chain of M-a visits every window with activity, hidden ones too, and
\* its next press leads back to where it began (State.hs:1042,
\* EventLoop.hs:436).
Presses[n \in Nat] ==
  IF n = 0 THEN client ELSE Redraw(PressJump(Presses[n - 1]))

Active(st) == {p \in DOMAIN st.windows : st.windows[p].unread > 0}

JumpReturns ==
  phase = "idle" /\ client.looking =>
    LET last == Presses[Cardinality(Active(client)) + 1]
        home == IF client.return = {} THEN {client.focus} ELSE client.return
    IN {last.focus} = home /\ Active(last) = {}

\* What comes from a network adds lines on top and loses none, renamed
\* windows included, and the user stays in the window he was reading
\* (State.hs:991).  Only a channel that forwards its reader moves him, from its
\* own window to that of the other channel (EventLoop/Network.hs:53).
Extends(new, old) ==
  LET k == Len(new.lines) - Len(old.lines)
  IN /\ k >= 0
     /\ \A n \in DOMAIN old.lines : new.lines[n + k].imp = old.lines[n].imp

Kept(old, new) ==
  \A p \in DOMAIN old.windows :
    \E q \in DOMAIN new.windows :
      /\ Extends(new.windows[q], old.windows[p])
      /\ p = old.focus => q = new.focus

Moved(old, new) ==
  /\ Len(old.focus) = 2 /\ Len(new.focus) = 2
  /\ new.focus[1] = old.focus[1]
  /\ Kept(old, [new EXCEPT !.focus = old.focus])

ViewKept ==
  [][phase' = "batch" => \/ Kept(client, client')
                         \/ ForwardLine /\ Moved(client, client')
                         \/ ~Network]_vars

\* A script that looks elsewhere with set_focus and gives what current_focus
\* had told it back to set_focus leaves the user where he was, whatever
\* strings stand for no network and no target (glirc-lib.c:400, 425).
FocusRestored ==
  phase = "batch" =>
  \A p \in Places :
    LET saved == LuaCurrentFocus(client)
        away == LuaSetFocus(client, LuaNames(p)[1], LuaNames(p)[2])
        back == LuaSetFocus(away.client, saved[1], saved[2])
    IN /\ ~back.raised
       /\ back.client.focus = client.focus
=============================================================================
