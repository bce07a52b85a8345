------------------------------ MODULE Windows -------------------------------
(***************************************************************************)
(* The client's windows and its focus: Client.State.Window, the parts of   *)
(* Client.State on windows and focus, and the commands and keys that reach *)
(* them.  The operators take and give the client's state, like the         *)
(* functions they stand for.                                               *)
(*                                                                         *)
(* A place (Focus) is << >> for the client's window *, <<network>> or      *)
(* <<network, target>>.  A window holds its lines newest first, each with  *)
(* its importance after the window's filter and, as history, whether the   *)
(* user had it on the screen or dismissed it ("known").  [] of one thing   *)
(* or none is a set.  Rendering, scrolling, filters of the view (/grep,    *)
(* metadata) and window-hints are left out: a window on the screen shows   *)
(* its lines.                                                              *)
(***************************************************************************)
EXTENDS Integers, Sequences, SequencesExt

CONSTANTS
  Networks,  \* names of networks, a sequence in their order
  Targets,   \* channels and nicknames, a sequence in their order
  Channels,  \* those targets that are channels
  Names,     \* configWindowNames: the letters 1 .. Names
  Filters,   \* activity filters /setwindow is given
  MaxLines,  \* bound of the lines in all windows
  MaxSplits  \* bound of the extra windows on the screen

Each(s) == {s[n] : n \in DOMAIN s}
AllFilters == {"silent", "quieter", "quiet", "imponly", "loud", "louder"}

ASSUME WindowsAssumption ==
  /\ Networks \in Seq(Each(Networks)) /\ Targets \in Seq(Each(Targets))
  /\ \A i, j \in DOMAIN Networks : Networks[i] = Networks[j] => i = j
  /\ \A i, j \in DOMAIN Targets : Targets[i] = Targets[j] => i = j
  /\ Channels \subseteq Each(Targets) /\ Filters \subseteq AllFilters
  /\ Names \in Nat /\ MaxLines \in Nat /\ MaxSplits \in Nat

Places ==
  {<< >>} \cup {<<n>> : n \in Each(Networks)}
          \cup {<<n, t>> : n \in Each(Networks), t \in Each(Targets)}

\* Where a name stands in its order; what is missing comes first.
Rank(s, p, n) ==
  IF Len(p) < n THEN 0 ELSE CHOOSE i \in DOMAIN s : s[i] = p[n]

\* instance Ord Focus
Precedes(p, q) ==
  \/ Rank(Networks, p, 1) < Rank(Networks, q, 1)
  \/ /\ Rank(Networks, p, 1) = Rank(Networks, q, 1)
     /\ Rank(Targets, p, 2) < Rank(Targets, q, 2)

Earliest(S) == CHOOSE p \in S : \A q \in S \ {p} : Precedes(p, q)
Latest(S)  == CHOOSE p \in S : \A q \in S \ {p} : Precedes(q, p)

(***************************************************************************)
(* One window.                                                             *)
(***************************************************************************)
Boring == 0
Normal == 1
Important == 2
Importance == Boring .. Important

\* applyActivityFilter
Filtered(f, imp) ==
  CASE f = "silent" -> Boring
    [] f = "quieter" /\ imp = Normal -> Boring
    [] f = "quieter" /\ imp = Important -> Normal
    [] f = "imponly" /\ imp = Normal -> Boring
    [] f = "quiet" /\ imp = Important -> Normal
    [] f = "louder" /\ imp = Normal -> Important
    [] OTHER -> imp

AddToWindow(w, imp) ==
  LET i == Filtered(w.filter, imp)
  IN [w EXCEPT !.lines   = <<[imp |-> i, known |-> FALSE]>> \o @,
               !.marker  = {m + 1 : m \in @},
               !.unread  = IF i = Boring THEN @ ELSE @ + 1,
               !.mention = IF i > @ THEN i ELSE @]

WindowSeen(w) == [w EXCEPT !.unread = 0, !.mention = Boring]
WindowActivate(w) == IF w.unread = 0 THEN [w EXCEPT !.marker = {}] ELSE w
WindowDeactivate(w) == [w EXCEPT !.marker = {0}]
WindowClear(w) ==
  [w EXCEPT !.lines = << >>, !.marker = {}, !.unread = 0, !.mention = Boring]

\* History: the user knows the lines of w.
Known(w) ==
  [w EXCEPT !.lines = [n \in DOMAIN @ |-> [@[n] EXCEPT !.known = TRUE]]]

(***************************************************************************)
(* The client's windows.                                                   *)
(***************************************************************************)

\* over (clientWindows . ix p)
Over(st, p, Op(_)) ==
  IF p \in DOMAIN st.windows THEN [st EXCEPT !.windows[p] = Op(@)] ELSE st

OverAll(st, S, Op(_)) ==
  [st EXCEPT !.windows = [p \in DOMAIN @ |-> IF p \in S THEN Op(@[p]) ELSE @[p]]]

SetWindow(st, p, w) ==
  [st EXCEPT !.windows =
     [q \in DOMAIN @ \cup {p} |-> IF q = p THEN w ELSE @[q]]]

DropWindow(st, p) ==
  [st EXCEPT !.windows = [q \in DOMAIN @ \ {p} |-> @[q]]]

UsedNames(st) == {st.windows[p].name : p \in DOMAIN st.windows}

\* clientNextWindowName: the first letter that is free, 0 when none is.
NextWindowName(st) ==
  LET free == (1 .. Names) \ UsedNames(st)
  IN IF free = {} THEN 0 ELSE CHOOSE n \in free : \A m \in free : n =< m

EmptyWindow(name) ==
  [lines |-> << >>, marker |-> {}, unread |-> 0, mention |-> Boring,
   name |-> name, hidden |-> FALSE, filter |-> "loud"]

\* recordWindowLine'
RecordWindowLine(st, create, p, imp) ==
  IF p \in DOMAIN st.windows
    THEN SetWindow(st, p, AddToWindow(st.windows[p], imp))
  ELSE IF create
    THEN SetWindow(st, p, AddToWindow(EmptyWindow(NextWindowName(st)), imp))
  ELSE st

\* recordUserMessage, for a user present in the channels of S.
RecordUserMessage(st, n, user, S) ==
  LET Add(w) == AddToWindow(w, Boring)
  IN OverAll(st, {<<n, t>> : t \in S \cup {user}}, Add)

\* Mutant of ApplyWindowRenames: an open window of that nick is replaced.
ApplyWindowRenamesOver(st, n, old, new) ==
  LET from == <<n, old>>
      to == <<n, new>>
      moved == DropWindow(SetWindow(st, to, st.windows[from]), from)
  IN IF from \in DOMAIN st.windows
     THEN [moved EXCEPT !.focus = IF @ = from THEN to ELSE @]
     ELSE st

\* applyWindowRenames
ApplyWindowRenames(st, n, old, new) ==
  LET from == <<n, old>>
      to == <<n, new>>
      moved == DropWindow(SetWindow(st, to, st.windows[from]), from)
  IN IF from \in DOMAIN st.windows /\ to \notin DOMAIN st.windows
     THEN [moved EXCEPT !.focus = IF @ = from THEN to ELSE @]
     ELSE st

(***************************************************************************)
(* Focus.  An extra window, like the main one, shows messages or another   *)
(* view of its place.                                                      *)
(***************************************************************************)
View(p, messages) == [place |-> p, messages |-> messages]
MessagePart(S) == {v.place : v \in {u \in S : u.messages}}
Current(st) == View(st.focus, st.messages)

\* changeFocus
ChangeFocus(st, p) ==
  LET old == st.focus
      moved == [st EXCEPT !.focus = p, !.messages = TRUE,
                          !.prev = IF p = old THEN @ ELSE old]
      left == IF old = p \/ View(old, TRUE) \in st.extra THEN moved
              ELSE Over(moved, old, WindowDeactivate)
  IN Over(left, p, WindowActivate)

\* setExtraFocus
SetExtraFocus(st, new) ==
  LET active == MessagePart(new) \ MessagePart({Current(st)} \cup st.extra)
      inactive == MessagePart(st.extra) \ MessagePart({Current(st)} \cup new)
  IN OverAll(OverAll([st EXCEPT !.extra = new], active, WindowActivate),
             inactive, WindowDeactivate)

ReturnFocus(st) == ChangeFocus(st, st.prev)

\* jumpToActivity
JumpToActivity(st) ==
  LET high == {p \in DOMAIN st.windows : st.windows[p].mention = Important}
      low == {p \in DOMAIN st.windows : st.windows[p].unread > 0}
  IN CASE high # {} -> ChangeFocus(st, Earliest(high))
       [] high = {} /\ low # {} -> ChangeFocus(st, Earliest(low))
       [] high \cup low = {} /\ st.return # {} ->
            ChangeFocus(st, Earliest(st.return))
       [] OTHER -> st

\* jumpFocus
JumpFocus(st, name) ==
  LET named == {p \in DOMAIN st.windows : st.windows[p].name = name}
  IN IF named = {} THEN st ELSE ChangeFocus(st, Earliest(named))

\* stepFocus: the windows /setwindow hide did not take out of the rotation.
Rotation(st) == {p \in DOMAIN st.windows : ~st.windows[p].hidden} \ {st.focus}
After(st) == {p \in Rotation(st) : Precedes(st.focus, p)}
Before(st) == Rotation(st) \ After(st)

AdvanceFocus(st) ==
  IF Rotation(st) = {} THEN st
  ELSE ChangeFocus(st, Earliest(IF After(st) # {} THEN After(st) ELSE Before(st)))

RetreatFocus(st) ==
  IF Rotation(st) = {} THEN st
  ELSE ChangeFocus(st, Latest(IF Before(st) # {} THEN Before(st) ELSE After(st)))

AdvanceNetworkFocus(st) ==
  LET Of(S) == {p \in S : Len(p) = 1}
  IN IF Of(Rotation(st)) = {} THEN st
     ELSE ChangeFocus(st, Earliest(IF Of(After(st)) # {} THEN Of(After(st))
                                ELSE Of(Before(st))))

(***************************************************************************)
(* Redraw: clientTick, then the picture.                                   *)
(***************************************************************************)
Shown(st) == MessagePart({Current(st)} \cup st.extra)

\* Mutant of MarkSeen: the split windows are forgotten.
MarkSeenFocus(st) == Over(st, st.focus, WindowSeen)

\* markSeen
MarkSeen(st) == OverAll(st, MessagePart({Current(st)} \cup st.extra), WindowSeen)

\* The loop's redraw; history: what is on the screen of a user who looks.
Redraw(st) ==
  IF st.looking THEN OverAll(MarkSeen(st), Shown(st), Known) ELSE st

(***************************************************************************)
(* Keys: what they do to the chain of M-a ("continue" of doAction).        *)
(***************************************************************************)

\* Mutant of PressJump: every M-a starts the chain anew.
PressJumpRestarts(st) == [JumpToActivity(st) EXCEPT !.return = {st.focus}]

PressJump(st) ==
  [JumpToActivity(st) EXCEPT !.return = IF @ = {} THEN {st.focus} ELSE @]

PressOther(out) == [out EXCEPT !.return = {}]

(***************************************************************************)
(* Commands.                                                               *)
(***************************************************************************)

\* Is the window kept by /clear?
IsActive(st, p) ==
  CASE Len(p) = 0 -> FALSE
    [] Len(p) = 1 -> p[1] \in st.online
    [] OTHER -> p \in st.joined

\* clearFocus1, with the previous focus of when the command was given.
ClearFocus(st, prev, p) ==
  LET cleared == IF IsActive(st, p) THEN Over(st, p, WindowClear)
                 ELSE DropWindow(st, p)
  IN CASE IsActive(st, p) \/ st.focus # p -> cleared
       [] ~IsActive(st, p) /\ st.focus = p /\ prev \in DOMAIN st.windows ->
            ChangeFocus(cleared, prev)
       [] OTHER -> AdvanceFocus(cleared)

\* /clear network *
ClearNetwork(st, n) ==
  LET windows == {p \in DOMAIN st.windows : Len(p) > 0 /\ p[1] = n}
      keys == SetToSortSeq(windows, Precedes)
      cleared[k \in 0 .. Cardinality(windows)] ==
        IF k = 0 THEN st ELSE ClearFocus(cleared[k - 1], st.prev, keys[k])
  IN cleared[Cardinality(windows)]

\* Mutant of SetWindowName: the letter's former window keeps it.
SetWindowNameTwice(st, arg) ==
  LET name == IF arg = 0 THEN NextWindowName(st) ELSE arg
      Give(w) == [w EXCEPT !.name = name]
  IN IF name = 0 THEN st ELSE Over(st, st.focus, Give)

\* cmdSetWindowName; 0 is no letter, a failing command changes nothing.
SetWindowName(st, arg) ==
  LET name == IF arg = 0 THEN NextWindowName(st) ELSE arg
      Unset(w) == IF w.name = name THEN [w EXCEPT !.name = 0] ELSE w
      Give(w) == [w EXCEPT !.name = name]
  IN IF name = 0 \/ st.focus \notin DOMAIN st.windows THEN st
     ELSE Over(OverAll(st, Places, Unset), st.focus, Give)

\* cmdSetWindow
Show(w) == [w EXCEPT !.hidden = FALSE]
Hide(w) == [w EXCEPT !.hidden = TRUE, !.name = 0]
=============================================================================
