----------------------------- MODULE LuaLibrary -----------------------------
(***************************************************************************)
(* The functions of the glirc Lua module that read and change windows and  *)
(* focus: their arguments as the library checks them (glirc-lib.c) and     *)
(* what the entry points behind them do to the client's state              *)
(* (Client.CApi.Exports).  A call gives [raised, client]: a call that      *)
(* raises a Lua error leaves the client's state alone.                     *)
(*                                                                         *)
(* An argument is a string ("" among them), nil (or none), or a value that *)
(* is no string.  Lua's own numbers-as-strings are left out, and so are    *)
(* surplus arguments, which every function refuses.                        *)
(***************************************************************************)
EXTENDS Windows

\* The empty text, and what stands for nil and for a value that is no string.
NoText == ""
LuaNil == "nil"
LuaTable == "table"

\* They are no names.  A configuration could name a network "", which
\* glirc_set_focus reads as none (Exports.hs:649): that name is left out.
ASSUME NamesAssumption ==
  (Each(Networks) \cup Each(Targets)) \cap {NoText, LuaNil, LuaTable} = {}

NetworkArgs == Each(Networks) \cup {NoText, LuaNil, LuaTable}

Raise(st) == [raised |-> TRUE, client |-> st]
Done(st) == [raised |-> FALSE, client |-> st]

\* luaL_checklstring and luaL_optlstring: may the argument stay?
CheckString(a) == a \notin {LuaNil, LuaTable}
OptString(a) == a # LuaTable

\* The text the entry point reads: NULL with length 0 is the empty text.
Text(a) == IF a = LuaNil THEN NoText ELSE a

\* The place that a network and a target name.
PlaceNamed(net, tgt) ==
  CASE Text(net) = NoText -> << >>
    [] Text(net) # NoText /\ Text(tgt) = NoText -> <<Text(net)>>
    [] OTHER -> <<Text(net), Text(tgt)>>

\* glirc.mark_seen
LuaMarkSeen(st, net, tgt) ==
  LET p == PlaceNamed(net, tgt)
  IN IF OptString(net) /\ OptString(tgt)
     THEN Done(Over(Over(st, p, WindowSeen), p, Known))
     ELSE Raise(st)

\* glirc.clear_window
LuaClearWindow(st, net, tgt) ==
  IF OptString(net) /\ OptString(tgt)
  THEN Done(Over(st, PlaceNamed(net, tgt), WindowClear))
  ELSE Raise(st)

\* The strings of a place: what is missing is empty, not nil.
LuaNames(p) ==
  <<IF Len(p) < 1 THEN NoText ELSE p[1], IF Len(p) < 2 THEN NoText ELSE p[2]>>

\* glirc.current_focus
LuaCurrentFocus(st) == LuaNames(st.focus)

\* Mutant of LuaSetFocus: an empty target is not the same as none.
LuaSetFocusEmpty(st, net, tgt) ==
  IF OptString(net) /\ OptString(tgt) /\ (Text(net) # NoText \/ tgt = LuaNil)
  THEN Done(ChangeFocus(st, PlaceNamed(net, tgt)))
  ELSE Raise(st)

\* glirc.set_focus
LuaSetFocus(st, net, tgt) ==
  IF OptString(net) /\ OptString(tgt) /\ (Text(net) # NoText \/ Text(tgt) = NoText)
  THEN Done(ChangeFocus(st, PlaceNamed(net, tgt)))
  ELSE Raise(st)

\* glirc.print and glirc.error
LuaPrint(st, text) ==
  IF CheckString(text)
  THEN Done(RecordWindowLine(st, TRUE, << >>, Important))
  ELSE Raise(st)

\* The arguments glirc.inject_chat lets through.
Injects(net, tgt) == CheckString(net) /\ CheckString(tgt)

\* glirc.inject_chat, for a network in the client's table: recordChannelMessage.
LuaInjectChat(st, net, tgt, imp) ==
  IF Injects(net, tgt)
  THEN Done(RecordWindowLine(st, TRUE, <<net, tgt>>, imp))
  ELSE Raise(st)
=============================================================================
