---------------------------- MODULE SessionProofs ----------------------------
(***************************************************************************)
(* Theorems about Session: once every message is read the client's view is *)
(* the server's, and no queued moderation is forgotten.                    *)
(***************************************************************************)
EXTENDS Session, FiniteSetTheorems, SequenceTheorems, TLAPS

(***************************************************************************)
(* Messages and commands under way.                                        *)
(***************************************************************************)
Sigils == {"-", "", "@"}

Msgs ==
  [type : {"account"}, n : Nicks, a : Accounts]
    \cup [type : {"join"}, c : Channels, n : Nicks, a : Accounts]
    \cup [type : {"leave"}, c : Channels, n : Nicks]
    \cup [type : {"quit"}, n : Nicks]
    \cup [type : {"nick"}, n : Nicks, new : Nicks]
    \cup [type : {"op", "namreply"}, c : Channels, n : Nicks, sigil : {"", "@"}]
    \cup [type : {"endofnames", "endofbanlist", "channelmodeis"}, c : Channels]
    \cup [type : {"ban"}, c : Channels, polarity : {"+", "-"}]
    \cup [type : {"whoreply"}, n : Nicks]
    \cup [type : {"endofwho", "banlist"}]

Cmds ==
  [type : Moderations, c : Channels, n : Nicks]
    \cup [type : Queries \cup {"mode", "op"}, c : Channels]

(***************************************************************************)
(* What the client knows, as a value, and how it reads a message.          *)
(***************************************************************************)
Knowing(nick, chans, users, bans, accounts, transaction) ==
  [nick |-> nick, chans |-> chans, users |-> users, bans |-> bans,
   accounts |-> accounts, transaction |-> transaction]

View ==
  Knowing(csNick, csChannels, chanUsers, chanBans, csUsers, csTransaction)

ViewOK(x) ==
  /\ x.nick \in Nicks
  /\ x.chans \subseteq Channels
  /\ x.users \in [Channels -> [Nicks -> Sigils]]
  /\ x.bans \in [Channels -> {"unloaded", "empty", "set"}]
  /\ x.accounts \in [Nicks -> Accounts \cup {"forgotten", "known"}]
  /\ x.transaction.kind \in {"none", "names", "who", "bans"}
  /\ x.transaction.kind = "names" =>
       x.transaction.items \subseteq Nicks \X {"", "@"}
  /\ \A c \in Channels \ x.chans : x.users[c] = Nobody /\ x.bans[c] = "unloaded"

ReadJoin(x, m) ==
  LET mine == m.n = x.nick
      chans == IF mine THEN x.chans \cup {m.c} ELSE x.chans
  IN Knowing(x.nick, chans,
       IF m.c \in chans
         THEN [x.users EXCEPT ![m.c] =
                 [(IF mine THEN Nobody ELSE @) EXCEPT ![m.n] = ""]]
         ELSE x.users,
       IF mine THEN [x.bans EXCEPT ![m.c] = "unloaded"] ELSE x.bans,
       [x.accounts EXCEPT ![m.n] = m.a], x.transaction)

Left(x, m) ==
  [x.users EXCEPT ![m.c] = IF m.n = x.nick THEN Nobody ELSE [@ EXCEPT ![m.n] = "-"]]

ReadLeave(x, m) ==
  LET mine == m.n = x.nick
  IN Knowing(x.nick, IF mine THEN x.chans \ {m.c} ELSE x.chans, Left(x, m),
       IF mine THEN [x.bans EXCEPT ![m.c] = "unloaded"] ELSE x.bans,
       [n \in Nicks |-> IF (mine \/ n = m.n) /\ ~Seen(n, Left(x, m))
                        THEN "forgotten" ELSE x.accounts[n]],
       x.transaction)

ReadQuit(x, m) ==
  Knowing(x.nick, x.chans, [c \in Channels |-> [x.users[c] EXCEPT ![m.n] = "-"]],
    x.bans, [x.accounts EXCEPT ![m.n] = "forgotten"], x.transaction)

ReadNick(x, m) ==
  Knowing(IF m.n = x.nick THEN m.new ELSE x.nick, x.chans,
    [c \in Channels |->
       [x.users[c] EXCEPT ![m.new] = x.users[c][m.n], ![m.n] = "-"]],
    x.bans,
    [x.accounts EXCEPT ![m.new] = x.accounts[m.n], ![m.n] = "forgotten"],
    x.transaction)

ReadAccount(x, m) ==
  Knowing(x.nick, x.chans, x.users, x.bans, [x.accounts EXCEPT ![m.n] = m.a],
    x.transaction)

ItemsOf(x, kind) ==
  IF x.transaction.kind = kind THEN x.transaction.items ELSE {}

ReadItem(x, kind, item) ==
  Knowing(x.nick, x.chans, x.users, x.bans, x.accounts,
    [kind |-> kind, items |-> ItemsOf(x, kind) \cup {item}])

Learned(x, nicks) ==
  [n \in Nicks |-> IF n \in nicks /\ x.accounts[n] = "forgotten"
                   THEN "known" ELSE x.accounts[n]]

Listed(entries) ==
  [n \in Nicks |-> CHOOSE s \in Sigils :
     IF \E e \in entries : e[1] = n THEN <<n, s>> \in entries ELSE s = "-"]

ReadEndOfNames(x, m) ==
  LET entries == ItemsOf(x, "names")
  IN Knowing(x.nick, x.chans,
       IF m.c \notin x.chans THEN x.users
       ELSE [x.users EXCEPT ![m.c] = Listed(entries)],
       x.bans, Learned(x, {e[1] : e \in entries}), Idle)

ReadEndOfWho(x) ==
  Knowing(x.nick, x.chans, x.users, x.bans,
    Learned(x, {n \in ItemsOf(x, "who") : Seen(n, x.users)}), Idle)

ReadEndOfBans(x, m) ==
  Knowing(x.nick, x.chans, x.users,
    IF m.c \notin x.chans THEN x.bans
    ELSE [x.bans EXCEPT ![m.c] =
            IF ItemsOf(x, "bans") = {} THEN "empty" ELSE "set"],
    x.accounts, Idle)

ReadOp(x, m) ==
  Knowing(x.nick, x.chans,
    IF x.users[m.c][m.n] = "-" THEN x.users
    ELSE [x.users EXCEPT ![m.c][m.n] = m.sigil],
    x.bans, x.accounts, x.transaction)

ReadBan(x, m) ==
  Knowing(x.nick, x.chans, x.users,
    [x.bans EXCEPT ![m.c] = ListMode(@, m.polarity)], x.accounts, x.transaction)

Read(x, m) ==
  CASE m.type = "join"          -> ReadJoin(x, m)
    [] m.type = "leave"         -> ReadLeave(x, m)
    [] m.type = "quit"          -> ReadQuit(x, m)
    [] m.type = "nick"          -> ReadNick(x, m)
    [] m.type = "account"       -> ReadAccount(x, m)
    [] m.type = "namreply"      -> ReadItem(x, "names", <<m.n, m.sigil>>)
    [] m.type = "whoreply"      -> ReadItem(x, "who", m.n)
    [] m.type = "banlist"       -> ReadItem(x, "bans", "mask")
    [] m.type = "endofnames"    -> ReadEndOfNames(x, m)
    [] m.type = "endofwho"      -> ReadEndOfWho(x)
    [] m.type = "endofbanlist"  -> ReadEndOfBans(x, m)
    [] m.type = "op"            -> ReadOp(x, m)
    [] m.type = "ban"           -> ReadBan(x, m)
    [] m.type = "channelmodeis" -> x

(***************************************************************************)
(* The invariant: reading what is under way takes the client's view, in    *)
(* steps v, to one that agrees with the server.                            *)
(***************************************************************************)
Reads(v, q) ==
  /\ \A k \in 0 .. Len(q) : ViewOK(v[k])
  /\ \A k \in 1 .. Len(q) : v[k] = Read(v[k - 1], q[k])

RosterAgrees(x) ==
  /\ x.nick = srvNick
  /\ x.chans = {c \in Channels : srvNick \in On(c)}
  /\ \A c \in x.chans : x.users[c] = members[c]

AccountsAgree(x) ==
  /\ \A n \in Nicks :
       x.accounts[n] \in {"forgotten", "known"}
         \/ (Seen(n, x.users) /\ x.accounts[n] = account[n])
  /\ "names" \notin Queries =>
       \A n \in Nicks : x.accounts[n] # "forgotten" <=> Seen(n, x.users)

BansAgree(x) ==
  \A c \in x.chans : x.bans[c] # "unloaded" => (x.bans[c] = "set" <=> c \in srvBans)

Agrees(x) ==
  RosterAgrees(x) /\ AccountsAgree(x) /\ BansAgree(x) /\ x.transaction = Idle

OpIn(x, c) == x.users[c][x.nick] = "@"

AsksModes(s, c) == \E i \in 1 .. Len(s) : s[i].type = "mode" /\ s[i].c = c
TellsModes(q, k, c) ==
  \E j \in k .. Len(q) : q[j].type = "channelmodeis" /\ q[j].c = c

\* Behind the k-th message of q there is something that ends the wait for op.
Awaits(v, q, s, k, c) ==
  \/ AsksModes(s, c)
  \/ TellsModes(q, k + 1, c)
  \/ \E j \in k .. Len(q) : c \notin v[j].chans

\* Op that no mode change tells of is NAMES of a JOIN, and the modes are asked.
Gains(v, q, s) ==
  \A c \in Channels, k \in 1 .. Len(q) :
    OpIn(v[k], c) /\ ~OpIn(v[k - 1], c) =>
      \/ q[k].type = "op" /\ q[k].c = c
      \/ \E j \in 0 .. k - 1 : c \notin v[j].chans
      \/ Awaits(v, q, s, k, c)

Held(v, q, s, queued) ==
  \A c \in Channels : queued[c] # << >> /\ OpIn(v[0], c) => Awaits(v, q, s, 0, c)

Runs(v) ==
  /\ v[0] = View
  /\ Reads(v, toClient)
  /\ Agrees(v[Len(toClient)])
  /\ Gains(v, toClient, toServer)
  /\ Held(v, toClient, toServer, chanQueued)

SrvInv ==
  /\ srvNick \in Nicks
  /\ account \in [Nicks -> Accounts \cup {"offline"}]
  /\ members \in [Channels -> [Nicks -> Sigils]]
  /\ srvNick \in Online
  /\ \A c \in Channels : On(c) \subseteq Online
  /\ IsFiniteSet(Online)

WireInv == toClient \in Seq(Msgs) /\ toServer \in Seq(Cmds)

QueueInv ==
  /\ chanQueued \in [Channels -> Seq([type : Moderations, c : Channels, n : Nicks])]
  /\ \A c \in Channels \ csChannels : chanQueued[c] = << >>

Inv == SrvInv /\ WireInv /\ QueueInv /\ \E v : Runs(v)

(***************************************************************************)
(* Fields of messages and commands.                                        *)
(***************************************************************************)

\* A message has the fields of its type.
LEMMA MsgFields ==
  ASSUME NEW m \in Msgs
  PROVE  /\ m.type = "account" => m.n \in Nicks /\ m.a \in Accounts
         /\ m.type = "join" => m.c \in Channels /\ m.n \in Nicks /\ m.a \in Accounts
         /\ m.type = "leave" => m.c \in Channels /\ m.n \in Nicks
         /\ m.type = "quit" => m.n \in Nicks
         /\ m.type = "nick" => m.n \in Nicks /\ m.new \in Nicks
         /\ m.type \in {"op", "namreply"} =>
              m.c \in Channels /\ m.n \in Nicks /\ m.sigil \in {"", "@"}
         /\ m.type \in {"endofnames", "endofbanlist", "channelmodeis"} =>
              m.c \in Channels
         /\ m.type = "ban" => m.c \in Channels /\ m.polarity \in {"+", "-"}
         /\ m.type = "whoreply" => m.n \in Nicks
         /\ m.type \in {"account", "join", "leave", "quit", "nick", "op", "namreply",
                        "endofnames", "endofbanlist", "channelmodeis", "ban",
                        "whoreply", "endofwho", "banlist"}
  BY DEF Msgs

\* A command has a channel, a moderation also a nickname.
LEMMA CmdFields ==
  ASSUME NEW m \in Cmds
  PROVE  /\ m.c \in Channels
         /\ m.type \in AllModerations => m.n \in Nicks
         /\ m.type \in AllQueries => m.type \in Queries
  BY SessionAssumption DEF Cmds, AllQueries, AllModerations, Polarity

\* Read by the type of the message.
LEMMA ReadCases ==
  ASSUME NEW x, NEW m
  PROVE  /\ m.type = "join" => Read(x, m) = ReadJoin(x, m)
         /\ m.type = "leave" => Read(x, m) = ReadLeave(x, m)
         /\ m.type = "quit" => Read(x, m) = ReadQuit(x, m)
         /\ m.type = "nick" => Read(x, m) = ReadNick(x, m)
         /\ m.type = "account" => Read(x, m) = ReadAccount(x, m)
         /\ m.type = "namreply" =>
              Read(x, m) = ReadItem(x, "names", <<m.n, m.sigil>>)
         /\ m.type = "whoreply" => Read(x, m) = ReadItem(x, "who", m.n)
         /\ m.type = "banlist" => Read(x, m) = ReadItem(x, "bans", "mask")
         /\ m.type = "endofnames" => Read(x, m) = ReadEndOfNames(x, m)
         /\ m.type = "endofwho" => Read(x, m) = ReadEndOfWho(x)
         /\ m.type = "endofbanlist" => Read(x, m) = ReadEndOfBans(x, m)
         /\ m.type = "op" => Read(x, m) = ReadOp(x, m)
         /\ m.type = "ban" => Read(x, m) = ReadBan(x, m)
         /\ m.type = "channelmodeis" => Read(x, m) = x
  BY DEF Read

\* A function with one value replaced is of the same type.
LEMMA Update ==
  ASSUME NEW S, NEW T, NEW f \in [S -> T], NEW s \in S, NEW t \in T
  PROVE  /\ [f EXCEPT ![s] = t] \in [S -> T]
         /\ [f EXCEPT ![s] = t][s] = t
         /\ \A r \in S : r # s => [f EXCEPT ![s] = t][r] = f[r]
  OBVIOUS

\* A pair is put together from its parts.
LEMMA Pair ==
  ASSUME NEW A, NEW B, NEW e \in A \X B
  PROVE  e = <<e[1], e[2]>> /\ e[1] \in A /\ e[2] \in B
  OBVIOUS

(***************************************************************************)
(* Reading keeps the types of a view.                                      *)
(***************************************************************************)

\* NAMES gives every user one sigil.
LEMMA ListedType ==
  ASSUME NEW entries \in SUBSET (Nicks \X {"", "@"})
  PROVE  Listed(entries) \in [Nicks -> Sigils]
<1> DEFINE Sigil(n, s) == IF \E e \in entries : e[1] = n THEN <<n, s>> \in entries
                          ELSE s = "-"
<1>1. ASSUME NEW n \in Nicks
      PROVE  \E s \in Sigils : Sigil(n, s)
  <2>1. CASE \E e \in entries : e[1] = n
    <3>1. PICK e \in entries : e[1] = n
      BY <2>1
    <3>2. e \in Nicks \X {"", "@"}
      BY <3>1
    <3>3. e = <<e[1], e[2]>> /\ e[2] \in {"", "@"}
      BY <3>2, Pair
    <3>4. e[2] \in Sigils /\ Sigil(n, e[2])
      BY <3>1, <3>3 DEF Sigils
    <3> QED
      BY <3>4
  <2>2. CASE ~\E e \in entries : e[1] = n
    BY <2>2 DEF Sigils
  <2> QED
    BY <2>1, <2>2
<1>2. ASSUME NEW n \in Nicks
      PROVE  (CHOOSE s \in Sigils : Sigil(n, s)) \in Sigils
  BY <1>1
<1> QED
  BY <1>2 DEF Listed

\* Reading keeps the types of a view, by the type of the message.
LEMMA ReadJoinOK ==
  ASSUME NEW x, ViewOK(x), NEW m \in Msgs, m.type = "join",
         NEW y, y = ReadJoin(x, m)
  PROVE  ViewOK(y)
<1>1. m.c \in Channels /\ m.n \in Nicks /\ m.a \in Accounts
  BY MsgFields
<1>2. Nobody \in [Nicks -> Sigils] /\ "" \in Sigils
  BY DEF Nobody, Sigils
<1>3. /\ x.chans \subseteq Channels
      /\ x.users \in [Channels -> [Nicks -> Sigils]]
      /\ x.bans \in [Channels -> {"unloaded", "empty", "set"}]
      /\ x.accounts \in [Nicks -> Accounts \cup {"forgotten", "known"}]
      /\ \A c \in Channels \ x.chans : x.users[c] = Nobody /\ x.bans[c] = "unloaded"
  BY DEF ViewOK
<1>4. CASE m.n = x.nick
  <2> DEFINE g == [Nobody EXCEPT ![m.n] = ""]
  <2>1. /\ y.nick = x.nick /\ y.chans = x.chans \cup {m.c}
        /\ y.users = [x.users EXCEPT ![m.c] = g]
        /\ y.bans = [x.bans EXCEPT ![m.c] = "unloaded"]
        /\ y.accounts = [x.accounts EXCEPT ![m.n] = m.a]
        /\ y.transaction = x.transaction
    BY <1>4 DEF ReadJoin, Knowing
  <2>2. g \in [Nicks -> Sigils]
    BY <1>1, <1>2
  <2> HIDE DEF g
  <2>3. y.users \in [Channels -> [Nicks -> Sigils]]
    BY <1>1, <1>3, <2>1, <2>2, Update
  <2>4. y.accounts \in [Nicks -> Accounts \cup {"forgotten", "known"}]
    BY <1>1, <1>3, <2>1, Update
  <2>5. y.bans \in [Channels -> {"unloaded", "empty", "set"}]
    BY <1>1, <1>3, <2>1
  <2>6. ASSUME NEW c \in Channels \ y.chans
        PROVE  y.users[c] = Nobody /\ y.bans[c] = "unloaded"
    BY <1>1, <1>3, <2>1, <2>6
  <2>7. /\ y.nick \in Nicks /\ y.chans \subseteq Channels
        /\ y.transaction = x.transaction
    BY <1>1, <1>3, <1>4, <2>1
  <2> QED
    BY <2>3, <2>4, <2>5, <2>6, <2>7, Zenon DEF ViewOK
<1>5. CASE m.n # x.nick
  <2> DEFINE g == [x.users[m.c] EXCEPT ![m.n] = ""]
  <2>1. /\ y.nick = x.nick /\ y.chans = x.chans /\ y.bans = x.bans
        /\ y.users = IF m.c \in x.chans THEN [x.users EXCEPT ![m.c] = g] ELSE x.users
        /\ y.accounts = [x.accounts EXCEPT ![m.n] = m.a]
        /\ y.transaction = x.transaction
    BY <1>5 DEF ReadJoin, Knowing
  <2>2. g \in [Nicks -> Sigils]
    BY <1>1, <1>2, <1>3
  <2> HIDE DEF g
  <2>3. y.users \in [Channels -> [Nicks -> Sigils]]
    <3>1. [x.users EXCEPT ![m.c] = g] \in [Channels -> [Nicks -> Sigils]]
      BY <1>1, <1>3, <2>2, Update
    <3> QED
      BY <1>3, <2>1, <3>1
  <2>4. y.accounts \in [Nicks -> Accounts \cup {"forgotten", "known"}]
    BY <1>1, <1>3, <2>1, Update
  <2>5. y.bans \in [Channels -> {"unloaded", "empty", "set"}]
    BY <1>1, <1>3, <2>1
  <2>6. ASSUME NEW c \in Channels \ y.chans
        PROVE  y.users[c] = Nobody /\ y.bans[c] = "unloaded"
    BY <1>1, <1>3, <2>1, <2>6
  <2>7. /\ y.nick \in Nicks /\ y.chans \subseteq Channels
        /\ y.transaction = x.transaction
    BY <1>1, <1>3, <2>1 DEF ViewOK
  <2> QED
    BY <2>3, <2>4, <2>5, <2>6, <2>7, Zenon DEF ViewOK
<1> QED
  BY <1>4, <1>5

\* Reading keeps the types.
LEMMA ReadLeaveOK ==
  ASSUME NEW x, ViewOK(x), NEW m \in Msgs, m.type = "leave",
         NEW y, y = ReadLeave(x, m)
  PROVE  ViewOK(y)
<1>1. m.c \in Channels /\ m.n \in Nicks
  BY MsgFields
<1>2. Nobody \in [Nicks -> Sigils] /\ "-" \in Sigils
  BY DEF Nobody, Sigils
<1>3. x.users \in [Channels -> [Nicks -> Sigils]]
  BY DEF ViewOK
<1>4. /\ x.chans \subseteq Channels
      /\ x.bans \in [Channels -> {"unloaded", "empty", "set"}]
      /\ x.accounts \in [Nicks -> Accounts \cup {"forgotten", "known"}]
      /\ \A c \in Channels \ x.chans : x.users[c] = Nobody /\ x.bans[c] = "unloaded"
  BY DEF ViewOK
<1>5. /\ y.nick = x.nick
      /\ y.chans = IF m.n = x.nick THEN x.chans \ {m.c} ELSE x.chans
      /\ y.bans = IF m.n = x.nick THEN [x.bans EXCEPT ![m.c] = "unloaded"] ELSE x.bans
      /\ y.transaction = x.transaction
  BY DEF ReadLeave, Knowing
<1>6. y.users = Left(x, m)
  BY DEF ReadLeave, Knowing
<1>7. PICK g \in [Nicks -> Sigils] :
        /\ y.users = [x.users EXCEPT ![m.c] = g]
        /\ m.n = x.nick => g = Nobody
        /\ m.n # x.nick => g = [x.users[m.c] EXCEPT ![m.n] = "-"]
  <2>1. [x.users[m.c] EXCEPT ![m.n] = "-"] \in [Nicks -> Sigils]
    BY <1>1, <1>2, <1>3
  <2> QED
    BY <1>2, <1>6, <2>1 DEF Left
<1>8. y.users \in [Channels -> [Nicks -> Sigils]]
  BY <1>1, <1>3, <1>7
<1>9. y.accounts \in [Nicks -> Accounts \cup {"forgotten", "known"}]
  BY <1>4 DEF ReadLeave, Knowing
<1>10. y.bans \in [Channels -> {"unloaded", "empty", "set"}]
  BY <1>1, <1>4, <1>5
<1>11. ASSUME NEW c \in Channels \ y.chans
       PROVE  y.users[c] = Nobody /\ y.bans[c] = "unloaded"
  <2>1. CASE c = m.c
    <3>1. CASE m.n = x.nick
      BY <1>1, <1>3, <1>4, <1>5, <1>7, <2>1, <3>1
    <3>2. CASE m.n # x.nick
      <4>1. x.users[c] = Nobody /\ x.bans[c] = "unloaded"
        BY <1>4, <1>5, <1>11, <3>2
      <4>2. [Nobody EXCEPT ![m.n] = "-"] = Nobody
        BY <1>1 DEF Nobody
      <4> QED
        BY <1>1, <1>3, <1>5, <1>7, <2>1, <3>2, <4>1, <4>2
    <3> QED
      BY <3>1, <3>2
  <2>2. CASE c # m.c
    <3>1. x.users[c] = Nobody /\ x.bans[c] = "unloaded"
      BY <1>4, <1>5, <1>11, <2>2
    <3>2. y.users[c] = x.users[c]
      BY <1>3, <1>7, <2>2, <1>11
    <3>3. y.bans[c] = x.bans[c]
      BY <1>4, <1>5, <2>2, <1>11
    <3> QED
      BY <3>1, <3>2, <3>3
  <2> QED
    BY <2>1, <2>2
<1>12. y.nick \in Nicks /\ y.chans \subseteq Channels
  BY <1>5 DEF ViewOK
<1>13. /\ y.transaction.kind \in {"none", "names", "who", "bans"}
       /\ y.transaction.kind = "names" => y.transaction.items \subseteq Nicks \X {"", "@"}
  BY <1>5 DEF ViewOK
<1> QED
  BY <1>8, <1>9, <1>10, <1>11, <1>12, <1>13, Zenon DEF ViewOK

\* Reading keeps the types.
LEMMA ReadQuitOK ==
  ASSUME NEW x, ViewOK(x), NEW m \in Msgs, m.type = "quit",
         NEW y, y = ReadQuit(x, m)
  PROVE  ViewOK(y)
<1>1. m.n \in Nicks
  BY MsgFields
<1>2. /\ x.users \in [Channels -> [Nicks -> Sigils]]
      /\ \A c \in Channels \ x.chans : x.users[c] = Nobody /\ x.bans[c] = "unloaded"
  BY DEF ViewOK
<1>3. /\ y.nick = x.nick /\ y.chans = x.chans /\ y.bans = x.bans
      /\ y.transaction = x.transaction
  BY DEF ReadQuit, Knowing
<1>4. y.users = [c \in Channels |-> [x.users[c] EXCEPT ![m.n] = "-"]]
  BY DEF ReadQuit, Knowing
<1>5. y.accounts = [x.accounts EXCEPT ![m.n] = "forgotten"]
  BY DEF ReadQuit, Knowing
<1>6. y.users \in [Channels -> [Nicks -> Sigils]]
  <2>1. ASSUME NEW c \in Channels
        PROVE  [x.users[c] EXCEPT ![m.n] = "-"] \in [Nicks -> Sigils]
    BY <1>1, <1>2 DEF Sigils
  <2> QED
    BY <1>4, <2>1
<1>7. ASSUME NEW c \in Channels \ y.chans
      PROVE  y.users[c] = Nobody /\ y.bans[c] = "unloaded"
  <2>1. x.users[c] = Nobody /\ x.bans[c] = "unloaded"
    BY <1>2, <1>3, <1>7
  <2>2. [Nobody EXCEPT ![m.n] = "-"] = Nobody
    BY <1>1 DEF Nobody
  <2> QED
    BY <1>3, <1>4, <2>1, <2>2
<1>8. x.accounts \in [Nicks -> Accounts \cup {"forgotten", "known"}]
  BY DEF ViewOK
<1>9. y.accounts \in [Nicks -> Accounts \cup {"forgotten", "known"}]
  BY <1>1, <1>5, <1>8
<1> QED
  BY <1>3, <1>6, <1>7, <1>9, Zenon DEF ViewOK

\* Reading keeps the types.
LEMMA ReadNickOK ==
  ASSUME NEW x, ViewOK(x), NEW m \in Msgs, m.type = "nick",
         NEW y, y = ReadNick(x, m)
  PROVE  ViewOK(y)
<1>1. m.n \in Nicks /\ m.new \in Nicks
  BY MsgFields
<1>2. /\ x.users \in [Channels -> [Nicks -> Sigils]]
      /\ \A c \in Channels \ x.chans : x.users[c] = Nobody /\ x.bans[c] = "unloaded"
  BY DEF ViewOK
<1>3. /\ y.nick \in {x.nick, m.new} /\ y.chans = x.chans /\ y.bans = x.bans
      /\ y.transaction = x.transaction
  BY DEF ReadNick, Knowing
<1>4. y.users = [c \in Channels |->
                   [x.users[c] EXCEPT ![m.new] = x.users[c][m.n], ![m.n] = "-"]]
  BY DEF ReadNick, Knowing
<1>5. y.accounts = [x.accounts EXCEPT ![m.new] = x.accounts[m.n], ![m.n] = "forgotten"]
  BY DEF ReadNick, Knowing
<1>6. y.users \in [Channels -> [Nicks -> Sigils]]
  <2>1. ASSUME NEW c \in Channels
        PROVE  [x.users[c] EXCEPT ![m.new] = x.users[c][m.n], ![m.n] = "-"]
                 \in [Nicks -> Sigils]
    BY <1>1, <1>2 DEF Sigils
  <2> QED
    BY <1>4, <2>1
<1>7. ASSUME NEW c \in Channels \ y.chans
      PROVE  y.users[c] = Nobody /\ y.bans[c] = "unloaded"
  <2>1. x.users[c] = Nobody /\ x.bans[c] = "unloaded"
    BY <1>2, <1>3, <1>7
  <2>2. [Nobody EXCEPT ![m.new] = Nobody[m.n], ![m.n] = "-"] = Nobody
    BY <1>1 DEF Nobody
  <2> QED
    BY <1>3, <1>4, <2>1, <2>2
<1>8. x.accounts \in [Nicks -> Accounts \cup {"forgotten", "known"}]
  BY DEF ViewOK
<1>9. y.accounts \in [Nicks -> Accounts \cup {"forgotten", "known"}]
  BY <1>1, <1>5, <1>8
<1>10. y.nick \in Nicks
  BY <1>1, <1>3 DEF ViewOK
<1> QED
  BY <1>3, <1>6, <1>7, <1>9, <1>10, Zenon DEF ViewOK
\* A view on the same channels is one if what it changes has its type.
LEMMA ViewSame ==
  ASSUME NEW x, ViewOK(x), NEW y, y.nick = x.nick, y.chans = x.chans,
         y.users \in [Channels -> [Nicks -> Sigils]],
         y.bans \in [Channels -> {"unloaded", "empty", "set"}],
         y.accounts \in [Nicks -> Accounts \cup {"forgotten", "known"}],
         y.transaction \in {x.transaction, Idle},
         \A c \in Channels \ x.chans : y.users[c] = Nobody /\ y.bans[c] = "unloaded"
  PROVE  ViewOK(y)
<1>1. y.nick \in Nicks /\ y.chans \subseteq Channels
  BY DEF ViewOK
<1>2. /\ x.transaction.kind \in {"none", "names", "who", "bans"}
      /\ x.transaction.kind = "names" =>
           x.transaction.items \subseteq Nicks \X {"", "@"}
  BY DEF ViewOK
<1>3. /\ y.transaction.kind \in {"none", "names", "who", "bans"}
      /\ y.transaction.kind = "names" =>
           y.transaction.items \subseteq Nicks \X {"", "@"}
  <2>1. CASE y.transaction = x.transaction
    BY <1>2, <2>1
  <2>2. CASE y.transaction = Idle
    <3>1. y.transaction.kind = "none"
      BY <2>2 DEF Idle
    <3> QED
      BY <3>1
  <2> QED
    BY <2>1, <2>2
<1>4. \A c \in Channels \ y.chans : y.users[c] = Nobody /\ y.bans[c] = "unloaded"
  OBVIOUS
<1> QED
  BY <1>1, <1>3, <1>4, Zenon DEF ViewOK

\* The parts of a view have their types.
LEMMA ViewTypes ==
  ASSUME NEW x, ViewOK(x)
  PROVE  /\ x.users \in [Channels -> [Nicks -> Sigils]]
         /\ x.bans \in [Channels -> {"unloaded", "empty", "set"}]
         /\ x.accounts \in [Nicks -> Accounts \cup {"forgotten", "known"}]
         /\ \A c \in Channels \ x.chans : x.users[c] = Nobody
         /\ \A c \in Channels \ x.chans : x.bans[c] = "unloaded"
         /\ x.nick \in Nicks /\ x.chans \subseteq Channels
  BY DEF ViewOK

\* Reading keeps the types.
LEMMA ReadAccountOK ==
  ASSUME NEW x, ViewOK(x), NEW m \in Msgs, m.type = "account",
         NEW y, y = ReadAccount(x, m)
  PROVE  ViewOK(y)
<1>1. m.n \in Nicks /\ m.a \in Accounts
  BY MsgFields
<1>2. /\ y.nick = x.nick /\ y.chans = x.chans /\ y.users = x.users
      /\ y.bans = x.bans /\ y.transaction = x.transaction
  BY DEF ReadAccount, Knowing
<1>3. y.accounts = [x.accounts EXCEPT ![m.n] = m.a]
  BY DEF ReadAccount, Knowing
<1>4. x.accounts \in [Nicks -> Accounts \cup {"forgotten", "known"}]
  BY DEF ViewOK
<1>5. y.accounts \in [Nicks -> Accounts \cup {"forgotten", "known"}]
  BY <1>1, <1>3, <1>4
<1> QED
  BY <1>2, <1>5, ViewTypes, ViewSame

\* Reading keeps the types.
LEMMA ReadItemOK ==
  ASSUME NEW x, ViewOK(x), NEW kind \in {"names", "who", "bans"}, NEW item,
         kind = "names" => item \in Nicks \X {"", "@"},
         NEW y, y = ReadItem(x, kind, item)
  PROVE  ViewOK(y)
<1>1. /\ y.nick = x.nick /\ y.chans = x.chans /\ y.users = x.users
      /\ y.bans = x.bans /\ y.accounts = x.accounts
  BY DEF ReadItem, Knowing
<1>2. /\ y.transaction.kind = kind
      /\ y.transaction.items = ItemsOf(x, kind) \cup {item}
  BY DEF ReadItem, Knowing
<1>3. x.transaction.kind = "names" => x.transaction.items \subseteq Nicks \X {"", "@"}
  BY DEF ViewOK
<1>4. kind = "names" => y.transaction.items \subseteq Nicks \X {"", "@"}
  BY <1>2, <1>3 DEF ItemsOf
<1>5. kind \in {"none", "names", "who", "bans"}
  OBVIOUS
<1>6. /\ y.nick \in Nicks /\ y.chans \subseteq Channels
      /\ y.users \in [Channels -> [Nicks -> Sigils]]
      /\ y.bans \in [Channels -> {"unloaded", "empty", "set"}]
      /\ y.accounts \in [Nicks -> Accounts \cup {"forgotten", "known"}]
      /\ \A c \in Channels \ y.chans : y.users[c] = Nobody /\ y.bans[c] = "unloaded"
  <2>1. /\ x.nick \in Nicks /\ x.chans \subseteq Channels
        /\ x.users \in [Channels -> [Nicks -> Sigils]]
        /\ x.bans \in [Channels -> {"unloaded", "empty", "set"}]
        /\ x.accounts \in [Nicks -> Accounts \cup {"forgotten", "known"}]
        /\ \A c \in Channels \ x.chans : x.users[c] = Nobody /\ x.bans[c] = "unloaded"
    BY ViewTypes
  <2>2. y.nick \in Nicks /\ y.chans \subseteq Channels
    BY <1>1, <2>1
  <2>3. y.users \in [Channels -> [Nicks -> Sigils]]
    BY <1>1, <2>1, Zenon
  <2>4. /\ y.bans \in [Channels -> {"unloaded", "empty", "set"}]
        /\ y.accounts \in [Nicks -> Accounts \cup {"forgotten", "known"}]
    BY <1>1, <2>1, Zenon
  <2>5. ASSUME NEW c \in Channels \ y.chans
        PROVE  y.users[c] = Nobody /\ y.bans[c] = "unloaded"
    <3>1. c \in Channels \ x.chans
      BY <1>1, Zenon
    <3>2. x.users[c] = Nobody /\ x.bans[c] = "unloaded"
      BY <2>1, <3>1, Zenon
    <3> QED
      BY <1>1, <3>2, Zenon
  <2> QED
    BY <2>2, <2>3, <2>4, <2>5, Zenon
<1> QED
  BY <1>2, <1>4, <1>5, <1>6, Zenon DEF ViewOK

\* Learning accounts gives accounts.
LEMMA LearnedType ==
  ASSUME NEW x, ViewOK(x), NEW nicks
  PROVE  Learned(x, nicks) \in [Nicks -> Accounts \cup {"forgotten", "known"}]
<1>1. x.accounts \in [Nicks -> Accounts \cup {"forgotten", "known"}]
  BY DEF ViewOK
<1> QED
  BY <1>1 DEF Learned

\* No transaction has no items.
LEMMA IdleOK ==
  /\ Idle.kind = "none" /\ Idle.items = {}
  BY DEF Idle

\* Reading keeps the types.
LEMMA ReadEndOfNamesOK ==
  ASSUME NEW x, ViewOK(x), NEW m \in Msgs, m.type = "endofnames",
         NEW y, y = ReadEndOfNames(x, m)
  PROVE  ViewOK(y)
<1>1. m.c \in Channels
  BY MsgFields
<1>2. /\ y.nick = x.nick /\ y.chans = x.chans /\ y.bans = x.bans
      /\ y.transaction = Idle
  BY DEF ReadEndOfNames, Knowing
<1>3. y.users = IF m.c \notin x.chans THEN x.users
                ELSE [x.users EXCEPT ![m.c] = Listed(ItemsOf(x, "names"))]
  BY DEF ReadEndOfNames, Knowing
<1>4. y.accounts \in [Nicks -> Accounts \cup {"forgotten", "known"}]
  BY LearnedType DEF ReadEndOfNames, Knowing
<1>5. x.users \in [Channels -> [Nicks -> Sigils]]
  BY DEF ViewOK
<1>6. ItemsOf(x, "names") \in SUBSET (Nicks \X {"", "@"})
  BY DEF ViewOK, ItemsOf
<1>7. Listed(ItemsOf(x, "names")) \in [Nicks -> Sigils]
  BY <1>6, ListedType
<1>8. y.users \in [Channels -> [Nicks -> Sigils]]
  BY <1>1, <1>3, <1>5, <1>7
<1>9. \A c \in Channels \ x.chans : x.users[c] = Nobody /\ x.bans[c] = "unloaded"
  BY DEF ViewOK
<1>10. ASSUME NEW c \in Channels \ y.chans
       PROVE  y.users[c] = Nobody /\ y.bans[c] = "unloaded"
  <2>1. x.users[c] = Nobody /\ x.bans[c] = "unloaded"
    BY <1>2, <1>9, <1>10
  <2>2. y.users[c] = x.users[c]
    BY <1>1, <1>2, <1>3, <1>5, <1>10
  <2> QED
    BY <1>2, <2>1, <2>2
<1> QED
  BY <1>2, <1>4, <1>8, <1>10, IdleOK DEF ViewOK

\* Reading keeps the types.
LEMMA ReadEndOfWhoOK ==
  ASSUME NEW x, ViewOK(x), NEW y, y = ReadEndOfWho(x)
  PROVE  ViewOK(y)
<1>1. /\ y.nick = x.nick /\ y.chans = x.chans /\ y.users = x.users
      /\ y.bans = x.bans /\ y.transaction = Idle
  BY DEF ReadEndOfWho, Knowing
<1>2. y.accounts \in [Nicks -> Accounts \cup {"forgotten", "known"}]
  BY LearnedType DEF ReadEndOfWho, Knowing
<1> QED
  BY <1>1, <1>2, ViewTypes, ViewSame

\* Reading keeps the types.
LEMMA ReadEndOfBansOK ==
  ASSUME NEW x, ViewOK(x), NEW m \in Msgs, m.type = "endofbanlist",
         NEW y, y = ReadEndOfBans(x, m)
  PROVE  ViewOK(y)
<1>1. m.c \in Channels
  BY MsgFields
<1>2. /\ y.nick = x.nick /\ y.chans = x.chans /\ y.users = x.users
      /\ y.accounts = x.accounts /\ y.transaction = Idle
  BY DEF ReadEndOfBans, Knowing
<1>3. \E s \in {"empty", "set"} :
        y.bans = IF m.c \notin x.chans THEN x.bans ELSE [x.bans EXCEPT ![m.c] = s]
  BY DEF ReadEndOfBans, Knowing
<1>4. x.bans \in [Channels -> {"unloaded", "empty", "set"}]
  BY DEF ViewOK
<1>5. y.bans \in [Channels -> {"unloaded", "empty", "set"}]
  BY <1>1, <1>3, <1>4
<1>6. \A c \in Channels \ x.chans : y.bans[c] = x.bans[c]
  BY <1>1, <1>3, <1>4
<1> QED
  BY <1>2, <1>5, <1>6, ViewTypes, ViewSame

\* Reading keeps the types.
LEMMA ReadOpOK ==
  ASSUME NEW x, ViewOK(x), NEW m \in Msgs, m.type = "op", NEW y, y = ReadOp(x, m)
  PROVE  ViewOK(y)
<1>1. m.c \in Channels /\ m.n \in Nicks /\ m.sigil \in Sigils
  BY MsgFields DEF Sigils
<1>2. /\ y.nick = x.nick /\ y.chans = x.chans /\ y.bans = x.bans
      /\ y.accounts = x.accounts /\ y.transaction = x.transaction
  BY DEF ReadOp, Knowing
<1>3. y.users = IF x.users[m.c][m.n] = "-" THEN x.users
                ELSE [x.users EXCEPT ![m.c][m.n] = m.sigil]
  BY DEF ReadOp, Knowing
<1>4. x.users \in [Channels -> [Nicks -> Sigils]]
  BY DEF ViewOK
<1>5. y.users \in [Channels -> [Nicks -> Sigils]]
  BY <1>1, <1>3, <1>4
<1>6. \A c \in Channels \ x.chans : x.users[c] = Nobody /\ x.bans[c] = "unloaded"
  BY DEF ViewOK
<1>7. ASSUME NEW c \in Channels \ x.chans
      PROVE  y.users[c] = Nobody
  <2>1. x.users[c] = Nobody /\ Nobody[m.n] = "-"
    BY <1>1, <1>6 DEF Nobody
  <2> QED
    BY <1>1, <1>3, <1>4, <2>1
<1> QED
  BY <1>2, <1>5, <1>6, <1>7, ViewTypes, ViewSame

\* Reading keeps the types.
LEMMA ReadBanOK ==
  ASSUME NEW x, ViewOK(x), NEW m \in Msgs, m.type = "ban", NEW y, y = ReadBan(x, m)
  PROVE  ViewOK(y)
<1>1. m.c \in Channels
  BY MsgFields
<1>2. /\ y.nick = x.nick /\ y.chans = x.chans /\ y.users = x.users
      /\ y.accounts = x.accounts /\ y.transaction = x.transaction
  BY DEF ReadBan, Knowing
<1>3. y.bans = [x.bans EXCEPT ![m.c] = ListMode(x.bans[m.c], m.polarity)]
  BY DEF ReadBan, Knowing
<1>4. /\ x.bans \in [Channels -> {"unloaded", "empty", "set"}]
      /\ \A c \in Channels \ x.chans : x.users[c] = Nobody /\ x.bans[c] = "unloaded"
  BY DEF ViewOK
<1>5. /\ ListMode(x.bans[m.c], m.polarity) \in {"unloaded", "empty", "set"}
      /\ x.bans[m.c] = "unloaded" => ListMode(x.bans[m.c], m.polarity) = "unloaded"
  BY DEF ListMode
<1>6. y.bans \in [Channels -> {"unloaded", "empty", "set"}]
  BY <1>1, <1>3, <1>4, <1>5
<1>7. \A c \in Channels \ x.chans : y.bans[c] = "unloaded"
  BY <1>1, <1>3, <1>4, <1>5
<1> QED
  BY <1>2, <1>4, <1>6, <1>7, ViewTypes, ViewSame

\* Reading a message gives a view again.
LEMMA ReadOK ==
  ASSUME NEW x, ViewOK(x), NEW m \in Msgs
  PROVE  ViewOK(Read(x, m))
<1>1. CASE m.type = "join"
  <2>1. Read(x, m) = ReadJoin(x, m)
    BY <1>1, ReadCases
  <2> QED
    BY <1>1, <2>1, ReadJoinOK
<1>2. CASE m.type = "leave"
  <2>1. Read(x, m) = ReadLeave(x, m)
    BY <1>2, ReadCases
  <2> QED
    BY <1>2, <2>1, ReadLeaveOK
<1>3. CASE m.type = "quit"
  <2>1. Read(x, m) = ReadQuit(x, m)
    BY <1>3, ReadCases
  <2> QED
    BY <1>3, <2>1, ReadQuitOK
<1>4. CASE m.type = "nick"
  <2>1. Read(x, m) = ReadNick(x, m)
    BY <1>4, ReadCases
  <2> QED
    BY <1>4, <2>1, ReadNickOK
<1>5. CASE m.type = "account"
  <2>1. Read(x, m) = ReadAccount(x, m)
    BY <1>5, ReadCases
  <2> QED
    BY <1>5, <2>1, ReadAccountOK
<1>6. CASE m.type = "namreply"
  <2>1. <<m.n, m.sigil>> \in Nicks \X {"", "@"}
    BY <1>6, MsgFields
  <2>2. Read(x, m) = ReadItem(x, "names", <<m.n, m.sigil>>)
    BY <1>6, ReadCases
  <2> QED
    BY <2>1, <2>2, ReadItemOK
<1>7. CASE m.type = "whoreply"
  <2>1. Read(x, m) = ReadItem(x, "who", m.n)
    BY <1>7, ReadCases
  <2> QED
    BY <2>1, ReadItemOK
<1>14. CASE m.type = "banlist"
  <2>1. Read(x, m) = ReadItem(x, "bans", "mask")
    BY <1>14, ReadCases
  <2> QED
    BY <2>1, ReadItemOK
<1>8. CASE m.type = "endofnames"
  <2>1. Read(x, m) = ReadEndOfNames(x, m)
    BY <1>8, ReadCases
  <2> QED
    BY <1>8, <2>1, ReadEndOfNamesOK
<1>9. CASE m.type = "endofwho"
  <2>1. Read(x, m) = ReadEndOfWho(x)
    BY <1>9, ReadCases
  <2> QED
    BY <1>9, <2>1, ReadEndOfWhoOK
<1>10. CASE m.type = "endofbanlist"
  <2>1. Read(x, m) = ReadEndOfBans(x, m)
    BY <1>10, ReadCases
  <2> QED
    BY <1>10, <2>1, ReadEndOfBansOK
<1>11. CASE m.type = "op"
  <2>1. Read(x, m) = ReadOp(x, m)
    BY <1>11, ReadCases
  <2> QED
    BY <1>11, <2>1, ReadOpOK
<1>12. CASE m.type = "ban"
  <2>1. Read(x, m) = ReadBan(x, m)
    BY <1>12, ReadCases
  <2> QED
    BY <1>12, <2>1, ReadBanOK
<1>13. CASE m.type = "channelmodeis"
  BY <1>13, ReadCases
<1> QED
  BY <1>1, <1>2, <1>3, <1>4, <1>5, <1>6, <1>7, <1>8, <1>9, <1>10, <1>11, <1>12,
     <1>13, <1>14, MsgFields

(***************************************************************************)
(* Reading one step, and sequences of steps.                               *)
(***************************************************************************)

\* Appending to a sequence and taking its head off keep the elements in place.
LEMMA Appended ==
  ASSUME NEW S, NEW q \in Seq(S), NEW r \in Seq(S)
  PROVE  /\ q \o r \in Seq(S) /\ Len(q \o r) = Len(q) + Len(r)
         /\ \A i \in 1 .. Len(q) : (q \o r)[i] = q[i]
         /\ \A i \in 1 .. Len(r) : (q \o r)[Len(q) + i] = r[i]
  BY ConcatProperties, LenProperties

\* A sequence that is not empty has its tail's elements one place later.
LEMMA Taken ==
  ASSUME NEW S, NEW q \in Seq(S), q # << >>
  PROVE  /\ Tail(q) \in Seq(S) /\ Len(q) \in Nat /\ Len(q) > 0
         /\ Len(Tail(q)) = Len(q) - 1
         /\ Head(q) = q[1] /\ q[1] \in S
         /\ \A i \in 1 .. Len(q) - 1 : Tail(q)[i] = q[i + 1]
  BY HeadTailProperties, EmptySeq, ElementOfSeq

\* The steps over q followed by those over r.
Joined(v, q, w) == [k \in Nat |-> IF k =< Len(q) THEN v[k] ELSE w[k - Len(q)]]

\* The joined steps are the first ones, then the second ones.
LEMMA JoinedSteps ==
  ASSUME NEW q \in Seq(Msgs), NEW r \in Seq(Msgs), NEW v, NEW w, NEW y,
         w[0] = v[Len(q)], y = Joined(v, q, w)
  PROVE  /\ \A k \in 0 .. Len(q) : y[k] = v[k]
         /\ \A k \in 0 .. Len(r) : y[Len(q) + k] = w[k]
         /\ y[0] = v[0] /\ y[Len(q \o r)] = w[Len(r)]
<1>1. Len(q) \in Nat /\ Len(r) \in Nat /\ Len(q \o r) = Len(q) + Len(r)
  BY LenProperties, Appended
<1>2. \A k \in 0 .. Len(q) : y[k] = v[k]
  BY <1>1 DEF Joined
<1>3. ASSUME NEW k \in 0 .. Len(r)
      PROVE  y[Len(q) + k] = w[k]
  <2>1. Len(q) + k \in Nat /\ (Len(q) + k) - Len(q) = k
    BY <1>1
  <2>2. CASE k = 0
    BY <1>1, <1>2, <2>2
  <2>3. CASE k # 0
    BY <1>1, <2>1, <2>3 DEF Joined
  <2> QED
    BY <2>2, <2>3
<1> QED
  BY <1>1, <1>2, <1>3

\* Two readings, the second from where the first ended, are one.
LEMMA JoinedReads ==
  ASSUME NEW q \in Seq(Msgs), NEW r \in Seq(Msgs), NEW v, NEW w, NEW y,
         w[0] = v[Len(q)], y = Joined(v, q, w), Reads(v, q), Reads(w, r)
  PROVE  Reads(y, q \o r)
<1>1. Len(q) \in Nat /\ Len(r) \in Nat /\ Len(q \o r) = Len(q) + Len(r)
  BY LenProperties, Appended
<1>2. /\ \A k \in 0 .. Len(q) : y[k] = v[k]
      /\ \A k \in 0 .. Len(r) : y[Len(q) + k] = w[k]
  BY JoinedSteps
<1>3. ASSUME NEW k \in 0 .. Len(q \o r)
      PROVE  ViewOK(y[k])
  <2>1. CASE k =< Len(q)
    BY <1>1, <1>2, <2>1 DEF Reads
  <2>2. CASE k > Len(q)
    <3>1. k - Len(q) \in 0 .. Len(r) /\ Len(q) + (k - Len(q)) = k
      BY <1>1, <2>2
    <3>2. y[k] = w[k - Len(q)]
      BY <1>2, <3>1
    <3> QED
      BY <3>1, <3>2 DEF Reads
  <2> QED
    BY <1>1, <2>1, <2>2
<1>4. ASSUME NEW k \in 1 .. Len(q \o r)
      PROVE  y[k] = Read(y[k - 1], (q \o r)[k])
  <2>1. CASE k =< Len(q)
    <3>1. k \in 1 .. Len(q) /\ k - 1 \in 0 .. Len(q) /\ k \in 0 .. Len(q)
      BY <1>1, <2>1
    <3>2. y[k] = v[k] /\ y[k - 1] = v[k - 1] /\ (q \o r)[k] = q[k]
      BY <1>2, <3>1, Appended
    <3> QED
      BY <3>1, <3>2 DEF Reads
  <2>2. CASE k > Len(q)
    <3> DEFINE i == k - Len(q)
    <3>1. /\ i \in 1 .. Len(r) /\ i - 1 \in 0 .. Len(r) /\ i \in 0 .. Len(r)
          /\ Len(q) + i = k /\ Len(q) + (i - 1) = k - 1
      BY <1>1, <2>2
    <3> HIDE DEF i
    <3>2. y[k] = w[i] /\ y[k - 1] = w[i - 1]
      BY <1>2, <3>1
    <3>3. (q \o r)[k] = r[i]
      BY <3>1, Appended
    <3> QED
      BY <3>1, <3>2, <3>3 DEF Reads
  <2> QED
    BY <1>1, <2>1, <2>2
<1> QED
  BY <1>3, <1>4 DEF Reads

\* The steps over r tell the client when it gains op in one of the channels G.
Tells(w, r, G) ==
  \A c \in G, i \in 1 .. Len(r) :
    OpIn(w[i], c) /\ ~OpIn(w[i - 1], c) => r[i].type = "op" /\ r[i].c = c

Path(x, r, y, G) ==
  \E w : w[0] = x /\ w[Len(r)] = y /\ Reads(w, r) /\ Tells(w, r, G)

\* Nothing to read: the view stays.
LEMMA PathNone ==
  ASSUME NEW x, ViewOK(x), NEW G
  PROVE  Path(x, << >>, x, G)
<1> DEFINE w == [k \in Nat |-> x]
<1>1. Len(<< >>) = 0
  OBVIOUS
<1>2. w[0] = x
  OBVIOUS
<1>3. Reads(w, << >>)
  BY <1>1 DEF Reads
<1>4. Tells(w, << >>, G)
  BY <1>1 DEF Tells
<1> HIDE DEF w
<1> QED
  BY <1>1, <1>2, <1>3, <1>4 DEF Path

\* One message to read.
LEMMA PathOne ==
  ASSUME NEW x, ViewOK(x), NEW m \in Msgs, NEW y, y = Read(x, m), NEW G,
         \A c \in G : OpIn(y, c) => OpIn(x, c) \/ (m.type = "op" /\ m.c = c)
  PROVE  Path(x, <<m>>, y, G)
<1> DEFINE w == [k \in Nat |-> IF k = 0 THEN x ELSE y]
           r == <<m>>
<1>1. Len(r) = 1 /\ r[1] = m
  OBVIOUS
<1>2. w[0] = x /\ w[1] = y
  OBVIOUS
<1> HIDE DEF w, r
<1>3. ViewOK(y)
  BY ReadOK
<1>4. /\ \A k \in 0 .. 1 : k = 0 \/ k = 1
      /\ \A k \in 1 .. 1 : k = 1
      /\ 1 - 1 = 0
  OBVIOUS
<1>5. Reads(w, r)
  BY <1>1, <1>2, <1>3, <1>4 DEF Reads
<1>6. Tells(w, r, G)
  BY <1>1, <1>2, <1>4 DEF Tells
<1>7. Path(x, r, y, G)
  BY <1>1, <1>2, <1>5, <1>6 DEF Path
<1> QED
  BY <1>7 DEF r

\* One burst after another.
LEMMA PathCat ==
  ASSUME NEW x, NEW y, NEW z, NEW G, NEW q \in Seq(Msgs), NEW r \in Seq(Msgs),
         Path(x, q, y, G), Path(y, r, z, G)
  PROVE  Path(x, q \o r, z, G)
<1>1. PICK v : v[0] = x /\ v[Len(q)] = y /\ Reads(v, q) /\ Tells(v, q, G)
  BY DEF Path
<1>2. PICK w : w[0] = y /\ w[Len(r)] = z /\ Reads(w, r) /\ Tells(w, r, G)
  BY DEF Path
<1> DEFINE u == Joined(v, q, w)
<1>3. Len(q) \in Nat /\ Len(r) \in Nat /\ Len(q \o r) = Len(q) + Len(r)
  BY LenProperties, Appended
<1>4. w[0] = v[Len(q)]
  BY <1>1, <1>2
<1>5. /\ \A k \in 0 .. Len(q) : u[k] = v[k]
      /\ \A k \in 0 .. Len(r) : u[Len(q) + k] = w[k]
      /\ u[0] = v[0] /\ u[Len(q \o r)] = w[Len(r)]
  BY <1>4, JoinedSteps
<1>6. Reads(u, q \o r)
  BY <1>1, <1>2, <1>4, JoinedReads
<1> HIDE DEF u
<1>7. ASSUME NEW c \in G, NEW k \in 1 .. Len(q \o r), OpIn(u[k], c), ~OpIn(u[k - 1], c)
      PROVE  (q \o r)[k].type = "op" /\ (q \o r)[k].c = c
  <2>1. CASE k =< Len(q)
    <3>1. k \in 1 .. Len(q) /\ k - 1 \in 0 .. Len(q) /\ k \in 0 .. Len(q)
      BY <1>3, <2>1
    <3>2. u[k] = v[k] /\ u[k - 1] = v[k - 1] /\ (q \o r)[k] = q[k]
      BY <1>5, <3>1, Appended
    <3> QED
      BY <1>1, <1>7, <3>1, <3>2 DEF Tells
  <2>2. CASE k > Len(q)
    <3> DEFINE i == k - Len(q)
    <3>1. /\ i \in 1 .. Len(r) /\ i - 1 \in 0 .. Len(r) /\ i \in 0 .. Len(r)
          /\ Len(q) + i = k /\ Len(q) + (i - 1) = k - 1
      BY <1>3, <2>2
    <3> HIDE DEF i
    <3>2. u[k] = w[i] /\ u[k - 1] = w[i - 1]
      BY <1>5, <3>1
    <3>3. (q \o r)[k] = r[i]
      BY <3>1, Appended
    <3> QED
      BY <1>2, <1>7, <3>1, <3>2, <3>3 DEF Tells
  <2> QED
    BY <1>3, <2>1, <2>2
<1>8. Tells(u, q \o r, G)
  BY <1>7 DEF Tells
<1> QED
  BY <1>1, <1>2, <1>5, <1>6, <1>8 DEF Path

\* Messages that only add to a transaction, one item each.
Gathered(x, kind, items) ==
  Knowing(x.nick, x.chans, x.users, x.bans, x.accounts,
          [kind |-> kind, items |-> items])

AddItems(r, kind, item) ==
  \A i \in 1 .. Len(r) : \A z : Read(z, r[i]) = ReadItem(z, kind, item[i])
ItemsType(r, kind, item) ==
  kind = "names" => \A i \in 1 .. Len(r) : item[i] \in Nicks \X {"", "@"}
FirstItems(item, k) == {item[i] : i \in 1 .. k}

\* The items gathered grow by one.
LEMMA FirstItemsNext ==
  ASSUME NEW item
  PROVE  /\ FirstItems(item, 0) = {}
         /\ \A k \in Nat \ {0} :
              FirstItems(item, k) = FirstItems(item, k - 1) \cup {item[k]}
<1>1. FirstItems(item, 0) = {}
  BY DEF FirstItems
<1>2. ASSUME NEW k \in Nat \ {0}
      PROVE  FirstItems(item, k) = FirstItems(item, k - 1) \cup {item[k]}
  <2>1. 1 .. k = 1 .. (k - 1) \cup {k}
    OBVIOUS
  <2> QED
    BY <2>1 DEF FirstItems
<1> QED
  BY <1>1, <1>2

\* Gathering touches the transaction only.
LEMMA GatheredParts ==
  ASSUME NEW x, ViewOK(x), NEW kind, NEW items, NEW y, y = Gathered(x, kind, items)
  PROVE  /\ y.nick = x.nick /\ y.chans = x.chans /\ y.users = x.users
         /\ y.bans = x.bans /\ y.accounts = x.accounts
         /\ y.transaction.kind = kind /\ y.transaction.items = items
         /\ ItemsOf(y, kind) = items
  BY DEF Gathered, Knowing, ItemsOf

\* Gathering gives a view again.
LEMMA GatheredOK ==
  ASSUME NEW x, ViewOK(x), NEW kind \in {"names", "who", "bans"}, NEW items,
         kind = "names" => items \subseteq Nicks \X {"", "@"},
         NEW y, y = Gathered(x, kind, items)
  PROVE  ViewOK(y)
<1>1. /\ y.nick = x.nick /\ y.chans = x.chans /\ y.users = x.users
      /\ y.bans = x.bans /\ y.accounts = x.accounts
      /\ y.transaction.kind = kind /\ y.transaction.items = items
  BY DEF Gathered, Knowing
<1>2. /\ x.nick \in Nicks /\ x.chans \subseteq Channels
      /\ x.users \in [Channels -> [Nicks -> Sigils]]
      /\ x.bans \in [Channels -> {"unloaded", "empty", "set"}]
      /\ x.accounts \in [Nicks -> Accounts \cup {"forgotten", "known"}]
      /\ \A c \in Channels \ x.chans : x.users[c] = Nobody /\ x.bans[c] = "unloaded"
  BY ViewTypes
<1>3. y.nick \in Nicks /\ y.chans \subseteq Channels
  BY <1>1, <1>2
<1>4. y.users \in [Channels -> [Nicks -> Sigils]]
  BY <1>1, <1>2, Zenon
<1>5. /\ y.bans \in [Channels -> {"unloaded", "empty", "set"}]
      /\ y.accounts \in [Nicks -> Accounts \cup {"forgotten", "known"}]
  BY <1>1, <1>2, Zenon
<1>6. ASSUME NEW c \in Channels \ y.chans
      PROVE  y.users[c] = Nobody /\ y.bans[c] = "unloaded"
  BY <1>1, <1>2, <1>6
<1>7. /\ y.transaction.kind \in {"none", "names", "who", "bans"}
      /\ y.transaction.kind = "names" =>
           y.transaction.items \subseteq Nicks \X {"", "@"}
  BY <1>1
<1> QED
  BY <1>3, <1>4, <1>5, <1>6, <1>7, Zenon DEF ViewOK

\* A burst of items is gathered in order.
LEMMA PathGather ==
  ASSUME NEW x, ViewOK(x), x.transaction = Idle, NEW kind \in {"names", "who", "bans"},
         NEW r \in Seq(Msgs), Len(r) > 0, NEW item,
         AddItems(r, kind, item), ItemsType(r, kind, item),
         NEW G
  PROVE  Path(x, r, Gathered(x, kind, FirstItems(item, Len(r))), G)
<1> DEFINE g(k) == Gathered(x, kind, FirstItems(item, k))
           w == [k \in Nat |-> IF k = 0 THEN x ELSE g(k)]
<1>1. Len(r) \in Nat
  BY LenProperties
<1> HIDE DEF g
<1>2. w[0] = x /\ \A k \in Nat \ {0} : w[k] = g(k)
  OBVIOUS
<1> HIDE DEF w
<1>3. ASSUME NEW k \in 0 .. Len(r)
      PROVE  /\ w[k].nick = x.nick /\ w[k].chans = x.chans /\ w[k].users = x.users
             /\ w[k].bans = x.bans /\ w[k].accounts = x.accounts
             /\ ItemsOf(w[k], kind) = FirstItems(item, k)
  <2>1. CASE k = 0
    <3>1. ItemsOf(x, kind) = {}
      BY IdleOK DEF ItemsOf
    <3> QED
      BY <1>2, <2>1, <3>1, FirstItemsNext
  <2>2. CASE k # 0
    <3>1. w[k] = Gathered(x, kind, FirstItems(item, k))
      BY <1>1, <1>2, <2>2 DEF g
    <3> QED
      BY <3>1, GatheredParts
  <2> QED
    BY <2>1, <2>2
<1>4. \A k \in 1 .. Len(r) : /\ k - 1 \in 0 .. Len(r) /\ k \in 0 .. Len(r)
                             /\ k \in Nat \ {0}
  BY <1>1
<1>5. ASSUME NEW k \in 1 .. Len(r)
      PROVE  w[k] = Read(w[k - 1], r[k])
  <2>1. Read(w[k - 1], r[k]) = ReadItem(w[k - 1], kind, item[k])
    BY DEF AddItems
  <2>2. ItemsOf(w[k - 1], kind) \cup {item[k]} = FirstItems(item, k)
    BY <1>3, <1>4, FirstItemsNext
  <2>3. /\ w[k - 1].nick = x.nick /\ w[k - 1].chans = x.chans
        /\ w[k - 1].users = x.users /\ w[k - 1].bans = x.bans
        /\ w[k - 1].accounts = x.accounts
    BY <1>3, <1>4
  <2>4. ReadItem(w[k - 1], kind, item[k]) = Gathered(x, kind, FirstItems(item, k))
    BY <2>2, <2>3, Zenon DEF ReadItem, Gathered
  <2>5. w[k] = g(k)
    BY <1>2, <1>4
  <2> QED
    BY <2>1, <2>4, <2>5 DEF g
<1>6. ASSUME NEW k \in 0 .. Len(r)
      PROVE  ViewOK(w[k])
  <2>1. CASE k = 0
    BY <1>2, <2>1
  <2>2. CASE k # 0
    <3>1. w[k] = Gathered(x, kind, FirstItems(item, k))
      BY <1>1, <1>2, <2>2 DEF g
    <3>2. kind = "names" => FirstItems(item, k) \subseteq Nicks \X {"", "@"}
      <4>1. \A i \in 1 .. k : i \in 1 .. Len(r)
        BY <1>1
      <4> QED
        BY <4>1 DEF ItemsType, FirstItems
    <3> QED
      BY <3>1, <3>2, GatheredOK
  <2> QED
    BY <2>1, <2>2
<1>7. Reads(w, r)
  BY <1>5, <1>6 DEF Reads
<1>8. Tells(w, r, G)
  <2>1. ASSUME NEW k \in 1 .. Len(r), NEW c
        PROVE  OpIn(w[k], c) <=> OpIn(w[k - 1], c)
    BY <1>3, <1>4 DEF OpIn
  <2> QED
    BY <2>1 DEF Tells
<1>9. w[Len(r)] = g(Len(r))
  BY <1>1, <1>2
<1> QED
  BY <1>2, <1>7, <1>8, <1>9 DEF Path, g

(***************************************************************************)
(* What the three kinds of step do to the steps under way.                 *)
(***************************************************************************)

\* A MODE that was asked for is still to be answered, or answered in r, or
\* the client is off the channel by then.
StillAsked(s, t, r, y) ==
  \A c \in Channels :
    AsksModes(s, c) => AsksModes(t, c) \/ TellsModes(r, 1, c) \/ c \notin y.chans

\* The server sends r: y is the view behind it.
LEMMA ExtendRun ==
  ASSUME NEW q \in Seq(Msgs), NEW r \in Seq(Msgs), NEW s, NEW t, NEW queued, NEW v,
         Reads(v, q), Gains(v, q, s), Held(v, q, s, queued),
         NEW y, Path(v[Len(q)], r, y, v[Len(q)].chans),
         StillAsked(s, t, r, y)
  PROVE  \E u : /\ u[0] = v[0] /\ u[Len(q \o r)] = y
                /\ Reads(u, q \o r) /\ Gains(u, q \o r, t) /\ Held(u, q \o r, t, queued)
<1>1. PICK w : /\ w[0] = v[Len(q)] /\ w[Len(r)] = y
               /\ Reads(w, r) /\ Tells(w, r, v[Len(q)].chans)
  BY DEF Path
<1> DEFINE u == Joined(v, q, w)
<1>2. Len(q) \in Nat /\ Len(r) \in Nat /\ Len(q \o r) = Len(q) + Len(r)
  BY LenProperties, Appended
<1>3. /\ \A k \in 0 .. Len(q) : u[k] = v[k]
      /\ \A k \in 0 .. Len(r) : u[Len(q) + k] = w[k]
      /\ u[0] = v[0] /\ u[Len(q \o r)] = w[Len(r)]
  BY <1>1, JoinedSteps
<1>4. Reads(u, q \o r)
  BY <1>1, JoinedReads
<1> HIDE DEF u
<1>5. ASSUME NEW c \in Channels, NEW k \in 0 .. Len(q), Awaits(v, q, s, k, c)
      PROVE  Awaits(u, q \o r, t, k, c)
  <2>1. CASE AsksModes(s, c)
    <3>1. CASE AsksModes(t, c)
      BY <3>1 DEF Awaits
    <3>2. CASE TellsModes(r, 1, c)
      <4>1. PICK j \in 1 .. Len(r) : r[j].type = "channelmodeis" /\ r[j].c = c
        BY <3>2 DEF TellsModes
      <4>2. Len(q) + j \in k + 1 .. Len(q \o r) /\ (q \o r)[Len(q) + j] = r[j]
        BY <1>2, Appended
      <4> QED
        BY <4>1, <4>2 DEF TellsModes, Awaits
    <3>3. CASE c \notin y.chans
      <4>1. Len(q \o r) \in k .. Len(q \o r)
        BY <1>2
      <4> QED
        BY <1>1, <1>3, <3>3, <4>1 DEF Awaits
    <3> QED
      BY <2>1, <3>1, <3>2, <3>3 DEF StillAsked
  <2>2. CASE TellsModes(q, k + 1, c)
    <3>1. PICK j \in k + 1 .. Len(q) : q[j].type = "channelmodeis" /\ q[j].c = c
      BY <2>2 DEF TellsModes
    <3>2. j \in 1 .. Len(q) /\ j \in k + 1 .. Len(q \o r)
      BY <1>2
    <3>3. (q \o r)[j] = q[j]
      BY <3>2, Appended
    <3> QED
      BY <3>1, <3>2, <3>3 DEF TellsModes, Awaits
  <2>3. CASE \E j \in k .. Len(q) : c \notin v[j].chans
    <3>1. PICK j \in k .. Len(q) : c \notin v[j].chans
      BY <2>3
    <3>2. j \in 0 .. Len(q) /\ j \in k .. Len(q \o r)
      BY <1>2
    <3>3. u[j] = v[j]
      BY <1>3, <3>2
    <3> QED
      BY <3>1, <3>2, <3>3 DEF Awaits
  <2> QED
    BY <1>5, <2>1, <2>2, <2>3 DEF Awaits
<1>6. ASSUME NEW c \in Channels, NEW k \in 1 .. Len(q \o r),
             OpIn(u[k], c), ~OpIn(u[k - 1], c)
      PROVE  \/ (q \o r)[k].type = "op" /\ (q \o r)[k].c = c
             \/ \E j \in 0 .. k - 1 : c \notin u[j].chans
             \/ Awaits(u, q \o r, t, k, c)
  <2>1. CASE k =< Len(q)
    <3>1. k \in 1 .. Len(q) /\ k - 1 \in 0 .. Len(q) /\ k \in 0 .. Len(q)
      BY <1>2, <2>1
    <3>2. u[k] = v[k] /\ u[k - 1] = v[k - 1] /\ (q \o r)[k] = q[k]
      BY <1>3, <3>1, Appended
    <3>3. \A j \in 0 .. k - 1 : u[j] = v[j]
      BY <1>2, <1>3, <3>1
    <3>4. \/ q[k].type = "op" /\ q[k].c = c
          \/ \E j \in 0 .. k - 1 : c \notin v[j].chans
          \/ Awaits(v, q, s, k, c)
      BY <1>6, <3>1, <3>2 DEF Gains
    <3> QED
      BY <1>5, <3>1, <3>2, <3>3, <3>4
  <2>2. CASE k > Len(q)
    <3> DEFINE i == k - Len(q)
    <3>1. /\ i \in 1 .. Len(r) /\ i - 1 \in 0 .. Len(r) /\ i \in 0 .. Len(r)
          /\ Len(q) + i = k /\ Len(q) + (i - 1) = k - 1
          /\ Len(q) \in 0 .. k - 1 /\ Len(q) \in 0 .. Len(q)
      BY <1>2, <2>2
    <3> HIDE DEF i
    <3>2. u[k] = w[i] /\ u[k - 1] = w[i - 1] /\ u[Len(q)] = v[Len(q)]
      BY <1>3, <3>1
    <3>3. (q \o r)[k] = r[i]
      BY <3>1, Appended
    <3>4. CASE c \in v[Len(q)].chans
      BY <1>1, <1>6, <3>1, <3>2, <3>3, <3>4 DEF Tells
    <3>5. CASE c \notin v[Len(q)].chans
      BY <3>1, <3>2, <3>5
    <3> QED
      BY <3>4, <3>5
  <2> QED
    BY <1>2, <2>1, <2>2
<1>7. Gains(u, q \o r, t)
  BY <1>6 DEF Gains
<1>8. Held(u, q \o r, t, queued)
  <2>1. 0 \in 0 .. Len(q)
    BY <1>2
  <2> QED
    BY <1>3, <1>5, <2>1 DEF Held
<1> QED
  BY <1>1, <1>3, <1>4, <1>7, <1>8

\* The client reads the first message and sends e: queued2 is its queue then.
Shifts(v, q, e, queued, queued2) ==
  /\ \A c \in Channels :
       queued2[c] # << >> => queued[c] # << >> /\ c \in v[0].chans
  /\ \A c \in Channels : c \in v[1].chans \ v[0].chans => AsksModes(e, c)
  /\ \A c \in Channels :
       q[1].type \in {"op", "channelmodeis"} /\ q[1].c = c /\ OpIn(v[1], c) =>
         queued2[c] = << >>

\* The client reads the oldest message and sends e.
LEMMA ShiftRun ==
  ASSUME NEW q \in Seq(Msgs), q # << >>, NEW s \in Seq(Cmds), NEW e \in Seq(Cmds),
         NEW queued, NEW queued2, NEW v,
         Reads(v, q), Gains(v, q, s), Held(v, q, s, queued),
         Shifts(v, q, e, queued, queued2)
  PROVE  \E u : /\ u[0] = v[1] /\ u[Len(Tail(q))] = v[Len(q)]
                /\ Reads(u, Tail(q)) /\ Gains(u, Tail(q), s \o e)
                /\ Held(u, Tail(q), s \o e, queued2)
<1> DEFINE u == [k \in Nat |-> v[k + 1]]
           p == Tail(q)
           t == s \o e
<1>1. /\ Len(q) \in Nat /\ Len(q) > 0 /\ Len(p) = Len(q) - 1
      /\ \A k \in 1 .. Len(p) : p[k] = q[k + 1]
  BY Taken
<1>2. \A k \in Nat : u[k] = v[k + 1]
  OBVIOUS
<1> HIDE DEF u, p
<1>3. Reads(u, p)
  <2>1. ASSUME NEW k \in 0 .. Len(p)
        PROVE  ViewOK(u[k])
    <3>1. k + 1 \in 0 .. Len(q) /\ k \in Nat
      BY <1>1
    <3> QED
      BY <1>2, <3>1 DEF Reads
  <2>2. ASSUME NEW k \in 1 .. Len(p)
        PROVE  u[k] = Read(u[k - 1], p[k])
    <3>1. /\ k + 1 \in 1 .. Len(q) /\ k \in Nat /\ k - 1 \in Nat
          /\ (k - 1) + 1 = k /\ (k + 1) - 1 = k
      BY <1>1
    <3>2. u[k] = v[k + 1] /\ u[k - 1] = v[k] /\ p[k] = q[k + 1]
      BY <1>1, <1>2, <3>1
    <3>3. v[k + 1] = Read(v[(k + 1) - 1], q[k + 1])
      BY <3>1 DEF Reads
    <3> QED
      BY <3>1, <3>2, <3>3
  <2> QED
    BY <2>1, <2>2 DEF Reads
<1>4. ASSUME NEW c, AsksModes(s, c) \/ AsksModes(e, c)
      PROVE  AsksModes(t, c)
  <2>1. /\ Len(s) \in Nat /\ Len(e) \in Nat /\ Len(t) = Len(s) + Len(e)
        /\ \A i \in 1 .. Len(s) : t[i] = s[i]
        /\ \A i \in 1 .. Len(e) : t[Len(s) + i] = e[i]
    BY Appended, LenProperties
  <2> HIDE DEF t
  <2>2. CASE AsksModes(s, c)
    BY <2>1, <2>2 DEF AsksModes
  <2>3. CASE AsksModes(e, c)
    <3>1. PICK i \in 1 .. Len(e) : e[i].type = "mode" /\ e[i].c = c
      BY <2>3 DEF AsksModes
    <3>2. Len(s) + i \in 1 .. Len(t) /\ t[Len(s) + i] = e[i]
      BY <2>1
    <3> QED
      BY <3>1, <3>2 DEF AsksModes
  <2> QED
    BY <1>4, <2>2, <2>3
<1> HIDE DEF t
<1>5. ASSUME NEW c, NEW k \in 0 .. Len(p), Awaits(v, q, s, k + 1, c)
      PROVE  Awaits(u, p, t, k, c)
  <2>1. CASE AsksModes(s, c)
    BY <1>4, <2>1 DEF Awaits
  <2>2. CASE TellsModes(q, k + 2, c)
    <3>1. PICK j \in k + 2 .. Len(q) : q[j].type = "channelmodeis" /\ q[j].c = c
      BY <2>2 DEF TellsModes
    <3>2. j - 1 \in k + 1 .. Len(p) /\ j - 1 \in 1 .. Len(p) /\ (j - 1) + 1 = j
      BY <1>1
    <3>3. p[j - 1] = q[j]
      BY <1>1, <3>2
    <3> QED
      BY <3>1, <3>2, <3>3 DEF TellsModes, Awaits
  <2>3. CASE \E j \in k + 1 .. Len(q) : c \notin v[j].chans
    <3>1. PICK j \in k + 1 .. Len(q) : c \notin v[j].chans
      BY <2>3
    <3>2. j - 1 \in k .. Len(p) /\ j - 1 \in Nat /\ (j - 1) + 1 = j
      BY <1>1
    <3>3. u[j - 1] = v[j]
      BY <1>2, <3>2
    <3> QED
      BY <3>1, <3>2, <3>3 DEF Awaits
  <2>4. (k + 1) + 1 = k + 2
    OBVIOUS
  <2> QED
    BY <1>5, <2>1, <2>2, <2>3, <2>4 DEF Awaits
<1>6. ASSUME NEW c \in Channels, NEW k \in 1 .. Len(p),
             OpIn(u[k], c), ~OpIn(u[k - 1], c)
      PROVE  \/ p[k].type = "op" /\ p[k].c = c
             \/ \E j \in 0 .. k - 1 : c \notin u[j].chans
             \/ Awaits(u, p, t, k, c)
  <2>1. /\ k + 1 \in 1 .. Len(q) /\ k \in Nat /\ k - 1 \in Nat /\ k \in 0 .. Len(p)
        /\ (k - 1) + 1 = k /\ (k + 1) - 1 = k
    BY <1>1
  <2>2. u[k] = v[k + 1] /\ u[k - 1] = v[k] /\ p[k] = q[k + 1]
    BY <1>1, <1>2, <2>1
  <2>3. \/ q[k + 1].type = "op" /\ q[k + 1].c = c
        \/ \E j \in 0 .. k : c \notin v[j].chans
        \/ Awaits(v, q, s, k + 1, c)
    BY <1>6, <2>1, <2>2 DEF Gains
  <2>4. CASE \E j \in 0 .. k : c \notin v[j].chans
    <3>1. PICK j \in 0 .. k : c \notin v[j].chans
      BY <2>4
    <3>2. CASE j > 0
      <4>1. j - 1 \in 0 .. k - 1 /\ j - 1 \in Nat /\ (j - 1) + 1 = j
        BY <2>1, <3>2
      <4>2. u[j - 1] = v[j]
        BY <1>2, <4>1
      <4> QED
        BY <3>1, <4>1, <4>2
    <3>3. CASE j = 0 /\ c \notin v[1].chans
      <4>1. 0 \in 0 .. k - 1 /\ u[0] = v[1]
        BY <1>2, <2>1
      <4> QED
        BY <3>3, <4>1
    <3>4. CASE j = 0 /\ c \in v[1].chans
      <4>1. AsksModes(t, c)
        BY <1>4, <3>1, <3>4 DEF Shifts
      <4> QED
        BY <4>1 DEF Awaits
    <3> QED
      BY <2>1, <3>2, <3>3, <3>4
  <2> QED
    BY <1>5, <2>1, <2>2, <2>3, <2>4
<1>7. Gains(u, p, t)
  BY <1>6 DEF Gains
<1>8. ASSUME NEW c \in Channels, queued2[c] # << >>, OpIn(u[0], c)
      PROVE  Awaits(u, p, t, 0, c)
  <2>1. /\ 0 \in 0 .. Len(p) /\ 1 \in 1 .. Len(q) /\ u[0] = v[1]
        /\ 0 + 1 = 1 /\ 1 - 1 = 0 /\ 1 + 1 = 2 /\ 0 .. 0 = {0}
    BY <1>1, <1>2
  <2>2. queued[c] # << >> /\ c \in v[0].chans
    BY <1>8 DEF Shifts
  <2>3. ~(q[1].type \in {"op", "channelmodeis"} /\ q[1].c = c)
    BY <1>8, <2>1 DEF Shifts
  <2>4. CASE OpIn(v[0], c)
    <3>1. Awaits(v, q, s, 0, c)
      BY <2>2, <2>4 DEF Held
    <3>2. TellsModes(q, 1, c) => TellsModes(q, 2, c)
      BY <1>1, <2>3 DEF TellsModes
    <3>3. (\E j \in 0 .. Len(q) : c \notin v[j].chans) =>
            \E j \in 1 .. Len(q) : c \notin v[j].chans
      BY <1>1, <2>2
    <3>4. Awaits(v, q, s, 1, c)
      BY <2>1, <3>1, <3>2, <3>3 DEF Awaits
    <3> QED
      BY <1>5, <2>1, <3>4
  <2>5. CASE ~OpIn(v[0], c)
    <3>1. \/ q[1].type = "op" /\ q[1].c = c
          \/ \E j \in 0 .. 0 : c \notin v[j].chans
          \/ Awaits(v, q, s, 1, c)
      BY <1>8, <2>1, <2>5 DEF Gains
    <3>2. Awaits(v, q, s, 1, c)
      BY <2>1, <2>2, <2>3, <3>1
    <3> QED
      BY <1>5, <2>1, <3>2
  <2> QED
    BY <2>4, <2>5
<1>9. Held(u, p, t, queued2)
  BY <1>8 DEF Held
<1>10. u[0] = v[1] /\ u[Len(p)] = v[Len(q)]
  <2>1. Len(p) \in Nat /\ Len(p) + 1 = Len(q) /\ 0 + 1 = 1
    BY <1>1
  <2> QED
    BY <1>2, <2>1
<1> QED
  BY <1>3, <1>7, <1>9, <1>10 DEF p, t

\* The user sends e, and queues only where there is no op.
LEMMA UserRun ==
  ASSUME NEW q \in Seq(Msgs), NEW s \in Seq(Cmds), NEW e \in Seq(Cmds),
         NEW queued, NEW queued2, NEW v,
         Gains(v, q, s), Held(v, q, s, queued),
         \A c \in Channels : OpIn(v[0], c) => queued2[c] = queued[c]
  PROVE  Gains(v, q, s \o e) /\ Held(v, q, s \o e, queued2)
<1> DEFINE t == s \o e
<1>1. ASSUME NEW c, AsksModes(s, c)
      PROVE  AsksModes(t, c)
  <2>1. /\ Len(s) \in Nat /\ Len(e) \in Nat /\ Len(t) = Len(s) + Len(e)
        /\ \A i \in 1 .. Len(s) : t[i] = s[i]
    BY Appended, LenProperties
  <2> HIDE DEF t
  <2> QED
    BY <1>1, <2>1 DEF AsksModes
<1> HIDE DEF t
<1>2. \A k, c : Awaits(v, q, s, k, c) => Awaits(v, q, t, k, c)
  BY <1>1 DEF Awaits
<1>3. Gains(v, q, t)
  BY <1>2 DEF Gains
<1>4. Held(v, q, t, queued2)
  BY <1>2 DEF Held
<1> QED
  BY <1>3, <1>4 DEF t

(***************************************************************************)
(* The bursts of replies.                                                  *)
(***************************************************************************)

\* SetToSeq puts the elements of a finite set in a sequence.
LEMMA Enumerated ==
  ASSUME NEW S, IsFiniteSet(S)
  PROVE  /\ SetToSeq(S) \in Seq(S)
         /\ \A i \in 1 .. Len(SetToSeq(S)) : SetToSeq(S)[i] \in S
         /\ \A e \in S : \E i \in 1 .. Len(SetToSeq(S)) : SetToSeq(S)[i] = e
<1> DEFINE n == Cardinality(S)
           r == SetToSeq(S)
<1>1. n \in Nat /\ ExistsBijection(1 .. n, S)
  BY FS_CardinalityType
<1>2. \E f \in [1 .. n -> S] : IsInjective(f)
  BY <1>1 DEF ExistsBijection, Bijection, Injection
<1>3. r \in [1 .. n -> S] /\ IsInjective(r)
  BY <1>2 DEF SetToSeq
<1> HIDE DEF r
<1>4. r \in Injection(1 .. n, S)
  BY <1>3 DEF Injection
<1>5. Cardinality(1 .. n) = n
  BY <1>1, FS_Interval
<1>6. r \in Surjection(1 .. n, S)
  BY <1>4, <1>5, FS_Injection
<1>7. \A t \in S : \E i \in 1 .. n : r[i] = t
  BY <1>6 DEF Surjection
<1> HIDE DEF n
<1>8. r \in Seq(S) /\ Len(r) = n
  BY <1>1, <1>3
<1> QED
  BY <1>3, <1>7, <1>8 DEF r

\* The image of a finite set is finite.
Image(M, f) == {f[n] : n \in M}

\* The values of a function on a finite set are finitely many.
LEMMA FiniteImage ==
  ASSUME NEW M, IsFiniteSet(M), NEW T, NEW f \in [M -> T]
  PROVE  IsFiniteSet(Image(M, f))
<1>1. f \in Surjection(M, Image(M, f))
  BY DEF Surjection, Image
<1> QED
  BY <1>1, FS_Surjection

\* z is x but for the items of a transaction.
Collects(x, z, kind, items) ==
  /\ ViewOK(z)
  /\ z.nick = x.nick /\ z.chans = x.chans /\ z.users = x.users
  /\ z.bans = x.bans /\ z.accounts = x.accounts
  /\ ItemsOf(z, kind) = items

\* Messages that add items, none or more: z is what the client knows then.
LEMMA PathItems ==
  ASSUME NEW x, ViewOK(x), x.transaction = Idle, NEW kind \in {"names", "who", "bans"},
         NEW r \in Seq(Msgs), NEW item, AddItems(r, kind, item), ItemsType(r, kind, item),
         NEW G
  PROVE  \E z : Path(x, r, z, G) /\ Collects(x, z, kind, FirstItems(item, Len(r)))
<1>1. CASE r = << >>
  <2>1. Path(x, r, x, G)
    BY <1>1, PathNone
  <2>2. ItemsOf(x, kind) = {}
    BY IdleOK DEF ItemsOf
  <2>3. FirstItems(item, Len(r)) = {}
    BY <1>1 DEF FirstItems
  <2>4. Collects(x, x, kind, FirstItems(item, Len(r)))
    BY <2>2, <2>3 DEF Collects
  <2> QED
    BY <2>1, <2>4
<1>2. CASE r # << >>
  <2> DEFINE E == FirstItems(item, Len(r))
             z == Gathered(x, kind, E)
  <2>1. Len(r) > 0
    BY <1>2, EmptySeq
  <2>2. Path(x, r, z, G)
    BY <2>1, PathGather
  <2>3. kind = "names" => E \subseteq Nicks \X {"", "@"}
    BY DEF ItemsType, FirstItems
  <2> HIDE DEF E
  <2>4. ViewOK(z)
    BY <2>3, GatheredOK
  <2>5. /\ z.nick = x.nick /\ z.chans = x.chans /\ z.users = x.users
        /\ z.bans = x.bans /\ z.accounts = x.accounts /\ ItemsOf(z, kind) = E
    BY GatheredParts
  <2> HIDE DEF z
  <2>6. Collects(x, z, kind, E)
    BY <2>4, <2>5 DEF Collects
  <2> QED
    BY <2>2, <2>6 DEF E
<1> QED
  BY <1>1, <1>2

\* A burst with one message for each nickname of M, in any order.
Distinct(M, f) == \A n, k \in M : f[n] = f[k] => n = k
NamesOK(M, h, kind) == kind = "names" => \A n \in M : h[n] \in Nicks \X {"", "@"}
ReadsAs(M, f, h, kind) ==
  \A n \in M : \A z : Read(z, f[n]) = ReadItem(z, kind, h[n])

\* A burst with one message for each member of M, in any order.
LEMMA PathBurst ==
  ASSUME NEW x, ViewOK(x), x.transaction = Idle, NEW kind \in {"names", "who", "bans"},
         NEW M, IsFiniteSet(M), NEW f \in [M -> Msgs], NEW h,
         Distinct(M, f), ReadsAs(M, f, h, kind),
         NamesOK(M, h, kind), NEW L, L = SetToSeq(Image(M, f)), NEW G
  PROVE  /\ L \in Seq(Msgs)
         /\ \E z : Path(x, L, z, G) /\ Collects(x, z, kind, Image(M, h))
<1> DEFINE who(i) == CHOOSE n \in M : f[n] = L[i]
           item == [i \in 1 .. Len(L) |-> h[who(i)]]
<1>6. \A i \in 1 .. Len(L) : item[i] = h[who(i)]
  OBVIOUS
<1> HIDE DEF who, item
<1>1. IsFiniteSet(Image(M, f))
  BY FiniteImage
<1>2. /\ L \in Seq(Image(M, f))
      /\ \A i \in 1 .. Len(L) : L[i] \in Image(M, f)
      /\ \A e \in Image(M, f) : \E i \in 1 .. Len(L) : L[i] = e
  BY <1>1, Enumerated
<1>3. Image(M, f) \subseteq Msgs
  BY DEF Image
<1>4. L \in Seq(Msgs) /\ Len(L) \in Nat
  BY <1>2, <1>3, SeqMonotonic, LenProperties
<1>5. ASSUME NEW i \in 1 .. Len(L)
      PROVE  who(i) \in M /\ f[who(i)] = L[i]
  <2>1. L[i] \in Image(M, f)
    BY <1>2
  <2>2. \E n \in M : f[n] = L[i]
    BY <2>1 DEF Image
  <2> QED
    BY <2>2 DEF who
<1>7. AddItems(L, kind, item)
  <2>1. ASSUME NEW i \in 1 .. Len(L), NEW z
        PROVE  Read(z, L[i]) = ReadItem(z, kind, item[i])
    <3>1. Read(z, f[who(i)]) = ReadItem(z, kind, h[who(i)])
      BY <1>5 DEF ReadsAs
    <3> QED
      BY <1>5, <1>6, <3>1
  <2> QED
    BY <2>1 DEF AddItems
<1>8. ItemsType(L, kind, item)
  BY <1>5, <1>6 DEF ItemsType, NamesOK
<1>9. FirstItems(item, Len(L)) = Image(M, h)
  <2>1. ASSUME NEW i \in 1 .. Len(L)
        PROVE  item[i] \in Image(M, h)
    BY <1>5, <1>6 DEF Image
  <2>2. ASSUME NEW n \in M
        PROVE  \E i \in 1 .. Len(L) : item[i] = h[n]
    <3>1. f[n] \in Image(M, f)
      BY DEF Image
    <3>2. PICK i \in 1 .. Len(L) : L[i] = f[n]
      BY <1>2, <3>1
    <3>3. who(i) = n
      BY <1>5, <3>2 DEF Distinct
    <3> QED
      BY <1>6, <3>3
  <2> QED
    BY <2>1, <2>2 DEF FirstItems, Image
<1>10. \E z : Path(x, L, z, G) /\ Collects(x, z, kind, FirstItems(item, Len(L)))
  BY <1>4, <1>7, <1>8, PathItems
<1> QED
  BY <1>4, <1>9, <1>10

\* A view is Knowing of its parts.
LEMMA KnowingParts ==
  ASSUME NEW a1, NEW a2, NEW a3, NEW a4, NEW a5, NEW a6, NEW y,
         y = Knowing(a1, a2, a3, a4, a5, a6)
  PROVE  /\ y.nick = a1 /\ y.chans = a2 /\ y.users = a3 /\ y.bans = a4
         /\ y.accounts = a5 /\ y.transaction = a6
  BY DEF Knowing

\* NAMES lists exactly the users of the channel.
LEMMA ListedAll ==
  ASSUME NEW sigils \in [Nicks -> Sigils],
         NEW E, E = {<<n, sigils[n]>> : n \in {m \in Nicks : sigils[m] # "-"}}
  PROVE  Listed(E) = sigils
<1>1. ASSUME NEW n \in Nicks
      PROVE  (CHOOSE s \in Sigils : IF \E e \in E : e[1] = n THEN <<n, s>> \in E
                                    ELSE s = "-") = sigils[n]
  <2>1. CASE sigils[n] # "-"
    <3>1. <<n, sigils[n]>> \in E
      BY <2>1
    <3>3. \E e \in E : e[1] = n
      <4>1. <<n, sigils[n]>>[1] = n
        OBVIOUS
      <4> QED
        BY <3>1, <4>1, Zenon
    <3>2. \A s : <<n, s>> \in E <=> s = sigils[n]
      BY <2>1
    <3> QED
      BY <3>1, <3>2, <3>3
  <2>2. CASE sigils[n] = "-"
    <3>1. ~\E e \in E : e[1] = n
      BY <2>2
    <3> QED
      BY <2>2, <3>1
  <2> QED
    BY <2>1, <2>2
<1>2. Listed(E) = [n \in Nicks |-> sigils[n]]
  BY <1>1 DEF Listed
<1> QED
  BY <1>2

\* The messages of NAMES and of WHO.
Present == {"", "@"}
NamReplyOf(c, n, sigil) == [type |-> "namreply", c |-> c, n |-> n, sigil |-> sigil]
WhoReplyOf(n) == [type |-> "whoreply", n |-> n]

\* A message of the type, with its fields.
LEMMA NamReplyFields ==
  ASSUME NEW c \in Channels, NEW n \in Nicks, NEW sigil \in Present,
         NEW m, m = NamReplyOf(c, n, sigil)
  PROVE  m \in Msgs /\ m.type = "namreply" /\ m.n = n /\ m.sigil = sigil
<1>1. m \in [type : {"op", "namreply"}, c : Channels, n : Nicks, sigil : {"", "@"}]
  BY DEF NamReplyOf, Present
<1>2. m \in Msgs
  BY <1>1, Zenon DEF Msgs
<1> QED
  BY <1>2 DEF NamReplyOf

\* A message of the type, with its fields.
LEMMA WhoReplyFields ==
  ASSUME NEW n \in Nicks, NEW m, m = WhoReplyOf(n)
  PROVE  m \in Msgs /\ m.type = "whoreply" /\ m.n = n
<1>1. m \in [type : {"whoreply"}, n : Nicks]
  BY DEF WhoReplyOf
<1>2. m \in Msgs
  BY <1>1, Zenon DEF Msgs
<1> QED
  BY <1>2 DEF WhoReplyOf

\* The replies of NAMES are the channel's users, each with its sigil.
NamReplies(c, sigils) ==
  SetToSeq({NamReplyOf(c, n, sigils[n]) : n \in {m \in Nicks : sigils[m] # "-"}})

\* All of them are gathered.
LEMMA PathNamReplies ==
  ASSUME NEW x, ViewOK(x), x.transaction = Idle, NEW c \in Channels,
         NEW sigils \in [Nicks -> Sigils], NEW M, M = {n \in Nicks : sigils[n] # "-"},
         IsFiniteSet(M), NEW G
  PROVE  /\ NamReplies(c, sigils) \in Seq(Msgs)
         /\ \E z : Path(x, NamReplies(c, sigils), z, G) /\ Collects(x, z, "names", {<<n, sigils[n]>> : n \in M})
<1> DEFINE f == [n \in M |-> NamReplyOf(c, n, sigils[n])]
           h == [n \in M |-> <<n, sigils[n]>>]
<1>1. ASSUME NEW n \in M
      PROVE  /\ <<n, sigils[n]>> \in Nicks \X {"", "@"}
             /\ f[n] = NamReplyOf(c, n, sigils[n]) /\ h[n] = <<n, sigils[n]>>
             /\ f[n] \in Msgs /\ f[n].type = "namreply"
             /\ f[n].n = n /\ f[n].sigil = sigils[n]
  <2>1. n \in Nicks /\ sigils[n] \in {"", "@"}
    BY DEF Sigils
  <2>2. f[n] = NamReplyOf(c, n, sigils[n]) /\ h[n] = <<n, sigils[n]>>
    OBVIOUS
  <2> HIDE DEF f, h
  <2>3. /\ f[n] \in Msgs /\ f[n].type = "namreply"
        /\ f[n].n = n /\ f[n].sigil = sigils[n]
    <3>1. n \in Nicks /\ sigils[n] \in Present
      BY <2>1 DEF Present
    <3> QED
      BY <2>2, <3>1, NamReplyFields
  <2>4. <<n, sigils[n]>> \in Nicks \X {"", "@"}
    BY <2>1
  <2> QED
    BY <2>2, <2>3, <2>4
<1>3. f \in [M -> Msgs]
  <2>1. \A n \in M : f[n] \in Msgs
    BY <1>1
  <2>2. f = [n \in M |-> f[n]]
    OBVIOUS
  <2> HIDE DEF f
  <2> QED
    BY <2>1, <2>2
<1>4. NamReplies(c, sigils) = SetToSeq(Image(M, f))
  <2>1. {NamReplyOf(c, n, sigils[n]) : n \in M} = Image(M, f)
    BY DEF Image
  <2> QED
    BY <2>1 DEF NamReplies
<1>5. Image(M, h) = {<<n, sigils[n]>> : n \in M}
  BY DEF Image
<1> HIDE DEF f, h
<1>6. Distinct(M, f)
  <2>1. \A n \in M : f[n].n = n
    BY <1>1
  <2> QED
    BY <2>1 DEF Distinct
<1>7. ReadsAs(M, f, h, "names")
  <2>1. ASSUME NEW n \in M, NEW z
        PROVE  Read(z, f[n]) = ReadItem(z, "names", h[n])
    <3>1. Read(z, f[n]) = ReadItem(z, "names", <<f[n].n, f[n].sigil>>)
      <4>1. f[n].type = "namreply"
        BY <1>1
      <4> QED
        BY <4>1, ReadCases
    <3>2. f[n].n = n /\ f[n].sigil = sigils[n] /\ h[n] = <<n, sigils[n]>>
      BY <1>1
    <3> QED
      BY <3>1, <3>2, Zenon
  <2> QED
    BY <2>1 DEF ReadsAs
<1>8. NamesOK(M, h, "names")
  <2>1. ASSUME NEW n \in M
        PROVE  h[n] \in Nicks \X {"", "@"}
    <3>1. h[n] = <<n, sigils[n]>>
      BY <1>1, Zenon
    <3>2. <<n, sigils[n]>> \in Nicks \X {"", "@"}
      BY <1>1, Zenon
    <3> QED
      BY <3>1, <3>2, Zenon
  <2> QED
    BY <2>1, Zenon DEF NamesOK
<1>9. /\ NamReplies(c, sigils) \in Seq(Msgs)
      /\ \E z : Path(x, NamReplies(c, sigils), z, G)
                /\ Collects(x, z, "names", Image(M, h))
  BY <1>3, <1>4, <1>6, <1>7, <1>8, PathBurst, Zenon
<1> QED
  BY <1>5, <1>9

\* The burst of NAMES: the channel's users are those of the server.
LEMMA PathNames ==
  ASSUME NEW x, ViewOK(x), x.transaction = Idle, NEW c \in Channels,
         NEW sigils \in [Nicks -> Sigils], NEW M, M = {n \in Nicks : sigils[n] # "-"},
         IsFiniteSet(M), NEW G \in SUBSET Channels,
         c \in G \cap x.chans => x.users[c] = sigils
  PROVE  /\ Names(c, sigils) \in Seq(Msgs)
         /\ Path(x, Names(c, sigils),
                 Knowing(x.nick, x.chans,
                         IF c \notin x.chans THEN x.users
                         ELSE [x.users EXCEPT ![c] = sigils],
                         x.bans, Learned(x, M), Idle), G)
<1> DEFINE E == {<<n, sigils[n]>> : n \in M}
           end == [type |-> "endofnames", c |-> c]
           users == IF c \notin x.chans THEN x.users ELSE [x.users EXCEPT ![c] = sigils]
           y == Knowing(x.nick, x.chans, users, x.bans, Learned(x, M), Idle)
<1>1. Names(c, sigils) = NamReplies(c, sigils) \o <<end>>
  BY Zenon DEF Names, NamReplies, NamReplyOf
<1>2. end \in Msgs /\ end.type = "endofnames" /\ end.c = c /\ <<end>> \in Seq(Msgs)
  <2>1. end \in [type : {"endofnames", "endofbanlist", "channelmodeis"}, c : Channels]
    OBVIOUS
  <2>2. end \in Msgs
    BY <2>1, Zenon DEF Msgs
  <2> QED
    BY <2>2
<1>3. Listed(E) = sigils
  BY ListedAll
<1>4. {e[1] : e \in E} = M
  <2>1. \A n \in M : <<n, sigils[n]>>[1] = n /\ <<n, sigils[n]>> \in E
    OBVIOUS
  <2>2. \A e \in E : e[1] \in M
    OBVIOUS
  <2> HIDE DEF E
  <2>3. M \subseteq {e[1] : e \in E}
    BY <2>1, Zenon
  <2>4. {e[1] : e \in E} \subseteq M
    BY <2>2, Zenon
  <2> QED
    BY <2>3, <2>4
<1>5. NamReplies(c, sigils) \in Seq(Msgs)
  BY PathNamReplies
<1>6. PICK z : Path(x, NamReplies(c, sigils), z, G) /\ Collects(x, z, "names", E)
  BY PathNamReplies
<1>7. ASSUME NEW k \in G
      PROVE  users[k] = x.users[k]
  <2>1. x.users \in [Channels -> [Nicks -> Sigils]] /\ k \in Channels
    BY ViewTypes
  <2> QED
    BY <2>1
<1> HIDE DEF E, end, users
<1>8. Learned(z, M) = Learned(x, M)
  BY <1>6 DEF Learned, Collects
<1>9. y = Read(z, end)
  <2>1. Read(z, end) = ReadEndOfNames(z, end)
    BY <1>2, ReadCases
  <2>2. ReadEndOfNames(z, end) = y
    BY <1>2, <1>3, <1>4, <1>6, <1>8 DEF ReadEndOfNames, users, Collects
  <2> QED
    BY <2>1, <2>2
<1>10. ASSUME NEW k \in G
       PROVE  OpIn(y, k) <=> OpIn(z, k)
  <2>1. y.nick = x.nick /\ y.users = users
    BY KnowingParts
  <2> HIDE DEF y
  <2> QED
    BY <1>6, <1>7, <2>1 DEF OpIn, Collects
<1> HIDE DEF y
<1>11. Path(z, <<end>>, y, G)
  BY <1>2, <1>6, <1>9, <1>10, PathOne DEF Collects
<1>12. Path(x, NamReplies(c, sigils) \o <<end>>, y, G)
  BY <1>2, <1>5, <1>6, <1>11, PathCat
<1>13. NamReplies(c, sigils) \o <<end>> \in Seq(Msgs)
  BY <1>2, <1>5, Appended
<1> QED
  BY <1>1, <1>12, <1>13 DEF y, users

\* The burst of WHO: of users we see, one that is not recorded becomes known.
WhoReplies(M) == SetToSeq({WhoReplyOf(n) : n \in M})

\* All of them are gathered.
LEMMA PathWhoReplies ==
  ASSUME NEW x, ViewOK(x), x.transaction = Idle, NEW M \in SUBSET Nicks,
         IsFiniteSet(M), NEW G
  PROVE  /\ WhoReplies(M) \in Seq(Msgs)
         /\ \E z : Path(x, WhoReplies(M), z, G) /\ Collects(x, z, "who", M)
<1> DEFINE f == [n \in M |-> WhoReplyOf(n)]
           h == [n \in M |-> n]
<1>1. ASSUME NEW n \in M
      PROVE  /\ f[n] = WhoReplyOf(n) /\ h[n] = n /\ f[n] \in Msgs
             /\ f[n].type = "whoreply" /\ f[n].n = n
  <2>1. f[n] = WhoReplyOf(n) /\ h[n] = n
    OBVIOUS
  <2> HIDE DEF f, h
  <2> QED
    BY <2>1, WhoReplyFields
<1>3. f \in [M -> Msgs]
  <2>1. \A n \in M : f[n] \in Msgs
    BY <1>1
  <2>2. f = [n \in M |-> f[n]]
    OBVIOUS
  <2> HIDE DEF f
  <2> QED
    BY <2>1, <2>2
<1>4. WhoReplies(M) = SetToSeq(Image(M, f))
  <2>1. {WhoReplyOf(n) : n \in M} = Image(M, f)
    BY DEF Image
  <2> QED
    BY <2>1 DEF WhoReplies
<1>5. Image(M, h) = M
  BY DEF Image
<1> HIDE DEF f, h
<1>6. Distinct(M, f)
  <2>1. \A n \in M : f[n].n = n
    BY <1>1
  <2> QED
    BY <2>1 DEF Distinct
<1>7. ReadsAs(M, f, h, "who")
  <2>1. ASSUME NEW n \in M, NEW z
        PROVE  Read(z, f[n]) = ReadItem(z, "who", h[n])
    <3>1. Read(z, f[n]) = ReadItem(z, "who", f[n].n)
      <4>1. f[n].type = "whoreply"
        BY <1>1
      <4> QED
        BY <4>1, ReadCases
    <3>2. f[n].n = n /\ h[n] = n
      BY <1>1
    <3> QED
      BY <3>1, <3>2, Zenon
  <2> QED
    BY <2>1 DEF ReadsAs
<1>8. NamesOK(M, h, "who")
  BY DEF NamesOK
<1>9. /\ WhoReplies(M) \in Seq(Msgs)
      /\ \E z : Path(x, WhoReplies(M), z, G) /\ Collects(x, z, "who", Image(M, h))
  BY <1>3, <1>4, <1>6, <1>7, <1>8, PathBurst, Zenon
<1> QED
  BY <1>5, <1>9

\* WHO leaves those on our channels with an entry.
LEMMA PathWho ==
  ASSUME NEW x, ViewOK(x), x.transaction = Idle, NEW M \in SUBSET Nicks,
         IsFiniteSet(M), NEW G
  PROVE  /\ WhoReplies(M) \o <<[type |-> "endofwho"]>> \in Seq(Msgs)
         /\ Path(x, WhoReplies(M) \o <<[type |-> "endofwho"]>>,
                 Knowing(x.nick, x.chans, x.users, x.bans,
                         Learned(x, {n \in M : Seen(n, x.users)}), Idle), G)
<1> DEFINE end == [type |-> "endofwho"]
           y == Knowing(x.nick, x.chans, x.users, x.bans,
                        Learned(x, {n \in M : Seen(n, x.users)}), Idle)
<1>1. end \in Msgs /\ end.type = "endofwho" /\ <<end>> \in Seq(Msgs)
  <2>1. end \in [type : {"endofwho", "banlist"}]
    OBVIOUS
  <2>2. end \in Msgs
    BY <2>1, Zenon DEF Msgs
  <2> QED
    BY <2>2
<1>2. WhoReplies(M) \in Seq(Msgs)
  BY PathWhoReplies
<1>3. PICK z : Path(x, WhoReplies(M), z, G) /\ Collects(x, z, "who", M)
  BY PathWhoReplies
<1> HIDE DEF end
<1>4. y = Read(z, end)
  <2>1. Read(z, end) = ReadEndOfWho(z)
    BY <1>1, ReadCases
  <2>2. ReadEndOfWho(z) = y
    BY <1>3 DEF ReadEndOfWho, Collects, Learned
  <2> QED
    BY <2>1, <2>2
<1>5. ASSUME NEW k \in G
      PROVE  OpIn(y, k) <=> OpIn(z, k)
  <2>1. y.nick = x.nick /\ y.users = x.users
    BY KnowingParts
  <2> HIDE DEF y
  <2> QED
    BY <1>3, <2>1 DEF OpIn, Collects
<1> HIDE DEF y
<1>6. Path(z, <<end>>, y, G)
  BY <1>1, <1>3, <1>4, <1>5, PathOne DEF Collects
<1>7. Path(x, WhoReplies(M) \o <<end>>, y, G)
  BY <1>1, <1>2, <1>3, <1>6, PathCat
<1>8. WhoReplies(M) \o <<end>> \in Seq(Msgs)
  BY <1>1, <1>2, Appended
<1> QED
  BY <1>7, <1>8 DEF y, end

\* The burst of the ban list: the list is loaded.
BanReplies(c, set) ==
  (IF set THEN <<[type |-> "banlist"]>> ELSE << >>)
    \o <<[type |-> "endofbanlist", c |-> c]>>

\* The ban list is loaded, of a channel we are on.
LEMMA PathBans ==
  ASSUME NEW x, ViewOK(x), x.transaction = Idle, NEW c \in Channels,
         NEW set \in BOOLEAN, NEW G
  PROVE  /\ BanReplies(c, set) \in Seq(Msgs)
         /\ Path(x, BanReplies(c, set),
                 Knowing(x.nick, x.chans, x.users,
                         IF c \notin x.chans THEN x.bans
                         ELSE [x.bans EXCEPT ![c] = IF set THEN "set" ELSE "empty"],
                         x.accounts, Idle), G)
<1> DEFINE end == [type |-> "endofbanlist", c |-> c]
           item == [type |-> "banlist"]
           L == IF set THEN <<item>> ELSE << >>
           bans == IF c \notin x.chans THEN x.bans
                   ELSE [x.bans EXCEPT ![c] = IF set THEN "set" ELSE "empty"]
           y == Knowing(x.nick, x.chans, x.users, bans, x.accounts, Idle)
<1>1. end \in Msgs /\ end.type = "endofbanlist" /\ end.c = c /\ <<end>> \in Seq(Msgs)
  <2>1. end \in [type : {"endofnames", "endofbanlist", "channelmodeis"}, c : Channels]
    OBVIOUS
  <2>2. end \in Msgs
    BY <2>1, Zenon DEF Msgs
  <2> QED
    BY <2>2
<1>2. item \in Msgs /\ item.type = "banlist"
  <2>1. item \in [type : {"endofwho", "banlist"}]
    OBVIOUS
  <2>2. item \in Msgs
    BY <2>1, Zenon DEF Msgs
  <2> QED
    BY <2>2
<1>3. L \in Seq(Msgs)
  BY <1>2
<1>4. BanReplies(c, set) = L \o <<end>>
  BY DEF BanReplies
<1> HIDE DEF end, item
<1>5. \E z : Path(x, L, z, G) /\ Collects(x, z, "bans", IF set THEN {"mask"} ELSE {})
  <2>1. CASE ~set
    <3>1. Path(x, L, x, G)
      BY <2>1, PathNone
    <3>2. ItemsOf(x, "bans") = {}
      BY IdleOK DEF ItemsOf
    <3> QED
      BY <2>1, <3>1, <3>2 DEF Collects
  <2>2. CASE set
    <3> DEFINE z == ReadItem(x, "bans", "mask")
    <3>1. z = Read(x, item)
      BY <1>2, ReadCases
    <3>2. /\ z.nick = x.nick /\ z.chans = x.chans /\ z.users = x.users
          /\ z.bans = x.bans /\ z.accounts = x.accounts
      BY DEF ReadItem, Knowing
    <3>3. ItemsOf(z, "bans") = {"mask"}
      <4>1. ItemsOf(x, "bans") = {}
        BY IdleOK DEF ItemsOf
      <4>2. z.transaction = [kind |-> "bans", items |-> {} \cup {"mask"}]
        BY <4>1 DEF ReadItem, Knowing
      <4> HIDE DEF z
      <4> QED
        BY <4>2 DEF ItemsOf
    <3>4. ViewOK(z)
      BY <1>2, <3>1, ReadOK
    <3> HIDE DEF z
    <3>5. Path(x, <<item>>, z, G)
      BY <1>2, <3>1, <3>2, PathOne DEF OpIn
    <3>6. Collects(x, z, "bans", {"mask"})
      BY <3>2, <3>3, <3>4 DEF Collects
    <3> QED
      BY <2>2, <3>5, <3>6
  <2> QED
    BY <2>1, <2>2
<1>6. PICK z : Path(x, L, z, G) /\ Collects(x, z, "bans", IF set THEN {"mask"} ELSE {})
  BY <1>5
<1> HIDE DEF L
<1>7. y = Read(z, end)
  <2>1. Read(z, end) = ReadEndOfBans(z, end)
    BY <1>1, ReadCases
  <2>2. ItemsOf(z, "bans") = {} <=> ~set
    BY <1>6 DEF Collects
  <2>3. ReadEndOfBans(z, end) = y
    BY <1>1, <1>6, <2>2 DEF ReadEndOfBans, Collects
  <2> QED
    BY <2>1, <2>3
<1>8. ASSUME NEW k \in G
      PROVE  OpIn(y, k) <=> OpIn(z, k)
  <2>1. y.nick = x.nick /\ y.users = x.users
    BY KnowingParts
  <2> HIDE DEF y
  <2> QED
    BY <1>6, <2>1 DEF OpIn, Collects
<1> HIDE DEF y
<1>9. Path(z, <<end>>, y, G)
  BY <1>1, <1>6, <1>7, <1>8, PathOne DEF Collects
<1>10. Path(x, L \o <<end>>, y, G)
  BY <1>1, <1>3, <1>6, <1>9, PathCat
<1>11. L \o <<end>> \in Seq(Msgs)
  BY <1>1, <1>3, Appended
<1> QED
  BY <1>4, <1>10, <1>11 DEF y

(***************************************************************************)
(* The client's steps: each reads the oldest message as Read does.         *)
(***************************************************************************)
Queue == Seq([type : Moderations, c : Channels, n : Nicks])

Stepped ==
  /\ toClient # << >> /\ toClient' = Tail(toClient) /\ UNCHANGED srvVars
  /\ View' = Read(View, msg)
  /\ \E e \in Seq(Cmds) :
       /\ toServer' = toServer \o e
       /\ \A c \in csChannels' \ csChannels : AsksModes(e, c)
  /\ chanQueued' \in [Channels -> Queue]
  /\ \A c \in Channels : chanQueued'[c] # << >> =>
                           chanQueued'[c] = chanQueued[c] /\ c \in csChannels'
  /\ \A c \in Channels :
       msg.type \in {"op", "channelmodeis"} /\ msg.c = c /\ OpIn(View', c) =>
         chanQueued'[c] = << >>

\* What the client knows, and the message it reads, have their types.
ClientOK ==
  /\ ViewOK(View)
  /\ toServer \in Seq(Cmds)
  /\ chanQueued \in [Channels -> Queue]
  /\ \A c \in Channels \ csChannels : chanQueued[c] = << >>
  /\ toClient # << >> => msg \in Msgs

\* The view by the variable.
LEMMA ViewParts ==
  /\ View.nick = csNick /\ View.chans = csChannels /\ View.users = chanUsers
  /\ View.bans = chanBans /\ View.accounts = csUsers
  /\ View.transaction = csTransaction
  BY DEF View, Knowing

\* A step that sends nothing and leaves the queues and channels alone.
LEMMA QuietStep ==
  ASSUME ClientOK, toClient # << >>, toClient' = Tail(toClient), UNCHANGED srvVars,
         View' = Read(View, msg), msg.type \notin {"op", "channelmodeis"},
         toServer' = toServer, chanQueued' = chanQueued, csChannels' = csChannels
  PROVE  Stepped
<1>1. << >> \in Seq(Cmds) /\ toServer' = toServer \o << >>
  BY ConcatEmptySeq DEF ClientOK
<1>2. \E e \in Seq(Cmds) : /\ toServer' = toServer \o e
                           /\ \A c \in csChannels' \ csChannels : AsksModes(e, c)
  BY <1>1
<1>3. chanQueued' \in [Channels -> Queue]
  BY DEF ClientOK
<1>4. \A c \in Channels : chanQueued'[c] # << >> =>
                            chanQueued'[c] = chanQueued[c] /\ c \in csChannels'
  BY DEF ClientOK
<1> QED
  BY <1>2, <1>3, <1>4 DEF Stepped

\* A step of the client reads the oldest message.
LEMMA JoinSteps ==
  ASSUME ClientOK, Join
  PROVE  Stepped
<1>1. toClient # << >> /\ toClient' = Tail(toClient) /\ UNCHANGED srvVars /\ msg.type = "join"
  BY DEF Join, Receive
<1>2. msg.c \in Channels /\ msg.n \in Nicks
  BY <1>1, MsgFields DEF ClientOK
<1>3. View' = Read(View, msg)
  <2>1. Read(View, msg) = ReadJoin(View, msg)
    BY <1>1, ReadCases
  <2>2. View' = ReadJoin(View, msg)
    BY DEF Join, View, ReadJoin, Knowing
  <2> QED
    BY <2>1, <2>2
<1>4. \E e \in Seq(Cmds) : /\ toServer' = toServer \o e
                           /\ \A c \in csChannels' \ csChannels : AsksModes(e, c)
  <2>1. CASE msg.n = csNick
    <3> DEFINE cmd == [type |-> "mode", c |-> msg.c]
    <3>1. cmd \in Cmds
      <4>1. cmd \in [type : Queries \cup {"mode", "op"}, c : Channels]
        BY <1>2
      <4> QED
        BY <4>1, Zenon DEF Cmds
    <3>2. <<cmd>> \in Seq(Cmds) /\ toServer' = toServer \o <<cmd>>
      <4>1. toServer' = toServer \o <<cmd>>
        BY <2>1 DEF Join, SendMsg
      <4> HIDE DEF cmd
      <4> QED
        BY <3>1, <4>1
    <3>3. csChannels' \ csChannels \subseteq {msg.c}
      BY <2>1 DEF Join
    <3>4. AsksModes(<<cmd>>, msg.c)
      <4>1. Len(<<cmd>>) = 1 /\ <<cmd>>[1] = cmd /\ cmd.type = "mode" /\ cmd.c = msg.c
        OBVIOUS
      <4>2. 1 \in 1 .. 1
        OBVIOUS
      <4> QED
        BY <4>1, <4>2 DEF AsksModes
    <3> HIDE DEF cmd
    <3> QED
      BY <3>2, <3>3, <3>4
  <2>2. CASE msg.n # csNick
    <3>1. << >> \in Seq(Cmds) /\ toServer' = toServer \o << >>
      <4>1. toServer' = toServer \o << >>
        BY <2>2 DEF Join, SendMsg
      <4> QED
        BY <4>1
    <3>2. csChannels' = csChannels
      BY <2>2 DEF Join
    <3> QED
      BY <3>1, <3>2
  <2> QED
    BY <2>1, <2>2
<1>5. chanQueued' = IF msg.n = csNick THEN [chanQueued EXCEPT ![msg.c] = << >>]
                    ELSE chanQueued
  BY DEF Join
<1>6. csChannels \subseteq csChannels'
  BY DEF Join
<1>7. /\ chanQueued \in [Channels -> Queue] /\ << >> \in Queue
      /\ \A c \in Channels : chanQueued[c] # << >> => c \in csChannels
  <2>1. << >> \in Queue
    BY DEF Queue
  <2> QED
    BY <2>1 DEF ClientOK
<1>8. chanQueued' \in [Channels -> Queue]
  BY <1>2, <1>5, <1>7
<1>9. \A c \in Channels : chanQueued'[c] # << >> =>
                            chanQueued'[c] = chanQueued[c] /\ c \in csChannels'
  BY <1>2, <1>5, <1>6, <1>7
<1> QED
  BY <1>1, <1>3, <1>4, <1>8, <1>9 DEF Stepped

\* A step of the client reads the oldest message.
LEMMA ExitChannelSteps ==
  ASSUME ClientOK, ExitChannel
  PROVE  Stepped
<1>1. toClient # << >> /\ toClient' = Tail(toClient) /\ UNCHANGED srvVars /\ msg.type = "leave"
  BY DEF ExitChannel, Receive
<1>2. msg.c \in Channels /\ msg.n \in Nicks
  BY <1>1, MsgFields DEF ClientOK
<1>3. View' = Read(View, msg)
  <2>1. Read(View, msg) = ReadLeave(View, msg)
    BY <1>1, ReadCases
  <2>2. chanUsers' = Left(View, msg)
    BY ViewParts DEF ExitChannel, Left
  <2>3. View' = ReadLeave(View, msg)
    BY <2>2, ViewParts DEF ExitChannel, View, ReadLeave, Knowing
  <2> QED
    BY <2>1, <2>3
<1>4. \E e \in Seq(Cmds) : /\ toServer' = toServer \o e
                           /\ \A c \in csChannels' \ csChannels : AsksModes(e, c)
  <2>1. << >> \in Seq(Cmds) /\ toServer' = toServer \o << >>
    BY ConcatEmptySeq DEF ClientOK, ExitChannel
  <2>2. csChannels' \ csChannels = {}
    BY DEF ExitChannel
  <2> QED
    BY <2>1, <2>2
<1>5. chanQueued' = IF msg.n = csNick THEN [chanQueued EXCEPT ![msg.c] = << >>]
                    ELSE chanQueued
  BY DEF ExitChannel
<1>6. csChannels' = IF msg.n = csNick THEN csChannels \ {msg.c} ELSE csChannels
  BY DEF ExitChannel
<1>7. /\ chanQueued \in [Channels -> Queue] /\ << >> \in Queue
      /\ \A c \in Channels : chanQueued[c] # << >> => c \in csChannels
  <2>1. << >> \in Queue
    BY DEF Queue
  <2> QED
    BY <2>1 DEF ClientOK
<1>8. chanQueued' \in [Channels -> Queue]
  BY <1>2, <1>5, <1>7
<1>9. \A c \in Channels : chanQueued'[c] # << >> =>
                            chanQueued'[c] = chanQueued[c] /\ c \in csChannels'
  BY <1>2, <1>5, <1>6, <1>7
<1> QED
  BY <1>1, <1>3, <1>4, <1>8, <1>9 DEF Stepped

\* A step of the client reads the oldest message.
LEMMA QuitSteps ==
  ASSUME ClientOK, Quit
  PROVE  Stepped
<1>1. toClient # << >> /\ toClient' = Tail(toClient) /\ UNCHANGED srvVars /\ msg.type = "quit"
  BY DEF Quit, Receive
<1>2. Read(View, msg) = ReadQuit(View, msg)
  BY <1>1, ReadCases
<1>3. View' = ReadQuit(View, msg)
  BY DEF Quit, View, ReadQuit, Knowing
<1>4. toServer' = toServer /\ chanQueued' = chanQueued /\ csChannels' = csChannels
  BY DEF Quit
<1> QED
  BY <1>1, <1>2, <1>3, <1>4, QuietStep

\* A step of the client reads the oldest message.
LEMMA NickSteps ==
  ASSUME ClientOK, Nick
  PROVE  Stepped
<1>1. toClient # << >> /\ toClient' = Tail(toClient) /\ UNCHANGED srvVars /\ msg.type = "nick"
  BY DEF Nick, Receive
<1>2. Read(View, msg) = ReadNick(View, msg)
  BY <1>1, ReadCases
<1>3. View' = ReadNick(View, msg)
  BY DEF Nick, View, ReadNick, Knowing
<1>4. toServer' = toServer /\ chanQueued' = chanQueued /\ csChannels' = csChannels
  BY DEF Nick
<1> QED
  BY <1>1, <1>2, <1>3, <1>4, QuietStep

\* A step of the client reads the oldest message.
LEMMA RecordUserSteps ==
  ASSUME ClientOK, RecordUser
  PROVE  Stepped
<1>1. /\ toClient # << >> /\ toClient' = Tail(toClient) /\ UNCHANGED srvVars
      /\ msg.type = "account"
  BY DEF RecordUser, Receive
<1>2. Read(View, msg) = ReadAccount(View, msg)
  BY <1>1, ReadCases
<1>3. View' = ReadAccount(View, msg)
  BY DEF RecordUser, View, ReadAccount, Knowing
<1>4. toServer' = toServer /\ chanQueued' = chanQueued /\ csChannels' = csChannels
  BY DEF RecordUser
<1> QED
  BY <1>1, <1>2, <1>3, <1>4, QuietStep

\* The items of the open transaction are those of the view.
LEMMA ItemsAreItemsOf ==
  ASSUME NEW kind
  PROVE  Items(kind) = ItemsOf(View, kind)
  BY ViewParts DEF Items, ItemsOf

\* A step of the client reads the oldest message.
LEMMA GatherSteps ==
  ASSUME ClientOK, NEW type, NEW kind, NEW item, Gather(type, kind, item),
         type \notin {"op", "channelmodeis"},
         Read(View, msg) = ReadItem(View, kind, item)
  PROVE  Stepped
<1>1. /\ toClient # << >> /\ toClient' = Tail(toClient) /\ UNCHANGED srvVars
      /\ msg.type = type
  BY DEF Gather, Receive
<1>2. View' = ReadItem(View, kind, item)
  <2>1. csTransaction' = [kind |-> kind, items |-> ItemsOf(View, kind) \cup {item}]
    BY ItemsAreItemsOf DEF Gather
  <2>2. UNCHANGED <<csNick, csChannels, chanUsers, chanBans, csUsers>>
    BY DEF Gather
  <2> QED
    BY <2>1, <2>2, ViewParts DEF View, ReadItem, Knowing
<1>3. toServer' = toServer /\ chanQueued' = chanQueued /\ csChannels' = csChannels
  BY DEF Gather
<1> QED
  BY <1>1, <1>2, <1>3, QuietStep

\* A step of the client reads the oldest message.
LEMMA RepliesSteps ==
  ASSUME ClientOK, NamReply \/ WhoReply \/ BanList
  PROVE  Stepped
<1>1. CASE NamReply
  <2>1. msg.type = "namreply" /\ Gather("namreply", "names", <<msg.n, msg.sigil>>)
    BY <1>1 DEF NamReply
  <2>2. Read(View, msg) = ReadItem(View, "names", <<msg.n, msg.sigil>>)
    BY <2>1, ReadCases
  <2> QED
    BY <2>1, <2>2, GatherSteps
<1>2. CASE WhoReply
  <2>1. msg.type = "whoreply" /\ Gather("whoreply", "who", msg.n)
    BY <1>2 DEF WhoReply
  <2>2. Read(View, msg) = ReadItem(View, "who", msg.n)
    BY <2>1, ReadCases
  <2> QED
    BY <2>1, <2>2, GatherSteps
<1>3. CASE BanList
  <2>1. msg.type = "banlist" /\ Gather("banlist", "bans", "mask")
    BY <1>3 DEF BanList, Gather, Receive
  <2>2. Read(View, msg) = ReadItem(View, "bans", "mask")
    BY <2>1, ReadCases
  <2> QED
    BY <2>1, <2>2, GatherSteps
<1> QED
  BY <1>1, <1>2, <1>3

\* A step of the client reads the oldest message.
LEMMA LoadNamesListSteps ==
  ASSUME ClientOK, LoadNamesList
  PROVE  Stepped
<1>1. /\ toClient # << >> /\ toClient' = Tail(toClient) /\ UNCHANGED srvVars
      /\ msg.type = "endofnames"
  BY DEF LoadNamesList, Receive
<1>2. Read(View, msg) = ReadEndOfNames(View, msg)
  BY <1>1, ReadCases
<1>3. View' = ReadEndOfNames(View, msg)
  <2> DEFINE entries == ItemsOf(View, "names")
  <2>1. entries = Items("names")
    BY ItemsAreItemsOf
  <2>2. chanUsers' = IF msg.c \notin csChannels THEN chanUsers
                     ELSE [chanUsers EXCEPT ![msg.c] = Listed(entries)]
    <3>1. chanUsers' = IF msg.c \notin csChannels THEN chanUsers
                       ELSE [chanUsers EXCEPT ![msg.c] = Listed(Items("names"))]
      BY Zenon DEF LoadNamesList, Listed, Sigils
    <3> HIDE DEF entries
    <3> QED
      BY <2>1, <3>1
  <2>3. csUsers' = Learned(View, {e[1] : e \in entries})
    BY <2>1, ViewParts DEF LoadNamesList, Learn, Learned
  <2>4. UNCHANGED <<csNick, csChannels, chanBans>> /\ csTransaction' = Idle
    BY DEF LoadNamesList
  <2> HIDE DEF entries
  <2>5. View' = Knowing(csNick, csChannels, chanUsers', chanBans, csUsers', Idle)
    BY <2>4 DEF View
  <2> QED
    BY <2>2, <2>3, <2>5, ViewParts DEF ReadEndOfNames, entries
<1>4. toServer' = toServer /\ chanQueued' = chanQueued /\ csChannels' = csChannels
  BY DEF LoadNamesList
<1> QED
  BY <1>1, <1>2, <1>3, <1>4, QuietStep

\* A step of the client reads the oldest message.
LEMMA MassRegistrationSteps ==
  ASSUME ClientOK, MassRegistration
  PROVE  Stepped
<1>1. /\ toClient # << >> /\ toClient' = Tail(toClient) /\ UNCHANGED srvVars
      /\ msg.type = "endofwho"
  BY DEF MassRegistration, Receive
<1>2. Read(View, msg) = ReadEndOfWho(View)
  BY <1>1, ReadCases
<1>3. View' = ReadEndOfWho(View)
  <2>1. csUsers' = Learned(View, {n \in ItemsOf(View, "who") : Seen(n, View.users)})
    BY ItemsAreItemsOf, ViewParts DEF MassRegistration, Learn, Learned
  <2>2. UNCHANGED <<csNick, csChannels, chanUsers, chanBans>> /\ csTransaction' = Idle
    BY DEF MassRegistration
  <2>3. View' = Knowing(csNick, csChannels, chanUsers, chanBans, csUsers', Idle)
    BY <2>2 DEF View
  <2> QED
    BY <2>1, <2>3, ViewParts DEF ReadEndOfWho
<1>4. toServer' = toServer /\ chanQueued' = chanQueued /\ csChannels' = csChannels
  BY DEF MassRegistration
<1> QED
  BY <1>1, <1>2, <1>3, <1>4, QuietStep

\* A step of the client reads the oldest message.
LEMMA SaveListSteps ==
  ASSUME ClientOK, SaveList
  PROVE  Stepped
<1>1. /\ toClient # << >> /\ toClient' = Tail(toClient) /\ UNCHANGED srvVars
      /\ msg.type = "endofbanlist"
  BY DEF SaveList, Receive
<1>2. Read(View, msg) = ReadEndOfBans(View, msg)
  BY <1>1, ReadCases
<1>3. View' = ReadEndOfBans(View, msg)
  <2>1. chanBans' = IF msg.c \notin csChannels THEN chanBans
                    ELSE [chanBans EXCEPT ![msg.c] =
                            IF ItemsOf(View, "bans") = {} THEN "empty" ELSE "set"]
    BY ItemsAreItemsOf DEF SaveList
  <2>2. UNCHANGED <<csNick, csChannels, chanUsers, csUsers>> /\ csTransaction' = Idle
    BY DEF SaveList
  <2>3. View' = Knowing(csNick, csChannels, chanUsers, chanBans', csUsers, Idle)
    BY <2>2 DEF View
  <2> QED
    BY <2>1, <2>3, ViewParts DEF ReadEndOfBans
<1>4. toServer' = toServer /\ chanQueued' = chanQueued /\ csChannels' = csChannels
  BY DEF SaveList
<1> QED
  BY <1>1, <1>2, <1>3, <1>4, QuietStep

\* A step of the client reads the oldest message.
LEMMA DoModeSteps ==
  ASSUME ClientOK, DoMode
  PROVE  Stepped
<1>1. /\ toClient # << >> /\ toClient' = Tail(toClient) /\ UNCHANGED srvVars
      /\ msg.type \in {"op", "ban", "channelmodeis"}
  BY DEF DoMode, Receive
<1>2. msg.c \in Channels
  BY <1>1, MsgFields DEF ClientOK
<1>3. UNCHANGED <<csNick, csChannels, csUsers, csTransaction>>
  BY DEF DoMode
<1>4. View' = Read(View, msg)
  <2>0. View' = Knowing(csNick, csChannels, chanUsers', chanBans', csUsers, csTransaction)
    BY <1>3 DEF View
  <2>1. CASE msg.type = "op"
    <3>1. Read(View, msg) = ReadOp(View, msg)
      BY <2>1, ReadCases
    <3>2. /\ chanBans' = chanBans
          /\ chanUsers' = IF chanUsers[msg.c][msg.n] = "-" THEN chanUsers
                          ELSE [chanUsers EXCEPT ![msg.c][msg.n] = msg.sigil]
      BY <2>1 DEF DoMode, Receive
    <3> QED
      BY <2>0, <3>1, <3>2, ViewParts DEF ReadOp
  <2>2. CASE msg.type = "ban"
    <3>1. Read(View, msg) = ReadBan(View, msg)
      BY <2>2, ReadCases
    <3>2. /\ chanUsers' = chanUsers
          /\ chanBans' = [chanBans EXCEPT ![msg.c] =
                             ListMode(chanBans[msg.c], msg.polarity)]
      BY <2>2 DEF DoMode, Receive
    <3> QED
      BY <2>0, <3>1, <3>2, ViewParts DEF ReadBan
  <2>3. CASE msg.type = "channelmodeis"
    <3>1. Read(View, msg) = View
      BY <2>3, ReadCases
    <3>2. chanUsers' = chanUsers /\ chanBans' = chanBans
      BY <2>3 DEF DoMode, Receive
    <3> QED
      BY <2>0, <3>1, <3>2 DEF View
  <2> QED
    BY <1>1, <2>1, <2>2, <2>3
<1>5. OpIn(View', msg.c) <=> chanUsers'[msg.c][csNick] = "@"
  <2>1. View'.users = chanUsers' /\ View'.nick = csNick
    BY <1>3 DEF View, Knowing
  <2> QED
    BY <2>1 DEF OpIn
<1>6. /\ chanQueued \in [Channels -> Queue] /\ << >> \in Queue
      /\ \A c \in Channels : chanQueued[c] # << >> => c \in csChannels
  <2>1. << >> \in Queue
    BY DEF Queue
  <2> QED
    BY <2>1 DEF ClientOK
<1>7. CASE chanUsers'[msg.c][csNick] = "@"
  <2>1. /\ toServer' = toServer \o chanQueued[msg.c]
        /\ chanQueued' = [chanQueued EXCEPT ![msg.c] = << >>]
    BY <1>7 DEF DoMode, Flush, SendMsg
  <2>2. chanQueued[msg.c] \in Seq(Cmds)
    <3>1. [type : Moderations, c : Channels, n : Nicks] \subseteq Cmds
      BY DEF Cmds
    <3>2. chanQueued[msg.c] \in Seq([type : Moderations, c : Channels, n : Nicks])
      BY <1>2, <1>6 DEF Queue
    <3> QED
      BY <3>1, <3>2, SeqMonotonic
  <2>3. \E e \in Seq(Cmds) : /\ toServer' = toServer \o e
                             /\ \A c \in csChannels' \ csChannels : AsksModes(e, c)
    BY <1>3, <2>1, <2>2
  <2>4. chanQueued' \in [Channels -> Queue]
    BY <1>2, <1>6, <2>1
  <2>5. chanQueued'[msg.c] = << >>
    BY <1>2, <1>6, <2>1
  <2>6. \A c \in Channels : chanQueued'[c] # << >> =>
                              chanQueued'[c] = chanQueued[c] /\ c \in csChannels'
    BY <1>2, <1>3, <1>6, <2>1
  <2> QED
    BY <1>1, <1>4, <2>3, <2>4, <2>5, <2>6 DEF Stepped
<1>8. CASE chanUsers'[msg.c][csNick] # "@"
  <2>1. toServer' = toServer /\ chanQueued' = chanQueued
    BY <1>8 DEF DoMode, Flush
  <2>2. << >> \in Seq(Cmds) /\ toServer' = toServer \o << >>
    BY <2>1, ConcatEmptySeq DEF ClientOK
  <2>3. \E e \in Seq(Cmds) : /\ toServer' = toServer \o e
                             /\ \A c \in csChannels' \ csChannels : AsksModes(e, c)
    BY <1>3, <2>2
  <2>4. chanQueued' \in [Channels -> Queue]
    BY <1>6, <2>1
  <2>5. \A c \in Channels : chanQueued'[c] # << >> =>
                              chanQueued'[c] = chanQueued[c] /\ c \in csChannels'
    BY <1>3, <1>6, <2>1
  <2>6. ~OpIn(View', msg.c)
    BY <1>5, <1>8
  <2> QED
    BY <1>1, <1>4, <2>3, <2>4, <2>5, <2>6 DEF Stepped
<1> QED
  BY <1>7, <1>8

\* A step of the client reads the oldest message.
LEMMA ApplyMessageSteps ==
  ASSUME ClientOK, ApplyMessage
  PROVE  Stepped
BY JoinSteps, ExitChannelSteps, QuitSteps, NickSteps, RecordUserSteps, RepliesSteps,
   LoadNamesListSteps, MassRegistrationSteps, SaveListSteps, DoModeSteps
   DEF ApplyMessage

\* The invariant gives what the client's steps need.
LEMMA InvClientOK ==
  ASSUME Inv
  PROVE  ClientOK
<1>1. PICK v : Runs(v)
  BY DEF Inv
<1>2. toClient \in Seq(Msgs) /\ toServer \in Seq(Cmds)
  BY DEF Inv, WireInv
<1>3. ViewOK(View)
  <2>1. 0 \in 0 .. Len(toClient)
    BY <1>2, LenProperties
  <2>2. v[0] = View /\ ViewOK(v[0])
    BY <1>1, <2>1 DEF Runs, Reads
  <2> QED
    BY <2>2
<1>4. toClient # << >> => msg \in Msgs
  BY <1>2, Taken DEF msg
<1>5. /\ chanQueued \in [Channels -> Queue]
      /\ \A c \in Channels \ csChannels : chanQueued[c] = << >>
  BY DEF Inv, QueueInv, Queue
<1> QED
  BY <1>2, <1>3, <1>4, <1>5 DEF ClientOK

\* What the server knows is not the client's to change.
LEMMA AgreesSame ==
  ASSUME NEW x, UNCHANGED srvVars, Agrees(x)
  PROVE  Agrees(x)'
BY DEF Agrees, RosterAgrees, AccountsAgree, BansAgree, srvVars, On

\* The server's part depends on the server alone.
LEMMA SrvInvSame ==
  ASSUME SrvInv, UNCHANGED srvVars
  PROVE  SrvInv'
BY DEF SrvInv, srvVars, Online, On

\* The client's steps keep the invariant.
LEMMA SteppedKeepsInv ==
  ASSUME Inv, Stepped
  PROVE  Inv'
<1>1. toClient \in Seq(Msgs) /\ toServer \in Seq(Cmds)
  BY DEF Inv, WireInv
<1>2. /\ toClient # << >> /\ toClient' = Tail(toClient) /\ UNCHANGED srvVars
      /\ View' = Read(View, msg)
  BY DEF Stepped
<1>3. PICK e \in Seq(Cmds) : /\ toServer' = toServer \o e
                             /\ \A c \in csChannels' \ csChannels : AsksModes(e, c)
  BY DEF Stepped
<1>4. PICK v : Runs(v)
  BY DEF Inv
<1>5. v[0] = View /\ v[0].chans = csChannels
  BY <1>4, ViewParts DEF Runs
<1>6. v[1] = View' /\ v[1].chans = csChannels'
  <2>1. 1 \in 1 .. Len(toClient) /\ 1 - 1 = 0 /\ toClient[1] = msg
    BY <1>1, <1>2, Taken DEF msg
  <2>2. v[1] = Read(v[1 - 1], toClient[1])
    BY <1>4, <2>1 DEF Runs, Reads
  <2>3. View'.chans = csChannels'
    BY DEF View, Knowing
  <2> QED
    BY <1>2, <1>5, <2>1, <2>2, <2>3
<1>7. \A c \in Channels :
        chanQueued'[c] # << >> => chanQueued[c] # << >> /\ c \in v[0].chans
  BY <1>5 DEF Stepped, Inv, QueueInv
<1>8. \A c \in Channels : c \in v[1].chans \ v[0].chans => AsksModes(e, c)
  BY <1>3, <1>5, <1>6
<1>9. \A c \in Channels :
        toClient[1].type \in {"op", "channelmodeis"} /\ toClient[1].c = c
          /\ OpIn(v[1], c) => chanQueued'[c] = << >>
  <2>1. toClient[1] = msg
    BY <1>1, <1>2, Taken DEF msg
  <2> QED
    BY <1>6, <2>1 DEF Stepped
<1> DEFINE queued2 == chanQueued'
<1>16. Shifts(v, toClient, e, chanQueued, queued2)
  BY <1>7, <1>8, <1>9 DEF Shifts
<1>10. PICK u : /\ u[0] = v[1] /\ u[Len(Tail(toClient))] = v[Len(toClient)]
                /\ Reads(u, Tail(toClient))
                /\ Gains(u, Tail(toClient), toServer \o e)
                /\ Held(u, Tail(toClient), toServer \o e, queued2)
  <2>1. /\ Reads(v, toClient) /\ Gains(v, toClient, toServer)
        /\ Held(v, toClient, toServer, chanQueued)
    BY <1>4 DEF Runs
  <2> HIDE DEF queued2
  <2> QED
    BY <1>1, <1>2, <1>16, <2>1, ShiftRun
<1>11. Agrees(u[Len(toClient)])'
  <2>1. Agrees(v[Len(toClient)])
    BY <1>4 DEF Runs
  <2>2. PICK y : y = v[Len(toClient)]
    OBVIOUS
  <2>3. Agrees(y)'
    BY <1>2, <2>1, <2>2, AgreesSame
  <2>4. u[Len(toClient')] = y
    BY <1>2, <1>10, <2>2
  <2> QED
    BY <2>3, <2>4 DEF Agrees, RosterAgrees, AccountsAgree, BansAgree
<1>12. Runs(u)'
  BY <1>2, <1>3, <1>6, <1>10, <1>11 DEF Runs
<1>13. SrvInv'
  BY <1>2, SrvInvSame DEF Inv
<1>14. WireInv'
  BY <1>1, <1>2, <1>3, Taken, Appended DEF WireInv
<1>15. QueueInv'
  BY DEF Stepped, QueueInv, Queue
<1> QED
  BY <1>12, <1>13, <1>14, <1>15 DEF Inv

(***************************************************************************)
(* The user's steps and the server's.                                      *)
(***************************************************************************)
LEMMA UserSends ==
  ASSUME Inv, NEW e \in Seq(Cmds), toServer' = toServer \o e,
         UNCHANGED <<srvVars, toClient, csNick, csChannels, chanUsers, chanBans,
                     csUsers, csTransaction>>,
         QueueInv',
         \A c \in Channels : OpIn(View, c) => chanQueued'[c] = chanQueued[c]
  PROVE  Inv'
<1>1. toClient \in Seq(Msgs) /\ toServer \in Seq(Cmds)
  BY DEF Inv, WireInv
<1>2. PICK v : Runs(v)
  BY DEF Inv
<1>3. View' = View
  BY DEF View
<1> DEFINE queued2 == chanQueued'
<1>4. Gains(v, toClient, toServer \o e) /\ Held(v, toClient, toServer \o e, queued2)
  <2>1. /\ Gains(v, toClient, toServer) /\ Held(v, toClient, toServer, chanQueued)
        /\ v[0] = View
    BY <1>2 DEF Runs
  <2>2. \A c \in Channels : OpIn(v[0], c) => queued2[c] = chanQueued[c]
    BY <2>1
  <2> HIDE DEF queued2
  <2> QED
    BY <1>1, <2>1, <2>2, UserRun
<1>5. Agrees(v[Len(toClient)])'
  <2>1. PICK y : y = v[Len(toClient)]
    OBVIOUS
  <2>2. Agrees(y)'
    BY <1>2, <2>1, AgreesSame DEF Runs
  <2>3. v[Len(toClient')] = y
    BY <2>1
  <2> QED
    BY <2>2, <2>3 DEF Agrees, RosterAgrees, AccountsAgree, BansAgree
<1>6. Runs(v)'
  BY <1>2, <1>3, <1>4, <1>5 DEF Runs
<1>7. SrvInv'
  BY SrvInvSame DEF Inv
<1>8. WireInv'
  BY <1>1, Appended DEF WireInv
<1> QED
  BY <1>6, <1>7, <1>8 DEF Inv

\* The user's steps keep the invariant.
LEMMA UserKeepsInv ==
  ASSUME Inv, User
  PROVE  Inv'
<1>1. ASSUME NEW c \in Channels, NEW n \in Nicks, NEW type \in Moderations,
             SendModeration(type, n, c)
      PROVE  Inv'
  <2> DEFINE cmd == [type |-> type, c |-> c, n |-> n]
             op == [type |-> "op", c |-> c]
  <2>1. cmd \in [type : Moderations, c : Channels, n : Nicks]
    OBVIOUS
  <2>2. cmd \in Cmds
    BY <2>1, Zenon DEF Cmds
  <2>3. op \in Cmds
    <3>1. op \in [type : Queries \cup {"mode", "op"}, c : Channels]
      OBVIOUS
    <3> QED
      BY <3>1, Zenon DEF Cmds
  <2>4. UNCHANGED <<srvVars, toClient, csNick, csChannels, chanUsers, chanBans,
                    csUsers, csTransaction>>
    BY <1>1 DEF SendModeration
  <2>5. CASE UseChanServ(c)
    <3>1. /\ toServer' = toServer \o <<op>>
          /\ chanQueued' = IF c \notin csChannels THEN chanQueued
                           ELSE [chanQueued EXCEPT ![c] = Append(chanQueued[c], cmd)]
      BY <1>1, <2>5 DEF SendModeration, SendMsg
    <3> HIDE DEF op, cmd
    <3>2. <<op>> \in Seq(Cmds)
      BY <2>3
    <3>3. ~OpIn(View, c)
      BY <2>5, ViewParts DEF UseChanServ, IHaveOp, OpIn
    <3>4. /\ chanQueued \in [Channels -> Queue]
          /\ \A k \in Channels \ csChannels : chanQueued[k] = << >>
      BY DEF Inv, QueueInv, Queue
    <3>5. Append(chanQueued[c], cmd) \in Queue
      <4>1. chanQueued[c] \in Queue
        BY <3>4
      <4> QED
        BY <2>1, <4>1 DEF Queue
    <3>6. \A k \in Channels : OpIn(View, k) => chanQueued'[k] = chanQueued[k]
      BY <3>1, <3>3, <3>4
    <3>7. QueueInv'
      <4>1. chanQueued' \in [Channels -> Queue]
        BY <3>1, <3>4, <3>5
      <4>2. \A k \in Channels \ csChannels : chanQueued'[k] = << >>
        BY <3>1, <3>4
      <4> QED
        BY <2>4, <4>1, <4>2 DEF QueueInv, Queue
    <3> QED
      BY <2>4, <3>1, <3>2, <3>6, <3>7, UserSends
  <2>6. CASE ~UseChanServ(c)
    <3>1. toServer' = toServer \o <<cmd>> /\ chanQueued' = chanQueued
      BY <1>1, <2>6 DEF SendModeration, SendMsg
    <3> HIDE DEF op, cmd
    <3>2. <<cmd>> \in Seq(Cmds)
      BY <2>2
    <3>3. QueueInv'
      BY <2>4, <3>1 DEF Inv, QueueInv
    <3> QED
      BY <2>4, <3>1, <3>2, <3>3, UserSends
  <2> QED
    BY <2>5, <2>6
<1>2. ASSUME NEW c \in Channels, NEW type \in Queries, Query(type, c)
      PROVE  Inv'
  <2> DEFINE cmd == [type |-> type, c |-> c]
  <2>1. cmd \in Cmds
    <3>1. cmd \in [type : Queries \cup {"mode", "op"}, c : Channels]
      OBVIOUS
    <3> QED
      BY <3>1, Zenon DEF Cmds
  <2>2. toServer' = toServer \o <<cmd>> /\ UNCHANGED <<srvVars, toClient, clientVars>>
    BY <1>2 DEF Query, SendMsg
  <2> HIDE DEF cmd
  <2>3. <<cmd>> \in Seq(Cmds)
    BY <2>1
  <2>4. QueueInv'
    BY <2>2 DEF clientVars, Inv, QueueInv
  <2> QED
    BY <2>2, <2>3, <2>4, UserSends DEF clientVars
<1> QED
  BY <1>1, <1>2 DEF User

\* The server says r to a client that will know x by then, and y behind it.
Serves(x) ==
  \E r \in Seq(Msgs) : \E y :
    /\ toClient' = toClient \o r
    /\ Path(x, r, y, x.chans)
    /\ Agrees(y)'
    /\ StillAsked(toServer, toServer', r, y)

\* A step of the server keeps the invariant if it serves the client.
LEMMA ServerKeepsInv ==
  ASSUME Inv, UNCHANGED clientVars, SrvInv', toServer' \in Seq(Cmds),
         \A x : ViewOK(x) /\ Agrees(x) => Serves(x)
  PROVE  Inv'
<1>1. toClient \in Seq(Msgs) /\ toServer \in Seq(Cmds) /\ Len(toClient) \in Nat
  BY LenProperties DEF Inv, WireInv
<1>2. PICK v : Runs(v)
  BY DEF Inv
<1>3. ViewOK(v[Len(toClient)]) /\ Agrees(v[Len(toClient)])
  <2>1. Len(toClient) \in 0 .. Len(toClient)
    BY <1>1
  <2> QED
    BY <1>2, <2>1 DEF Runs, Reads
<1>reply. PICK r \in Seq(Msgs) :
        \E y : /\ toClient' = toClient \o r
               /\ Path(v[Len(toClient)], r, y, v[Len(toClient)].chans)
               /\ Agrees(y)'
               /\ StillAsked(toServer, toServer', r, y)
  BY <1>3 DEF Serves
<1>4. PICK y : /\ toClient' = toClient \o r
               /\ Path(v[Len(toClient)], r, y, v[Len(toClient)].chans)
               /\ Agrees(y)'
               /\ StillAsked(toServer, toServer', r, y)
  BY <1>reply
<1>5. PICK u : /\ u[0] = v[0] /\ u[Len(toClient \o r)] = y
               /\ Reads(u, toClient \o r) /\ Gains(u, toClient \o r, toServer')
               /\ Held(u, toClient \o r, toServer', chanQueued)
  <2>1. /\ Reads(v, toClient) /\ Gains(v, toClient, toServer)
        /\ Held(v, toClient, toServer, chanQueued)
    BY <1>2 DEF Runs
  <2> DEFINE t == toServer'
  <2>2. StillAsked(toServer, t, r, y)
    BY <1>4
  <2>3. Path(v[Len(toClient)], r, y, v[Len(toClient)].chans)
    BY <1>4
  <2> HIDE DEF t
  <2>4. \E u : /\ u[0] = v[0] /\ u[Len(toClient \o r)] = y
               /\ Reads(u, toClient \o r) /\ Gains(u, toClient \o r, t)
               /\ Held(u, toClient \o r, t, chanQueued)
    BY <1>1, <2>1, <2>2, <2>3, ExtendRun
  <2> QED
    BY <2>4 DEF t
<1>6. View' = View
  BY DEF View, clientVars
<1>7. Agrees(u[Len(toClient)])'
  <2>1. u[Len(toClient')] = y
    BY <1>4, <1>5
  <2> QED
    BY <1>4, <2>1 DEF Agrees, RosterAgrees, AccountsAgree, BansAgree
<1>8. Runs(u)'
  <2>1. v[0] = View /\ chanQueued' = chanQueued
    BY <1>2 DEF Runs, clientVars
  <2> QED
    BY <1>4, <1>5, <1>6, <1>7, <2>1 DEF Runs
<1>9. WireInv'
  BY <1>1, <1>4, Appended DEF WireInv
<1>10. QueueInv'
  BY DEF Inv, QueueInv, clientVars
<1> QED
  BY <1>8, <1>9, <1>10 DEF Inv

\* No MODE that was asked for is dropped.
KeepsAsking ==
  \A c \in Channels : AsksModes(toServer, c) => AsksModes(toServer', c)

\* The server says nothing.
LEMMA ServesNothing ==
  ASSUME NEW x, ViewOK(x), KeepsAsking, toClient' = toClient \o << >>, Agrees(x)'
  PROVE  Serves(x)
<1>1. Path(x, << >>, x, x.chans)
  BY PathNone
<1>2. << >> \in Seq(Msgs)
  OBVIOUS
<1>3. StillAsked(toServer, toServer', << >>, x)
  BY DEF KeepsAsking, StillAsked
<1> QED
  BY <1>1, <1>2, <1>3 DEF Serves

\* The server says one thing.
LEMMA ServesOne ==
  ASSUME NEW x, ViewOK(x), KeepsAsking, NEW m \in Msgs, toClient' = toClient \o <<m>>,
         NEW y, y = Read(x, m), Agrees(y)',
         \A c \in x.chans : OpIn(y, c) => OpIn(x, c) \/ (m.type = "op" /\ m.c = c)
  PROVE  Serves(x)
<1>1. Path(x, <<m>>, y, x.chans)
  BY PathOne
<1>2. <<m>> \in Seq(Msgs)
  OBVIOUS
<1>3. StillAsked(toServer, toServer', <<m>>, y)
  BY DEF KeepsAsking, StillAsked
<1> QED
  BY <1>1, <1>2, <1>3 DEF Serves

\* Whom the client sees it shares a channel with.
LEMMA SeenIsCommon ==
  ASSUME NEW x, ViewOK(x), RosterAgrees(x)
  PROVE  \A n \in Nicks : Seen(n, x.users) <=> Common(n)
<1>1. ASSUME NEW n \in Nicks, NEW c \in Channels
      PROVE  x.users[c][n] # "-" <=> {n, srvNick} \subseteq On(c)
  <2>0. x.nick \in Nicks /\ x.nick = srvNick
    BY ViewTypes DEF RosterAgrees
  <2>1. CASE c \in x.chans
    BY <2>0, <2>1 DEF RosterAgrees, On
  <2>2. CASE c \notin x.chans
    <3>1. x.users[c] = Nobody
      BY <2>2, ViewTypes
    <3>2. srvNick \notin On(c)
      BY <2>2 DEF RosterAgrees
    <3> QED
      BY <3>1, <3>2 DEF Nobody
  <2> QED
    BY <2>1, <2>2
<1> QED
  BY <1>1 DEF Seen, Common

\* The server's own bookkeeping: SrvActs.
LEMMA ActsKeepAsking ==
  ASSUME Inv, SrvActs
  PROVE  /\ KeepsAsking /\ UNCHANGED clientVars /\ toServer' = toServer
         /\ toServer' \in Seq(Cmds)
BY DEF SrvActs, KeepsAsking, Inv, WireInv

\* Message m is told when seen holds.
LEMMA Told ==
  ASSUME NEW seen, NEW m, TellIf(seen, m)
  PROVE  /\ seen => toClient' = toClient \o <<m>>
         /\ ~seen => toClient' = toClient \o << >>
BY DEF TellIf, Tell

\* A login is told to whom it concerns.
LEMMA SrvLoginKeepsInv ==
  ASSUME Inv, NEW n \in Nicks, NEW a \in Accounts, SrvLogin(n, a)
  PROVE  Inv'
<1>1. /\ account' = [account EXCEPT ![n] = a] /\ UNCHANGED <<srvNick, members, srvBans>>
      /\ TellIf(Common(n), [type |-> "account", n |-> n, a |-> a])
  BY DEF SrvLogin
<1>2. KeepsAsking /\ UNCHANGED clientVars /\ toServer' \in Seq(Cmds)
  BY ActsKeepAsking DEF SrvLogin
<1>3. SrvInv
  BY DEF Inv
<1>4. a \notin {"offline", "forgotten", "known"}
  BY SessionAssumption
<1>5. SrvInv'
  <2>1. account' \in [Nicks -> Accounts \cup {"offline"}]
    BY <1>1, <1>3 DEF SrvInv
  <2>2. Online' = Online \cup {n}
    BY <1>1, <1>3, <1>4 DEF SrvInv, Online
  <2>3. IsFiniteSet(Online')
    BY <1>3, <2>2, FS_AddElement DEF SrvInv
  <2>4. \A c \in Channels : On(c)' = On(c)
    BY <1>1 DEF On
  <2>5. UNCHANGED <<srvNick, members>>
    BY <1>1
  <2> QED
    BY <1>3, <2>1, <2>2, <2>3, <2>4, <2>5 DEF SrvInv
<1>6. ASSUME NEW x, ViewOK(x), Agrees(x)
      PROVE  Serves(x)
  <2>1. RosterAgrees(x) /\ AccountsAgree(x) /\ BansAgree(x) /\ x.transaction = Idle
    BY <1>6 DEF Agrees
  <2>2. Seen(n, x.users) <=> Common(n)
    BY <1>6, <2>1, SeenIsCommon
  <2>3. x.accounts \in [Nicks -> Accounts \cup {"forgotten", "known"}]
    BY <1>6, ViewTypes
  <2>4. CASE Common(n)
    <3> DEFINE m == [type |-> "account", n |-> n, a |-> a]
               y == Read(x, m)
    <3>1. m \in Msgs /\ m.type = "account" /\ m.n = n /\ m.a = a
      <4>1. m \in [type : {"account"}, n : Nicks, a : Accounts]
        OBVIOUS
      <4>2. m \in Msgs
        BY <4>1, Zenon DEF Msgs
      <4> QED
        BY <4>2
    <3>2. toClient' = toClient \o <<m>>
      BY <1>1, <2>4, Told
    <3> HIDE DEF m
    <3>3. y = ReadAccount(x, m)
      BY <3>1, ReadCases
    <3>4. /\ y.nick = x.nick /\ y.chans = x.chans /\ y.users = x.users
          /\ y.bans = x.bans /\ y.transaction = x.transaction
          /\ y.accounts = [x.accounts EXCEPT ![n] = a]
      BY <3>1, <3>3 DEF ReadAccount, Knowing
    <3> HIDE DEF y
    <3>5. RosterAgrees(y)'
      BY <1>1, <2>1, <3>4 DEF RosterAgrees, On
    <3>6. AccountsAgree(y)'
      BY <1>1, <1>3, <1>4, <2>1, <2>2, <2>3, <2>4, <3>4 DEF AccountsAgree, SrvInv
    <3>7. BansAgree(y)'
      BY <1>1, <2>1, <3>4 DEF BansAgree
    <3>8. Agrees(y)'
      BY <2>1, <3>4, <3>5, <3>6, <3>7 DEF Agrees
    <3>9. \A c \in x.chans : OpIn(y, c) => OpIn(x, c)
      BY <3>4 DEF OpIn
    <3> QED
      BY <1>2, <1>6, <3>1, <3>2, <3>8, <3>9, ServesOne DEF y
  <2>5. CASE ~Common(n)
    <3>1. toClient' = toClient \o << >>
      BY <1>1, <2>5 DEF TellIf, Tell
    <3>2. RosterAgrees(x)' /\ BansAgree(x)'
      BY <1>1, <2>1 DEF RosterAgrees, On, BansAgree
    <3>3. AccountsAgree(x)'
      BY <1>1, <1>3, <2>1, <2>2, <2>5 DEF AccountsAgree, SrvInv
    <3>4. Agrees(x)'
      BY <2>1, <3>2, <3>3 DEF Agrees
    <3> QED
      BY <1>2, <1>6, <3>1, <3>4, ServesNothing
  <2> QED
    BY <2>4, <2>5
<1> QED
  BY <1>2, <1>5, <1>6, ServerKeepsInv

(***************************************************************************)
(* A change of one user's sigil: SrvMode and AnswerOp.                     *)
(***************************************************************************)

\* A query other than MODE is answered: no MODE is dropped.
LEMMA AnsweredKeepsAsking ==
  ASSUME Inv, toServer # << >>, Asked.type # "mode", toServer' = Tail(toServer)
  PROVE  KeepsAsking /\ toServer' \in Seq(Cmds)
<1>1. toServer \in Seq(Cmds)
  BY DEF Inv, WireInv
<1>2. /\ Tail(toServer) \in Seq(Cmds) /\ Len(toServer) \in Nat /\ Len(toServer) > 0
      /\ Len(Tail(toServer)) = Len(toServer) - 1 /\ Head(toServer) = toServer[1]
      /\ \A i \in 1 .. Len(toServer) - 1 : Tail(toServer)[i] = toServer[i + 1]
  BY <1>1, Taken
<1>3. ASSUME NEW c, AsksModes(toServer, c)
      PROVE  AsksModes(Tail(toServer), c)
  <2>1. PICK i \in 1 .. Len(toServer) : toServer[i].type = "mode" /\ toServer[i].c = c
    BY <1>3 DEF AsksModes
  <2>2. i # 1
    BY <1>2, <2>1 DEF Asked
  <2>3. i - 1 \in 1 .. Len(Tail(toServer)) /\ Tail(toServer)[i - 1] = toServer[i]
    BY <1>2, <2>1, <2>2
  <2> QED
    BY <2>1, <2>3 DEF AsksModes
<1> QED
  BY <1>2, <1>3 DEF KeepsAsking

\* A sigil that changes keeps the bookkeeping of the server right.
LEMMA SrvInvMembers ==
  ASSUME SrvInv, UNCHANGED <<srvNick, account>>, NEW c \in Channels, NEW n \in Online,
         NEW s \in Sigils, members' = [members EXCEPT ![c][n] = s]
  PROVE  SrvInv'
<1>1. members \in [Channels -> [Nicks -> Sigils]] /\ n \in Nicks
  BY DEF SrvInv, Online
<1>2. [members[c] EXCEPT ![n] = s] \in [Nicks -> Sigils]
  BY <1>1
<1>3. members' \in [Channels -> [Nicks -> Sigils]]
  BY <1>1, <1>2
<1>4. \A k \in Channels : On(k)' \subseteq On(k) \cup {n}
  BY <1>1 DEF On
<1>5. Online' = Online
  BY DEF Online
<1> QED
  BY <1>3, <1>4, <1>5 DEF SrvInv

OpMsg(c, n, sigil) == [type |-> "op", c |-> c, n |-> n, sigil |-> sigil]

\* A message of the type, with its fields.
LEMMA OpMsgFields ==
  ASSUME NEW c \in Channels, NEW n \in Nicks, NEW sigil \in Present,
         NEW m, m = OpMsg(c, n, sigil)
  PROVE  /\ m \in Msgs /\ m.type = "op" /\ m.c = c /\ m.n = n /\ m.sigil = sigil
         /\ \A x : Read(x, m) = ReadOp(x, m)
<1>1. m \in [type : {"op", "namreply"}, c : Channels, n : Nicks, sigil : {"", "@"}]
  BY DEF OpMsg, Present
<1>2. m \in Msgs
  BY <1>1, Zenon DEF Msgs
<1>3. m.type = "op" /\ m.c = c /\ m.n = n /\ m.sigil = sigil
  BY DEF OpMsg
<1> QED
  BY <1>2, <1>3, ReadCases

\* Whoever is on the channel is told.
LEMMA SigilKeepsInv ==
  ASSUME Inv, KeepsAsking, toServer' \in Seq(Cmds),
         UNCHANGED <<srvNick, account, srvBans, clientVars>>,
         NEW c \in Channels, NEW n \in On(c), NEW sigil \in Present,
         members' = [members EXCEPT ![c][n] = sigil],
         NEW m, m = OpMsg(c, n, sigil), TellIf(srvNick \in On(c), m)
  PROVE  Inv'
<1>1. SrvInv
  BY DEF Inv
<1>2. n \in Online /\ n \in Nicks /\ sigil \in Sigils /\ sigil # "-"
  BY <1>1 DEF SrvInv, On, Present, Sigils
<1>3. SrvInv'
  BY <1>1, <1>2, SrvInvMembers
<1>4. /\ m \in Msgs /\ m.type = "op" /\ m.c = c /\ m.n = n /\ m.sigil = sigil
      /\ \A x : Read(x, m) = ReadOp(x, m)
  BY <1>2, OpMsgFields
<1>5. members \in [Channels -> [Nicks -> Sigils]] /\ members[c][n] # "-"
  BY <1>1 DEF SrvInv, On
<1>6. \A k \in Channels : On(k)' = On(k)
  BY <1>2, <1>5 DEF On
<1>7. ASSUME NEW x, ViewOK(x), Agrees(x)
      PROVE  Serves(x)
  <2>1. RosterAgrees(x) /\ AccountsAgree(x) /\ BansAgree(x) /\ x.transaction = Idle
    BY <1>7 DEF Agrees
  <2>2. x.chans = {k \in Channels : srvNick \in On(k)} /\ x.nick = srvNick
    BY <2>1 DEF RosterAgrees
  <2>3. CASE srvNick \in On(c)
    <3>1. toClient' = toClient \o <<m>>
      BY <2>3 DEF TellIf, Tell
    <3> DEFINE y == Read(x, m)
    <3>2. x.users[c] = members[c] /\ c \in x.chans
      BY <2>1, <2>3 DEF RosterAgrees
    <3>3. y = ReadOp(x, m)
      BY <1>4
    <3>4. /\ y.nick = x.nick /\ y.chans = x.chans /\ y.bans = x.bans
          /\ y.transaction = x.transaction /\ y.accounts = x.accounts
          /\ y.users = [x.users EXCEPT ![c][n] = sigil]
      <4>1. x.users[c][n] # "-"
        BY <1>5, <3>2
      <4>2. y = Knowing(x.nick, x.chans, [x.users EXCEPT ![c][n] = sigil],
                        x.bans, x.accounts, x.transaction)
        <5>1. m.c = c /\ m.n = n /\ m.sigil = sigil
          BY <1>4
        <5> QED
          BY <3>3, <4>1, <5>1 DEF ReadOp
      <4> HIDE DEF y
      <4> QED
        BY <4>2, KnowingParts
    <3> HIDE DEF y
    <3>5. x.users \in [Channels -> [Nicks -> Sigils]]
      BY <1>7, ViewTypes
    <3>6. RosterAgrees(y)'
      <4>1. \A k \in x.chans : y.users[k] = members'[k]
        BY <1>5, <2>1, <3>2, <3>4, <3>5 DEF RosterAgrees
      <4> QED
        BY <1>6, <2>2, <3>4, <4>1 DEF RosterAgrees
    <3>7. \A k \in Nicks : Seen(k, y.users) <=> Seen(k, x.users)
      <4>1. x.users[c][n] # "-" /\ y.users[c][n] # "-"
        BY <1>2, <1>5, <3>2, <3>4, <3>5
      <4>2. \A k \in Nicks, d \in Channels :
              k # n \/ d # c => y.users[d][k] = x.users[d][k]
        BY <3>4, <3>5
      <4> QED
        BY <1>2, <4>1, <4>2, Zenon DEF Seen
    <3>8. AccountsAgree(y)'
      BY <2>1, <3>4, <3>7 DEF AccountsAgree
    <3>9. BansAgree(y)'
      BY <2>1, <3>4 DEF BansAgree
    <3>10. Agrees(y)'
      BY <2>1, <3>4, <3>6, <3>8, <3>9 DEF Agrees
    <3>11. \A k \in x.chans : OpIn(y, k) => OpIn(x, k) \/ (m.type = "op" /\ m.c = k)
      BY <1>4, <3>4, <3>5, <2>2 DEF OpIn
    <3> QED
      BY <1>4, <1>7, <3>1, <3>10, <3>11, ServesOne DEF y
  <2>4. CASE srvNick \notin On(c)
    <3>1. toClient' = toClient \o << >>
      BY <2>4 DEF TellIf, Tell
    <3>2. RosterAgrees(x)'
      <4>1. \A k \in x.chans : x.users[k] = members'[k]
        BY <1>5, <2>1, <2>2, <2>4 DEF RosterAgrees
      <4> QED
        BY <1>6, <2>2, <4>1 DEF RosterAgrees
    <3>3. AccountsAgree(x)' /\ BansAgree(x)'
      BY <2>1 DEF AccountsAgree, BansAgree
    <3>4. Agrees(x)'
      BY <2>1, <3>2, <3>3 DEF Agrees
    <3> QED
      BY <1>7, <3>1, <3>4, ServesNothing
  <2> QED
    BY <2>3, <2>4
<1> QED
  BY <1>3, <1>7, ServerKeepsInv

\* MODE of another user.
LEMMA SrvModeKeepsInv ==
  ASSUME Inv, NEW n \in Nicks, NEW c \in Channels, NEW sigil \in Present,
         SrvMode(n, c, sigil)
  PROVE  Inv'
<1>1. /\ members' = [members EXCEPT ![c][n] = sigil]
      /\ UNCHANGED <<srvNick, account, srvBans>>
      /\ TellIf(srvNick \in On(c), OpMsg(c, n, sigil))
      /\ members[c][n] # "-"
  BY DEF SrvMode, OpMsg
<1>2. KeepsAsking /\ UNCHANGED clientVars /\ toServer' \in Seq(Cmds)
  BY ActsKeepAsking DEF SrvMode
<1>3. n \in On(c)
  BY <1>1 DEF On
<1> QED
  BY <1>1, <1>2, <1>3, SigilKeepsInv

\* ChanServ's op.
LEMMA AnswerOpKeepsInv ==
  ASSUME Inv, AnswerOp
  PROVE  Inv'
<1> DEFINE c == Asked.c
<1>1. /\ toServer # << >> /\ Asked.type = "op" /\ toServer' = Tail(toServer)
      /\ UNCHANGED <<srvNick, account, srvBans, clientVars>>
  BY DEF AnswerOp, Command, Asked
<1>2. KeepsAsking /\ toServer' \in Seq(Cmds)
  BY <1>1, AnsweredKeepsAsking
<1>3. c \in Channels /\ srvNick \in Nicks /\ SrvInv
  <2>1. Asked \in Cmds
    BY <1>1, Taken DEF Inv, WireInv, Asked
  <2> QED
    BY <2>1, CmdFields DEF Inv, SrvInv
<1>4. CASE members[c][srvNick] = ""
  <2>1. /\ members' = [members EXCEPT ![c][srvNick] = "@"]
        /\ TellIf(TRUE, OpMsg(c, srvNick, "@"))
    BY <1>4 DEF AnswerOp, OpMsg, TellIf
  <2>2. srvNick \in On(c) /\ "@" \in Present
    BY <1>3, <1>4 DEF On, Present
  <2>3. TellIf(srvNick \in On(c), OpMsg(c, srvNick, "@"))
    BY <2>1, <2>2 DEF TellIf
  <2> HIDE DEF c
  <2> QED
    BY <1>1, <1>2, <1>3, <2>1, <2>2, <2>3, SigilKeepsInv
<1>5. CASE members[c][srvNick] # ""
  <2>1. UNCHANGED srvVars /\ toClient' = toClient \o << >>
    BY <1>1, <1>5 DEF AnswerOp, TellIf, Tell, srvVars
  <2>2. SrvInv'
    BY <1>3, <2>1, SrvInvSame
  <2>3. ASSUME NEW x, ViewOK(x), Agrees(x)
        PROVE  Serves(x)
    <3>1. Agrees(x)'
      BY <2>1, <2>3, AgreesSame
    <3> QED
      BY <1>2, <2>1, <2>3, <3>1, ServesNothing
  <2> QED
    BY <1>1, <1>2, <2>2, <2>3, ServerKeepsInv
<1> QED
  BY <1>4, <1>5

(***************************************************************************)
(* A user enters a channel: SrvJoin.                                       *)
(***************************************************************************)
LEMMA ServesMany ==
  ASSUME NEW x, ViewOK(x), KeepsAsking, NEW r \in Seq(Msgs), toClient' = toClient \o r,
         NEW y, Path(x, r, y, x.chans), Agrees(y)'
  PROVE  Serves(x)
<1>1. StillAsked(toServer, toServer', r, y)
  BY DEF KeepsAsking, StillAsked
<1> QED
  BY <1>1 DEF Serves

JoinMsg(c, n, a) == [type |-> "join", c |-> c, n |-> n, a |-> a]

\* A message of the type, with its fields.
LEMMA JoinMsgFields ==
  ASSUME NEW c \in Channels, NEW n \in Nicks, NEW a \in Accounts,
         NEW m, m = JoinMsg(c, n, a)
  PROVE  /\ m \in Msgs /\ m.type = "join" /\ m.c = c /\ m.n = n /\ m.a = a
         /\ \A x : Read(x, m) = ReadJoin(x, m)
<1>1. m \in [type : {"join"}, c : Channels, n : Nicks, a : Accounts]
  BY DEF JoinMsg
<1>2. m \in Msgs
  BY <1>1, Zenon DEF Msgs
<1>3. m.type = "join" /\ m.c = c /\ m.n = n /\ m.a = a
  BY DEF JoinMsg
<1> QED
  BY <1>2, <1>3, ReadCases

Plain == ""

\* What a client knows that reads another's JOIN of a channel it is on.
LEMMA OtherJoins ==
  ASSUME NEW x, ViewOK(x), NEW c \in x.chans, NEW n \in Nicks \ {x.nick},
         NEW a \in Accounts, NEW m, m = JoinMsg(c, n, a), NEW y, y = Read(x, m)
  PROVE  /\ y.nick = x.nick /\ y.chans = x.chans /\ y.bans = x.bans
         /\ y.transaction = x.transaction
         /\ y.users = [x.users EXCEPT ![c][n] = Plain]
         /\ y.accounts = [x.accounts EXCEPT ![n] = a]
<1>1. /\ m.c = c /\ m.n = n /\ m.a = a
      /\ \A z : Read(z, m) = ReadJoin(z, m)
  BY JoinMsgFields, ViewTypes
<1>2. y = ReadJoin(x, m)
  BY <1>1
<1> DEFINE u == [x.users EXCEPT ![c][n] = Plain]
           b == [x.accounts EXCEPT ![n] = a]
<1>3. y = Knowing(x.nick, x.chans, u, x.bans, b, x.transaction)
  <2>1. m.c = c /\ m.n = n /\ m.a = a
    BY <1>1
  <2> QED
    BY <1>2, <2>1 DEF ReadJoin, Plain
<1> HIDE DEF u, b
<1>4. /\ y.nick = x.nick /\ y.chans = x.chans /\ y.users = u /\ y.bans = x.bans
      /\ y.accounts = b /\ y.transaction = x.transaction
  BY <1>3 DEF Knowing
<1> QED
  BY <1>4, Zenon DEF u, b

\* What a client knows that reads its own JOIN.
Entered(x, c, a) ==
  Knowing(x.nick, x.chans \cup {c},
          [x.users EXCEPT ![c] = [Nobody EXCEPT ![x.nick] = ""]],
          [x.bans EXCEPT ![c] = "unloaded"], [x.accounts EXCEPT ![x.nick] = a],
          x.transaction)

\* What reading it gives.
LEMMA OwnJoin ==
  ASSUME NEW x, ViewOK(x), NEW c \in Channels, NEW a \in Accounts,
         NEW m, m = JoinMsg(c, x.nick, a)
  PROVE  m \in Msgs /\ Read(x, m) = Entered(x, c, a)
<1>0. x.nick \in Nicks
  BY ViewTypes
<1>1. /\ m \in Msgs /\ m.c = c /\ m.n = x.nick /\ m.a = a
      /\ \A z : Read(z, m) = ReadJoin(z, m)
  BY <1>0, JoinMsgFields
<1>2. Read(x, m) = ReadJoin(x, m)
  BY <1>1
<1>3. ReadJoin(x, m) = Entered(x, c, a)
  <2>1. m.c = c /\ m.n = x.nick /\ m.a = a
    BY <1>1
  <2> QED
    BY <2>1 DEF ReadJoin, Entered
<1> QED
  BY <1>1, <1>2, <1>3

\* The channel's users follow the JOIN.
LEMMA PathOwnJoin ==
  ASSUME NEW x, ViewOK(x), x.transaction = Idle, NEW c \in Channels \ x.chans,
         NEW a \in Accounts, NEW m, m = JoinMsg(c, x.nick, a),
         NEW sigils \in [Nicks -> Sigils], NEW M, M = {n \in Nicks : sigils[n] # "-"},
         IsFiniteSet(M),
         NEW y, y = Knowing(x.nick, x.chans \cup {c}, [x.users EXCEPT ![c] = sigils],
                            x.bans, Learned(Entered(x, c, a), M), Idle)
  PROVE  /\ <<m>> \o Names(c, sigils) \in Seq(Msgs)
         /\ Path(x, <<m>> \o Names(c, sigils), y, x.chans)
<1> DEFINE z == Entered(x, c, a)
<1>1. m \in Msgs /\ Read(x, m) = z
  BY OwnJoin
<1>2. /\ z.nick = x.nick /\ z.chans = x.chans \cup {c} /\ z.transaction = Idle
      /\ z.users = [x.users EXCEPT ![c] = [Nobody EXCEPT ![x.nick] = ""]]
      /\ z.bans = [x.bans EXCEPT ![c] = "unloaded"]
  BY DEF Entered, Knowing
<1> HIDE DEF z
<1>3. ViewOK(z)
  BY <1>1, ReadOK
<1>4. /\ x.users \in [Channels -> [Nicks -> Sigils]] /\ x.chans \subseteq Channels
      /\ x.bans \in [Channels -> {"unloaded", "empty", "set"}]
      /\ x.bans[c] = "unloaded"
  BY ViewTypes
<1>5. Path(x, <<m>>, z, x.chans)
  <2>1. \A k \in x.chans : OpIn(z, k) => OpIn(x, k) \/ (m.type = "op" /\ m.c = k)
    BY <1>2, <1>4 DEF OpIn
  <2>2. z = Read(x, m)
    BY <1>1
  <2> QED
    BY <1>1, <2>1, <2>2, PathOne
<1>6. /\ Names(c, sigils) \in Seq(Msgs)
      /\ Path(z, Names(c, sigils),
              Knowing(z.nick, z.chans,
                      IF c \notin z.chans THEN z.users
                      ELSE [z.users EXCEPT ![c] = sigils],
                      z.bans, Learned(z, M), Idle), x.chans)
  <2>1. x.chans \in SUBSET Channels /\ c \notin x.chans
    BY <1>4
  <2>2. z.transaction = Idle
    BY <1>2
  <2>3. c \in x.chans \cap z.chans => z.users[c] = sigils
    BY <2>1
  <2> QED
    BY <1>3, <2>1, <2>2, <2>3, PathNames
<1>7. y = Knowing(z.nick, z.chans,
                  IF c \notin z.chans THEN z.users ELSE [z.users EXCEPT ![c] = sigils],
                  z.bans, Learned(z, M), Idle)
  <2>1. [z.users EXCEPT ![c] = sigils] = [x.users EXCEPT ![c] = sigils]
    BY <1>2, <1>4
  <2>2. z.bans = x.bans
    BY <1>2, <1>4
  <2>3. c \in z.chans /\ z.chans = x.chans \cup {c} /\ z.nick = x.nick
    BY <1>2
  <2>4. Learned(Entered(x, c, a), M) = Learned(z, M)
    BY DEF z
  <2> QED
    BY <2>1, <2>2, <2>3, <2>4
<1>8. <<m>> \in Seq(Msgs)
  BY <1>1
<1>9. <<m>> \o Names(c, sigils) \in Seq(Msgs)
  BY <1>6, <1>8, Appended
<1> QED
  BY <1>5, <1>6, <1>7, <1>8, <1>9, PathCat

\* Whoever is added to a channel is on it, and nobody else comes or goes.
LEMMA AddedOn ==
  ASSUME SrvInv, NEW c \in Channels, NEW n \in Nicks, NEW s \in Sigils, s # "-",
         members' = [members EXCEPT ![c][n] = s]
  PROVE  /\ On(c)' = On(c) \cup {n} /\ members'[c] \in [Nicks -> Sigils]
         /\ members'[c][n] = s
         /\ \A k \in Channels \ {c} : On(k)' = On(k) /\ members'[k] = members[k]
         /\ \A k \in Nicks \ {n} : members'[c][k] = members[c][k]
<1>1. members \in [Channels -> [Nicks -> Sigils]]
  BY DEF SrvInv
<1> QED
  BY <1>1 DEF On

\* The JOIN of another is told on the channel, with its account.
LEMMA OthersJoinServes ==
  ASSUME Inv, KeepsAsking, UNCHANGED <<srvNick, account, srvBans>>,
         NEW c \in Channels, NEW n \in Nicks \ {srvNick}, account[n] \in Accounts,
         NEW s \in Sigils, s # "-", On(c) # {} => s = Plain,
         members' = [members EXCEPT ![c][n] = s],
         TellIf(srvNick \in On(c), JoinMsg(c, n, account[n])),
         NEW x, ViewOK(x), Agrees(x)
  PROVE  Serves(x)
<1>1. SrvInv
  BY DEF Inv
<1>2. /\ On(c)' = On(c) \cup {n} /\ members'[c] \in [Nicks -> Sigils]
      /\ members'[c][n] = s
      /\ \A k \in Channels \ {c} : On(k)' = On(k) /\ members'[k] = members[k]
      /\ \A k \in Nicks \ {n} : members'[c][k] = members[c][k]
  BY <1>1, AddedOn
<1>3. RosterAgrees(x) /\ AccountsAgree(x) /\ BansAgree(x) /\ x.transaction = Idle
  BY DEF Agrees
<1>4. /\ x.chans = {k \in Channels : srvNick \in On(k)} /\ x.nick = srvNick
      /\ \A k \in x.chans : x.users[k] = members[k]
  BY <1>3 DEF RosterAgrees
<1>5. \A k \in Channels : srvNick \in On(k)' <=> srvNick \in On(k)
  BY <1>2
<1>6. CASE srvNick \in On(c)
  <2>0. PICK a \in Accounts : a = account[n]
    OBVIOUS
  <2> DEFINE m == JoinMsg(c, n, a)
             y == Read(x, m)
  <2>1. toClient' = toClient \o <<m>>
    BY <1>6, <2>0 DEF TellIf, Tell
  <2>2. m \in Msgs
    BY JoinMsgFields
  <2>3. c \in x.chans /\ n \in Nicks \ {x.nick} /\ s = Plain
    BY <1>4, <1>6
  <2>4. /\ y.nick = x.nick /\ y.chans = x.chans /\ y.bans = x.bans
        /\ y.transaction = x.transaction
        /\ y.users = [x.users EXCEPT ![c][n] = s]
        /\ y.accounts = [x.accounts EXCEPT ![n] = a]
    BY <2>3, OtherJoins
  <2> HIDE DEF y, m
  <2>5. /\ x.users \in [Channels -> [Nicks -> Sigils]]
        /\ x.accounts \in [Nicks -> Accounts \cup {"forgotten", "known"}]
    BY ViewTypes
  <2>6. RosterAgrees(y)'
    <3>1. ASSUME NEW k \in x.chans
          PROVE  y.users[k] = members'[k]
      <4>1. CASE k = c
        <5>1. y.users[c] = [members[c] EXCEPT ![n] = s]
          BY <1>4, <2>3, <2>4, <2>5
        <5>2. members'[c] = [members[c] EXCEPT ![n] = s]
          BY <1>1 DEF SrvInv
        <5> QED
          BY <4>1, <5>1, <5>2
      <4>2. CASE k # c
        BY <1>2, <1>4, <2>4, <2>5, <4>2
      <4> QED
        BY <4>1, <4>2
    <3>2. y.nick = srvNick' /\ y.chans = {k \in Channels : srvNick' \in On(k)'}
      BY <1>4, <1>5, <2>4
    <3> QED
      BY <2>4, <3>1, <3>2 DEF RosterAgrees
  <2>7. /\ Seen(n, y.users)
        /\ \A k \in Nicks \ {n} : Seen(k, y.users) <=> Seen(k, x.users)
    <3>1. y.users[c][n] = s
      BY <2>3, <2>4, <2>5
    <3>2. \A k \in Nicks \ {n}, d \in Channels : y.users[d][k] = x.users[d][k]
      BY <2>4, <2>5
    <3> QED
      BY <3>1, <3>2, Zenon DEF Seen
  <2>8. AccountsAgree(y)'
    <3>1. y.accounts[n] = account[n] /\ account[n] # "forgotten"
      BY <2>0, <2>4, <2>5, SessionAssumption
    <3>2. \A k \in Nicks \ {n} : y.accounts[k] = x.accounts[k]
      BY <2>4, <2>5
    <3> QED
      BY <1>3, <2>7, <3>1, <3>2 DEF AccountsAgree
  <2>9. BansAgree(y)'
    BY <1>3, <2>4 DEF BansAgree
  <2>10. Agrees(y)'
    BY <1>3, <2>4, <2>6, <2>8, <2>9 DEF Agrees
  <2>11. \A k \in x.chans : OpIn(y, k) => OpIn(x, k)
    BY <2>3, <2>4, <2>5, <1>4 DEF OpIn
  <2>12. y = Read(x, m)
    BY DEF y
  <2> QED
    BY <2>1, <2>2, <2>10, <2>11, <2>12, ServesOne
<1>7. CASE srvNick \notin On(c)
  <2>1. toClient' = toClient \o << >>
    BY <1>7 DEF TellIf, Tell
  <2>2. RosterAgrees(x)'
    <3>1. \A k \in x.chans : x.users[k] = members'[k]
      BY <1>2, <1>4, <1>7
    <3>2. x.nick = srvNick' /\ x.chans = {k \in Channels : srvNick' \in On(k)'}
      BY <1>4, <1>5
    <3> QED
      BY <3>1, <3>2 DEF RosterAgrees
  <2>3. AccountsAgree(x)' /\ BansAgree(x)'
    BY <1>3 DEF AccountsAgree, BansAgree
  <2>4. Agrees(x)'
    BY <1>3, <2>2, <2>3 DEF Agrees
  <2> QED
    BY <2>1, <2>4, ServesNothing
<1> QED
  BY <1>6, <1>7

Welcome(c, n, a, sigils) == <<JoinMsg(c, n, a)>> \o Names(c, sigils)

\* Our own JOIN brings the channel's users, their accounts unknown to us yet.
LEMMA OwnJoinServes ==
  ASSUME Inv, KeepsAsking, UNCHANGED <<srvNick, account, srvBans>>,
         NEW c \in Channels, srvNick \notin On(c), account[srvNick] \in Accounts,
         NEW s \in Sigils, s # "-", members' = [members EXCEPT ![c][srvNick] = s],
         Tell(Welcome(c, srvNick, account[srvNick], members'[c])),
         NEW x, ViewOK(x), Agrees(x)
  PROVE  Serves(x)
<1>1. SrvInv /\ srvNick \in Nicks /\ On(c) \subseteq Online /\ srvNick \in Online
      /\ IsFiniteSet(Online)
  BY DEF Inv, SrvInv
<1>2. /\ On(c)' = On(c) \cup {srvNick} /\ members'[c] \in [Nicks -> Sigils]
      /\ members'[c][srvNick] = s
      /\ \A k \in Channels \ {c} : On(k)' = On(k) /\ members'[k] = members[k]
      /\ \A k \in Nicks \ {srvNick} : members'[c][k] = members[c][k]
  BY <1>1, AddedOn
<1>3. RosterAgrees(x) /\ AccountsAgree(x) /\ BansAgree(x) /\ x.transaction = Idle
  BY DEF Agrees
<1>4. /\ x.chans = {k \in Channels : srvNick \in On(k)} /\ x.nick = srvNick
      /\ \A k \in x.chans : x.users[k] = members[k]
  BY <1>3 DEF RosterAgrees
<1>5. PICK a \in Accounts : a = account[srvNick]
  OBVIOUS
<1>6. PICK sigils \in [Nicks -> Sigils] : sigils = members'[c]
  BY <1>2
<1>7. PICK M : M = {n \in Nicks : sigils[n] # "-"}
  OBVIOUS
<1>8. M = On(c) \cup {srvNick} /\ IsFiniteSet(M)
  <2>1. M = On(c)'
    BY <1>6, <1>7 DEF On
  <2>2. M \subseteq Online
    BY <1>1, <1>2, <2>1
  <2> QED
    BY <1>1, <1>2, <2>1, <2>2, FS_Subset
<1>9. c \in Channels \ x.chans
  BY <1>4
<1>10. PICK m : m = JoinMsg(c, x.nick, a)
  OBVIOUS
<1>11. PICK z : z = Entered(x, c, a)
  OBVIOUS
<1>12. PICK y : y = Knowing(x.nick, x.chans \cup {c}, [x.users EXCEPT ![c] = sigils],
                            x.bans, Learned(z, M), Idle)
  OBVIOUS
<1>13. /\ <<m>> \o Names(c, sigils) \in Seq(Msgs)
       /\ Path(x, <<m>> \o Names(c, sigils), y, x.chans)
  <2>1. y = Knowing(x.nick, x.chans \cup {c}, [x.users EXCEPT ![c] = sigils],
                    x.bans, Learned(Entered(x, c, a), M), Idle)
    BY <1>11, <1>12
  <2> QED
    BY <1>3, <1>7, <1>8, <1>9, <1>10, <2>1, PathOwnJoin
<1>14. toClient' = toClient \o (<<m>> \o Names(c, sigils))
  BY <1>4, <1>5, <1>6, <1>10 DEF Tell, Welcome
<1>15. /\ y.nick = x.nick /\ y.chans = x.chans \cup {c} /\ y.bans = x.bans
       /\ y.users = [x.users EXCEPT ![c] = sigils] /\ y.accounts = Learned(z, M)
       /\ y.transaction = Idle
  BY <1>12, KnowingParts
<1>16. /\ x.users \in [Channels -> [Nicks -> Sigils]] /\ x.users[c] = Nobody
       /\ x.accounts \in [Nicks -> Accounts \cup {"forgotten", "known"}]
       /\ x.bans[c] = "unloaded"
  BY <1>9, ViewTypes
<1>17. RosterAgrees(y)'
  <2>1. \A k \in y.chans : y.users[k] = members'[k]
    BY <1>2, <1>4, <1>6, <1>9, <1>15, <1>16
  <2>2. y.chans = {k \in Channels : srvNick \in On(k)'}
    BY <1>2, <1>4, <1>15
  <2> QED
    BY <1>4, <1>15, <2>1, <2>2 DEF RosterAgrees
<1>18. \A n \in Nicks : Seen(n, y.users) <=> Seen(n, x.users) \/ n \in M
  <2>1. y.users[c] = sigils /\ \A k \in Channels \ {c} : y.users[k] = x.users[k]
    BY <1>15, <1>16
  <2>2. \A n \in Nicks : x.users[c][n] = "-"
    BY <1>16 DEF Nobody
  <2>3. \A n \in Nicks : sigils[n] # "-" <=> n \in M
    BY <1>7
  <2> QED
    BY <2>1, <2>2, <2>3, Zenon DEF Seen
<1>19. /\ y.accounts[srvNick] = a
       /\ \A n \in Nicks \ {srvNick} :
            y.accounts[n] = IF n \in M /\ x.accounts[n] = "forgotten"
                            THEN "known" ELSE x.accounts[n]
  <2>1. z.accounts = [x.accounts EXCEPT ![srvNick] = a]
    BY <1>4, <1>11 DEF Entered, Knowing
  <2>2. a # "forgotten"
    BY SessionAssumption
  <2> QED
    BY <1>1, <1>15, <1>16, <2>1, <2>2 DEF Learned
<1>20. AccountsAgree(y)'
  <2>1. a # "forgotten" /\ srvNick \in M
    BY <1>8, SessionAssumption
  <2>2. ASSUME NEW n \in Nicks
        PROVE  y.accounts[n] \in {"forgotten", "known"}
                 \/ (Seen(n, y.users) /\ y.accounts[n] = account[n])
    BY <1>1, <1>3, <1>5, <1>18, <1>19, <2>1 DEF AccountsAgree
  <2>3. ASSUME "names" \notin Queries, NEW n \in Nicks
        PROVE  y.accounts[n] # "forgotten" <=> Seen(n, y.users)
    BY <1>1, <1>3, <1>18, <1>19, <2>1, <2>3 DEF AccountsAgree
  <2> QED
    BY <2>2, <2>3 DEF AccountsAgree
<1>21. BansAgree(y)'
  BY <1>3, <1>15, <1>16 DEF BansAgree
<1>22. Agrees(y)'
  BY <1>15, <1>17, <1>20, <1>21 DEF Agrees
<1> QED
  BY <1>13, <1>14, <1>22, ServesMany

\* A JOIN, ours or of another.
LEMMA SrvJoinKeepsInv ==
  ASSUME Inv, NEW n \in Nicks, NEW c \in Channels, SrvJoin(n, c)
  PROVE  Inv'
<1>1. PICK s \in Sigils \ {"-"} :
        /\ members' = [members EXCEPT ![c][n] = s]
        /\ On(c) # {} => s = Plain
  <2>1. members' = [members EXCEPT ![c][n] = IF On(c) = {} THEN "@" ELSE ""]
    BY DEF SrvJoin
  <2>2. "@" \in Sigils \ {"-"} /\ "" \in Sigils \ {"-"} /\ Plain = ""
    BY DEF Sigils, Plain
  <2> QED
    BY <2>1, <2>2
<1>2. /\ n \in Online \ On(c) /\ UNCHANGED <<srvNick, account, srvBans>>
      /\ IF n = srvNick THEN Tell(Welcome(c, n, account[n], members'[c]))
         ELSE TellIf(srvNick \in On(c), JoinMsg(c, n, account[n]))
  BY DEF SrvJoin, JoinMsg, Welcome
<1>3. KeepsAsking /\ UNCHANGED clientVars /\ toServer' \in Seq(Cmds)
  BY ActsKeepAsking DEF SrvJoin
<1>4. SrvInv'
  <2>1. SrvInv
    BY DEF Inv
  <2> QED
    BY <1>1, <1>2, <2>1, SrvInvMembers
<1>5. account[n] \in Accounts
  BY <1>2 DEF Online, Inv, SrvInv
<1>6. ASSUME NEW x, ViewOK(x), Agrees(x)
      PROVE  Serves(x)
  <2>1. CASE n = srvNick
    BY <1>1, <1>2, <1>3, <1>5, <1>6, <2>1, OwnJoinServes
  <2>2. CASE n # srvNick
    BY <1>1, <1>2, <1>3, <1>5, <1>6, <2>2, OthersJoinServes
  <2> QED
    BY <2>1, <2>2
<1> QED
  BY <1>3, <1>4, <1>6, ServerKeepsInv

(***************************************************************************)
(* A user leaves a channel: SrvLeave, and the kick of AnswerModeration.    *)
(***************************************************************************)
LeaveMsg(c, n) == [type |-> "leave", c |-> c, n |-> n]

\* A message of the type, with its fields.
LEMMA LeaveMsgFields ==
  ASSUME NEW c \in Channels, NEW n \in Nicks, NEW m, m = LeaveMsg(c, n)
  PROVE  /\ m \in Msgs /\ m.type = "leave" /\ m.c = c /\ m.n = n
         /\ \A x : Read(x, m) = ReadLeave(x, m)
<1>1. m \in [type : {"leave"}, c : Channels, n : Nicks]
  BY DEF LeaveMsg
<1>2. m \in Msgs
  BY <1>1, Zenon DEF Msgs
<1>3. m.type = "leave" /\ m.c = c /\ m.n = n
  BY DEF LeaveMsg
<1> QED
  BY <1>2, <1>3, ReadCases

\* What a client knows that reads of n leaving c.
Parted(x, c, n, y) ==
  /\ y.nick = x.nick /\ y.transaction = x.transaction
  /\ y.chans = IF n = x.nick THEN x.chans \ {c} ELSE x.chans
  /\ \A k \in Channels \ {c} : y.users[k] = x.users[k] /\ y.bans[k] = x.bans[k]
  /\ n # x.nick => y.bans = x.bans /\ y.users[c] = [x.users[c] EXCEPT ![n] = "-"]
  /\ n = x.nick => y.users[c] = Nobody
  /\ \A k \in Nicks :
       y.accounts[k] = IF (n = x.nick \/ k = n) /\ ~Seen(k, y.users)
                       THEN "forgotten" ELSE x.accounts[k]

\* What reading it gives.
LEMMA LeaveRead ==
  ASSUME NEW x, ViewOK(x), NEW c \in x.chans, NEW n \in Nicks,
         NEW m, m = LeaveMsg(c, n), NEW y, y = Read(x, m)
  PROVE  Parted(x, c, n, y)
<1>0. /\ x.users \in [Channels -> [Nicks -> Sigils]] /\ c \in Channels
      /\ x.bans \in [Channels -> {"unloaded", "empty", "set"}]
  BY ViewTypes
<1>1. /\ m.c = c /\ m.n = n
      /\ \A z : Read(z, m) = ReadLeave(z, m)
  BY <1>0, LeaveMsgFields
<1>2. y = ReadLeave(x, m) /\ m.c = c /\ m.n = n
  BY <1>1
<1> DEFINE a == [k \in Nicks |-> IF (n = x.nick \/ k = n) /\ ~Seen(k, Left(x, m))
                                 THEN "forgotten" ELSE x.accounts[k]]
           s == IF n = x.nick THEN x.chans \ {c} ELSE x.chans
           b == IF n = x.nick THEN [x.bans EXCEPT ![c] = "unloaded"] ELSE x.bans
<1>3. y = Knowing(x.nick, s, Left(x, m), b, a, x.transaction)
  BY <1>2 DEF ReadLeave
<1>4. Left(x, m) = [x.users EXCEPT ![c] = IF n = x.nick THEN Nobody
                                          ELSE [x.users[c] EXCEPT ![n] = "-"]]
  BY <1>2 DEF Left
<1> HIDE DEF a, s, b
<1>5. /\ y.nick = x.nick /\ y.chans = s /\ y.users = Left(x, m) /\ y.bans = b
      /\ y.accounts = a /\ y.transaction = x.transaction
  BY <1>3 DEF Knowing
<1>6. \A k \in Channels \ {c} : y.users[k] = x.users[k] /\ y.bans[k] = x.bans[k]
  BY <1>0, <1>4, <1>5 DEF b
<1>7. /\ n # x.nick => y.bans = x.bans /\ y.users[c] = [x.users[c] EXCEPT ![n] = "-"]
      /\ n = x.nick => y.users[c] = Nobody
  BY <1>0, <1>4, <1>5 DEF b
<1>8. \A k \in Nicks :
        y.accounts[k] = IF (n = x.nick \/ k = n) /\ ~Seen(k, y.users)
                        THEN "forgotten" ELSE x.accounts[k]
  BY <1>5 DEF a
<1> QED
  BY <1>5, <1>6, <1>7, <1>8 DEF s, Parted

\* Whoever is taken from a channel is not on it, and nobody else comes or goes.
LEMMA RemovedOn ==
  ASSUME SrvInv, NEW c \in Channels, NEW n \in Nicks,
         members' = [members EXCEPT ![c][n] = "-"]
  PROVE  /\ On(c)' = On(c) \ {n} /\ members'[c] = [members[c] EXCEPT ![n] = "-"]
         /\ \A k \in Channels \ {c} : On(k)' = On(k) /\ members'[k] = members[k]
<1>1. members \in [Channels -> [Nicks -> Sigils]]
  BY DEF SrvInv
<1> QED
  BY <1>1 DEF On

\* The server forgets a ban with its channel only.
BansKept == \A k \in Channels : On(k)' # {} => (k \in srvBans' <=> k \in srvBans)

\* The leaving is told on the channel.
LEMMA LeaveServes ==
  ASSUME Inv, KeepsAsking, UNCHANGED <<srvNick, account>>, BansKept,
         NEW c \in Channels, NEW n \in On(c),
         members' = [members EXCEPT ![c][n] = "-"],
         TellIf(srvNick \in On(c), LeaveMsg(c, n)),
         NEW x, ViewOK(x), Agrees(x)
  PROVE  Serves(x)
<1>1. SrvInv /\ n \in Nicks
  BY DEF Inv, On
<1>2. /\ On(c)' = On(c) \ {n} /\ members'[c] = [members[c] EXCEPT ![n] = "-"]
      /\ \A k \in Channels \ {c} : On(k)' = On(k) /\ members'[k] = members[k]
  BY <1>1, RemovedOn
<1>3. RosterAgrees(x) /\ AccountsAgree(x) /\ BansAgree(x) /\ x.transaction = Idle
  BY DEF Agrees
<1>4. /\ x.chans = {k \in Channels : srvNick \in On(k)} /\ x.nick = srvNick
      /\ \A k \in x.chans : x.users[k] = members[k]
  BY <1>3 DEF RosterAgrees
<1>5. CASE srvNick \in On(c)
  <2> DEFINE m == LeaveMsg(c, n)
             y == Read(x, m)
  <2>1. toClient' = toClient \o <<m>>
    BY <1>5 DEF TellIf, Tell
  <2>2. m \in Msgs
    BY <1>1, LeaveMsgFields
  <2>3. c \in x.chans
    BY <1>4, <1>5
  <2>4. /\ y.nick = x.nick /\ y.transaction = x.transaction
        /\ y.chans = IF n = x.nick THEN x.chans \ {c} ELSE x.chans
        /\ \A k \in Channels \ {c} : y.users[k] = x.users[k] /\ y.bans[k] = x.bans[k]
        /\ n # x.nick => y.bans = x.bans /\ y.users[c] = [x.users[c] EXCEPT ![n] = "-"]
        /\ n = x.nick => y.users[c] = Nobody
        /\ \A k \in Nicks :
             y.accounts[k] = IF (n = x.nick \/ k = n) /\ ~Seen(k, y.users)
                             THEN "forgotten" ELSE x.accounts[k]
    <3>1. Parted(x, c, n, y)
      BY <1>1, <2>3, LeaveRead
    <3> HIDE DEF y, m
    <3> QED
      BY <3>1 DEF Parted
  <2> HIDE DEF y, m
  <2>5. x.users \in [Channels -> [Nicks -> Sigils]]
    BY ViewTypes
  <2>6. RosterAgrees(y)'
    <3>1. ASSUME NEW k \in y.chans
          PROVE  y.users[k] = members'[k]
      BY <1>2, <1>4, <2>4
    <3>2. y.chans = {k \in Channels : srvNick \in On(k)'}
      BY <1>1, <1>2, <1>4, <2>4
    <3> QED
      BY <1>4, <2>4, <3>1, <3>2 DEF RosterAgrees
  <2>7. \A k \in Nicks : Seen(k, y.users) => Seen(k, x.users)
    <3>1. ASSUME NEW k \in Nicks, NEW d \in Channels, y.users[d][k] # "-"
          PROVE  x.users[d][k] # "-"
      BY <2>4, <2>5, <3>1 DEF Nobody
    <3> QED
      BY <3>1, Zenon DEF Seen
  <2>8. \A k \in Nicks \ {n} : n # x.nick /\ Seen(k, x.users) => Seen(k, y.users)
    <3>1. ASSUME NEW k \in Nicks \ {n}, n # x.nick, NEW d \in Channels
          PROVE  y.users[d][k] = x.users[d][k]
      BY <2>4, <2>5, <3>1
    <3> QED
      BY <3>1, Zenon DEF Seen
  <2>9. AccountsAgree(y)'
    <3>1. ASSUME NEW k \in Nicks
          PROVE  y.accounts[k] \in {"forgotten", "known"}
                   \/ (Seen(k, y.users) /\ y.accounts[k] = account[k])
      BY <1>3, <2>4, <2>8 DEF AccountsAgree
    <3>2. ASSUME "names" \notin Queries, NEW k \in Nicks
          PROVE  y.accounts[k] # "forgotten" <=> Seen(k, y.users)
      BY <1>3, <2>4, <2>7, <2>8, <3>2 DEF AccountsAgree
    <3> QED
      BY <3>1, <3>2 DEF AccountsAgree
  <2>10. BansAgree(y)'
    <3>1. ASSUME NEW k \in y.chans
          PROVE  y.bans[k] = x.bans[k] /\ k \in x.chans /\ k \in Channels
      BY <1>4, <2>4
    <3>2. \A k \in y.chans : On(k)' # {}
      BY <2>6 DEF RosterAgrees
    <3> QED
      BY <1>3, <3>1, <3>2 DEF BansAgree, BansKept
  <2>11. Agrees(y)'
    BY <1>3, <2>4, <2>6, <2>9, <2>10 DEF Agrees
  <2>12. \A k \in x.chans : OpIn(y, k) => OpIn(x, k)
    <3>1. x.nick \in Nicks /\ x.chans \subseteq Channels
      BY ViewTypes
    <3> QED
      BY <2>4, <2>5, <3>1 DEF OpIn, Nobody
  <2>13. y = Read(x, m)
    BY DEF y
  <2> QED
    BY <2>1, <2>2, <2>11, <2>12, <2>13, ServesOne
<1>6. CASE srvNick \notin On(c)
  <2>1. toClient' = toClient \o << >>
    BY <1>6 DEF TellIf, Tell
  <2>2. RosterAgrees(x)'
    <3>1. \A k \in x.chans : x.users[k] = members'[k]
      BY <1>2, <1>4, <1>6
    <3>2. x.chans = {k \in Channels : srvNick \in On(k)'}
      BY <1>2, <1>4, <1>6
    <3> QED
      BY <1>4, <3>1, <3>2 DEF RosterAgrees
  <2>3. BansAgree(x)'
    <3>1. \A k \in x.chans : k \in Channels /\ On(k)' # {}
      BY <1>2, <1>4, <1>6
    <3> QED
      BY <1>3, <3>1 DEF BansAgree, BansKept
  <2>4. AccountsAgree(x)'
    BY <1>3 DEF AccountsAgree
  <2>5. Agrees(x)'
    BY <1>3, <2>2, <2>3, <2>4 DEF Agrees
  <2> QED
    BY <2>1, <2>5, ServesNothing
<1> QED
  BY <1>5, <1>6

\* Leaving keeps the invariant, however it came about.
LEMMA LeaveKeepsInv ==
  ASSUME Inv, KeepsAsking, toServer' \in Seq(Cmds),
         UNCHANGED <<srvNick, account, clientVars>>, BansKept,
         NEW c \in Channels, NEW n \in On(c),
         members' = [members EXCEPT ![c][n] = "-"],
         TellIf(srvNick \in On(c), LeaveMsg(c, n))
  PROVE  Inv'
<1>1. SrvInv /\ "-" \in Sigils
  BY DEF Inv, Sigils
<1>2. n \in Online
  BY <1>1 DEF SrvInv
<1>3. SrvInv'
  BY <1>1, <1>2, SrvInvMembers
<1>4. ASSUME NEW x, ViewOK(x), Agrees(x)
      PROVE  Serves(x)
  BY <1>4, LeaveServes
<1> QED
  BY <1>3, <1>4, ServerKeepsInv

\* PART, or a KICK by another.
LEMMA SrvLeaveKeepsInv ==
  ASSUME Inv, NEW n \in Nicks, NEW c \in Channels, SrvLeave(n, c)
  PROVE  Inv'
<1>1. /\ n \in On(c) /\ members' = [members EXCEPT ![c][n] = "-"]
      /\ srvBans' = IF On(c) = {n} THEN srvBans \ {c} ELSE srvBans
      /\ TellIf(srvNick \in On(c), LeaveMsg(c, n)) /\ UNCHANGED <<srvNick, account>>
  BY DEF SrvLeave, LeaveMsg
<1>2. KeepsAsking /\ UNCHANGED clientVars /\ toServer' \in Seq(Cmds)
  BY ActsKeepAsking DEF SrvLeave
<1>3. BansKept
  <2>1. On(c)' = On(c) \ {n}
    BY <1>1, RemovedOn DEF Inv
  <2> QED
    BY <1>1, <2>1 DEF BansKept
<1> QED
  BY <1>1, <1>2, <1>3, LeaveKeepsInv

\* Nothing is said and nothing changes.
LEMMA SilenceServes ==
  ASSUME Inv, KeepsAsking, UNCHANGED srvVars, toClient' = toClient \o << >>,
         UNCHANGED clientVars, toServer' \in Seq(Cmds)
  PROVE  Inv'
<1>1. SrvInv'
  BY SrvInvSame DEF Inv
<1>2. ASSUME NEW x, ViewOK(x), Agrees(x)
      PROVE  Serves(x)
  <2>1. Agrees(x)'
    BY <1>2, AgreesSame
  <2> QED
    BY <1>2, <2>1, ServesNothing
<1> QED
  BY <1>1, <1>2, ServerKeepsInv

\* Every answer takes the oldest command.
Takes(type) ==
  /\ toServer # << >> /\ Asked.type = type /\ toServer' = Tail(toServer)
  /\ UNCHANGED <<srvNick, account, clientVars>> /\ Asked \in Cmds
  /\ toServer' \in Seq(Cmds) /\ (type # "mode" => KeepsAsking)

\* What every answer has in common.
LEMMA Answered ==
  ASSUME Inv, NEW type, Command(type)
  PROVE  Takes(type)
<1>1. /\ toServer # << >> /\ Asked.type = type /\ toServer' = Tail(toServer)
      /\ UNCHANGED <<srvNick, account, clientVars>>
  BY DEF Command, Asked
<1>2. toServer \in Seq(Cmds)
  BY DEF Inv, WireInv
<1>3. Asked \in Cmds /\ toServer' \in Seq(Cmds)
  BY <1>1, <1>2, Taken DEF Asked
<1>4. type # "mode" => KeepsAsking
  BY <1>1, AnsweredKeepsAsking
<1> QED
  BY <1>1, <1>3, <1>4 DEF Takes

\* A KICK we asked for.
LEMMA KickKeepsInv ==
  ASSUME Inv, NEW c, c = Asked.c, NEW n, n = Asked.n, Command("kick"), UNCHANGED srvBans,
         NEW kicks, kicks = (members[c][srvNick] = "@" /\ n \in On(c)),
         members' = IF kicks THEN [members EXCEPT ![c][n] = "-"] ELSE members,
         TellIf(kicks, LeaveMsg(c, n))
  PROVE  Inv'
<1>1. /\ UNCHANGED <<srvNick, account, clientVars>> /\ Asked \in Cmds
      /\ Asked.type = "kick" /\ toServer' \in Seq(Cmds) /\ KeepsAsking
  BY Answered DEF Takes
<1>2. c \in Channels
  BY <1>1, CmdFields
<1>3. CASE kicks
  <2>1. /\ n \in On(c) /\ srvNick \in On(c) /\ members' = [members EXCEPT ![c][n] = "-"]
    BY <1>3 DEF On, Inv, SrvInv
  <2>2. TellIf(srvNick \in On(c), LeaveMsg(c, n))
    BY <1>3, <2>1 DEF TellIf
  <2>3. BansKept
    BY DEF BansKept
  <2> QED
    BY <1>1, <1>2, <2>1, <2>2, <2>3, LeaveKeepsInv
<1>4. CASE ~kicks
  <2>1. UNCHANGED srvVars /\ toClient' = toClient \o << >>
    BY <1>1, <1>4 DEF srvVars, TellIf, Tell
  <2> QED
    BY <1>1, <2>1, SilenceServes
<1> QED
  BY <1>3, <1>4

BanRead(x, y, c, polarity) ==
  /\ y.nick = x.nick /\ y.chans = x.chans /\ y.users = x.users
  /\ y.accounts = x.accounts /\ y.transaction = x.transaction
  /\ y.bans = [x.bans EXCEPT ![c] = ListMode(x.bans[c], polarity)]

\* What reading a change of the ban gives.
LEMMA BanModeRead ==
  ASSUME NEW x, ViewOK(x), NEW c \in Channels, NEW polarity \in {"+", "-"},
         NEW m, m = BanMode(c, polarity), NEW y, y = Read(x, m)
  PROVE  m \in Msgs /\ BanRead(x, y, c, polarity)
<1>1. m \in [type : {"ban"}, c : Channels, polarity : {"+", "-"}]
  BY DEF BanMode
<1>2. m \in Msgs
  BY <1>1, Zenon DEF Msgs
<1>3. m.type = "ban" /\ m.c = c /\ m.polarity = polarity
  BY DEF BanMode
<1>4. y = ReadBan(x, m)
  BY <1>3, ReadCases
<1> QED
  BY <1>2, <1>3, <1>4 DEF ReadBan, Knowing, BanRead

\* The ban is set or lifted, and a client on the channel told.
LEMMA BansChange ==
  ASSUME Inv, NEW c \in Channels, NEW polarity \in {"+", "-"},
         NEW seen \in BOOLEAN, srvNick \in On(c) => seen,
         UNCHANGED <<srvNick, account, members, clientVars>>,
         KeepsAsking, toServer' \in Seq(Cmds),
         srvBans' = Banned(c, polarity), TellIf(seen, BanMode(c, polarity))
  PROVE  Inv'
<1>1. SrvInv'
  BY DEF Inv, SrvInv, On, Online
<1>2. ASSUME NEW x, ViewOK(x), Agrees(x)
      PROVE  Serves(x)
  <2>1. RosterAgrees(x) /\ AccountsAgree(x) /\ BansAgree(x) /\ x.transaction = Idle
    BY <1>2 DEF Agrees
  <2>2. x.bans \in [Channels -> {"unloaded", "empty", "set"}] /\ x.chans \subseteq Channels
    BY <1>2, ViewTypes
  <2>3. \A k \in Channels : k # c => (k \in srvBans' <=> k \in srvBans)
    BY DEF Banned
  <2>4. c \in srvBans' <=> polarity = "+"
    BY DEF Banned
  <2>5. CASE seen
    <3> DEFINE m == BanMode(c, polarity)
               y == Read(x, m)
    <3>1. toClient' = toClient \o <<m>>
      BY <2>5 DEF TellIf, Tell
    <3>2. m = BanMode(c, polarity) /\ y = Read(x, m)
      BY DEF y
    <3> HIDE DEF y, m
    <3>3. /\ m \in Msgs /\ y.nick = x.nick /\ y.chans = x.chans /\ y.users = x.users
          /\ y.accounts = x.accounts /\ y.transaction = x.transaction
          /\ y.bans = [x.bans EXCEPT ![c] = ListMode(x.bans[c], polarity)]
      <4>1. m \in Msgs /\ BanRead(x, y, c, polarity)
        BY <1>2, <3>2, BanModeRead
      <4> QED
        BY <4>1 DEF BanRead
    <3>4. RosterAgrees(y)'
      BY <2>1, <3>3 DEF RosterAgrees, On
    <3>5. AccountsAgree(y)'
      BY <2>1, <3>3 DEF AccountsAgree
    <3>6. BansAgree(y)'
      <4>1. ASSUME NEW k \in x.chans, y.bans[k] # "unloaded"
            PROVE  y.bans[k] = "set" <=> k \in srvBans'
        <5>1. CASE k = c
          <6>1. y.bans[c] = ListMode(x.bans[c], polarity)
            BY <2>2, <3>3
          <6> QED
            BY <2>4, <4>1, <5>1, <6>1 DEF ListMode
        <5>2. CASE k # c
          <6>1. y.bans[k] = x.bans[k]
            BY <2>2, <3>3, <5>2
          <6> QED
            BY <2>1, <2>2, <2>3, <4>1, <5>2, <6>1 DEF BansAgree
        <5> QED
          BY <5>1, <5>2
      <4> QED
        BY <3>3, <4>1 DEF BansAgree
    <3>7. Agrees(y)'
      BY <2>1, <3>3, <3>4, <3>5, <3>6 DEF Agrees
    <3>8. \A k \in x.chans : OpIn(y, k) => OpIn(x, k)
      BY <3>3 DEF OpIn
    <3> QED
      BY <1>2, <3>1, <3>3, <3>7, <3>8, <3>2, ServesOne
  <2>6. CASE ~seen
    <3>1. toClient' = toClient \o << >>
      BY <2>6 DEF TellIf, Tell
    <3>2. c \notin x.chans
      BY <2>1, <2>6 DEF RosterAgrees
    <3>3. RosterAgrees(x)'
      BY <2>1 DEF RosterAgrees, On
    <3>4. AccountsAgree(x)'
      BY <2>1 DEF AccountsAgree
    <3>5. BansAgree(x)'
      BY <2>1, <2>2, <2>3, <3>2 DEF BansAgree
    <3>6. Agrees(x)'
      BY <2>1, <3>3, <3>4, <3>5 DEF Agrees
    <3> QED
      BY <1>2, <3>1, <3>6, ServesNothing
  <2> QED
    BY <2>5, <2>6
<1> QED
  BY <1>1, <1>2, ServerKeepsInv

\* Another operator sets or lifts a ban.
LEMMA SrvBanKeepsInv ==
  ASSUME Inv, NEW c \in Channels, NEW polarity \in {"+", "-"}, SrvBan(c, polarity)
  PROVE  Inv'
<1>1. /\ srvBans' = Banned(c, polarity) /\ UNCHANGED <<srvNick, account, members>>
      /\ TellIf(srvNick \in On(c), BanMode(c, polarity))
  BY DEF SrvBan
<1>2. KeepsAsking /\ UNCHANGED clientVars /\ toServer' \in Seq(Cmds)
  BY ActsKeepAsking DEF SrvBan
<1> DEFINE seen == srvNick \in On(c)
<1>3. seen \in BOOLEAN /\ (srvNick \in On(c) => seen) /\ TellIf(seen, BanMode(c, polarity))
  BY <1>1
<1> HIDE DEF seen
<1> QED
  BY <1>1, <1>2, <1>3, BansChange

\* A ban we asked to set or to lift.
LEMMA BanKeepsInv ==
  ASSUME Inv, NEW c, c = Asked.c, NEW type \in DOMAIN Polarity, Command(type),
         UNCHANGED members,
         NEW opped \in BOOLEAN, opped <=> members[c][srvNick] = "@",
         srvBans' = IF opped THEN Banned(c, Polarity[type]) ELSE srvBans,
         TellIf(opped, BanMode(c, Polarity[type]))
  PROVE  Inv'
<1>1. type # "mode" /\ Polarity[type] \in {"+", "-"}
  BY DEF Polarity
<1>2. /\ UNCHANGED <<srvNick, account, clientVars>> /\ Asked \in Cmds
      /\ toServer' \in Seq(Cmds) /\ KeepsAsking
  BY <1>1, Answered DEF Takes
<1>3. c \in Channels
  BY <1>2, CmdFields
<1>4. CASE opped
  <2>1. TellIf(TRUE, BanMode(c, Polarity[type])) /\ srvBans' = Banned(c, Polarity[type])
    BY <1>4 DEF TellIf
  <2> QED
    BY <1>1, <1>2, <1>3, <2>1, BansChange
<1>5. CASE ~opped
  <2>1. UNCHANGED srvVars /\ toClient' = toClient \o << >>
    BY <1>2, <1>5 DEF srvVars, TellIf, Tell
  <2> QED
    BY <1>2, <2>1, SilenceServes
<1> QED
  BY <1>4, <1>5

\* Moderation we asked for.
LEMMA AnswerModerationKeepsInv ==
  ASSUME Inv, AnswerModeration
  PROVE  Inv'
<1> DEFINE c == Asked.c
           n == Asked.n
           opped == members[c][srvNick] = "@"
           kicks == opped /\ n \in On(c)
<1>1. CASE /\ Command("kick") /\ UNCHANGED srvBans
           /\ members' = IF kicks THEN [members EXCEPT ![c][n] = "-"] ELSE members
           /\ TellIf(kicks, LeaveMsg(c, n))
  BY <1>1, KickKeepsInv
<1>2. ASSUME NEW type \in DOMAIN Polarity, Command(type), UNCHANGED members,
             srvBans' = IF opped THEN Banned(c, Polarity[type]) ELSE srvBans,
             TellIf(opped, BanMode(c, Polarity[type]))
      PROVE  Inv'
  BY <1>2, BanKeepsInv
<1> QED
  BY <1>1, <1>2 DEF AnswerModeration, LeaveMsg

(***************************************************************************)
(* A user leaves the network or changes nickname: SrvQuit, SrvNickChange.  *)
(***************************************************************************)
QuitMsg(n) == [type |-> "quit", n |-> n]

\* What reading it gives.
LEMMA QuitMsgRead ==
  ASSUME NEW x, ViewOK(x), NEW n \in Nicks, NEW m, m = QuitMsg(n), NEW y, y = Read(x, m)
  PROVE  /\ m \in Msgs /\ y.nick = x.nick /\ y.chans = x.chans /\ y.bans = x.bans
         /\ y.users = [c \in Channels |-> [x.users[c] EXCEPT ![n] = "-"]]
         /\ y.accounts = [x.accounts EXCEPT ![n] = "forgotten"]
         /\ y.transaction = x.transaction
<1>1. m \in [type : {"quit"}, n : Nicks]
  BY DEF QuitMsg
<1>2. m \in Msgs
  BY <1>1, Zenon DEF Msgs
<1>3. m.type = "quit" /\ m.n = n
  BY DEF QuitMsg
<1>4. y = ReadQuit(x, m)
  BY <1>3, ReadCases
<1> QED
  BY <1>2, <1>3, <1>4 DEF ReadQuit, Knowing

\* A QUIT is told to whom it concerns.
LEMMA SrvQuitKeepsInv ==
  ASSUME Inv, NEW n \in Nicks, SrvQuit(n)
  PROVE  Inv'
<1>1. /\ n \in Online \ {srvNick} /\ account' = [account EXCEPT ![n] = "offline"]
      /\ members' = [c \in Channels |-> [members[c] EXCEPT ![n] = "-"]]
      /\ srvBans' = {c \in srvBans : On(c) # {n}}
      /\ TellIf(Common(n), QuitMsg(n)) /\ srvNick' = srvNick
  BY DEF SrvQuit, QuitMsg
<1>2. KeepsAsking /\ UNCHANGED clientVars /\ toServer' \in Seq(Cmds)
  BY ActsKeepAsking DEF SrvQuit
<1>3. /\ account \in [Nicks -> Accounts \cup {"offline"}] /\ srvNick \in Online
      /\ members \in [Channels -> [Nicks -> Sigils]] /\ IsFiniteSet(Online)
      /\ \A c \in Channels : On(c) \subseteq Online
  BY DEF Inv, SrvInv
<1>4. \A c \in Channels : On(c)' = On(c) \ {n}
  BY <1>1, <1>3 DEF On
<1>5. SrvInv'
  <2>1. Online' = Online \ {n}
    BY <1>1, <1>3 DEF Online
  <2>2. IsFiniteSet(Online')
    BY <1>3, <2>1, FS_RemoveElement
  <2>3. members' \in [Channels -> [Nicks -> Sigils]]
    <3>1. "-" \in Sigils
      BY DEF Sigils
    <3> QED
      BY <1>1, <1>3, <3>1
  <2>4. account' \in [Nicks -> Accounts \cup {"offline"}] /\ srvNick' \in Nicks
    BY <1>1, <1>3 DEF Online
  <2> QED
    BY <1>1, <1>3, <1>4, <2>1, <2>2, <2>3, <2>4 DEF SrvInv
<1>6. ASSUME NEW x, ViewOK(x), Agrees(x)
      PROVE  Serves(x)
  <2>1. RosterAgrees(x) /\ AccountsAgree(x) /\ BansAgree(x) /\ x.transaction = Idle
    BY <1>6 DEF Agrees
  <2>2. /\ x.chans = {k \in Channels : srvNick \in On(k)} /\ x.nick = srvNick
        /\ \A k \in x.chans : x.users[k] = members[k]
    BY <2>1 DEF RosterAgrees
  <2>3. /\ x.users \in [Channels -> [Nicks -> Sigils]]
        /\ x.accounts \in [Nicks -> Accounts \cup {"forgotten", "known"}]
    BY <1>6, ViewTypes
  <2>4. x.chans = {k \in Channels : srvNick' \in On(k)'}
    BY <1>1, <1>4, <2>2
  <2>5. \A k \in x.chans : x.bans[k] # "unloaded" => (x.bans[k] = "set" <=> k \in srvBans')
    BY <1>1, <2>1, <2>2 DEF BansAgree
  <2>6. CASE Common(n)
    <3> DEFINE m == QuitMsg(n)
               y == Read(x, m)
    <3>1. toClient' = toClient \o <<m>>
      BY <1>1, <2>6 DEF TellIf, Tell
    <3>2. /\ m \in Msgs /\ y.nick = x.nick /\ y.chans = x.chans /\ y.bans = x.bans
          /\ y.users = [c \in Channels |-> [x.users[c] EXCEPT ![n] = "-"]]
          /\ y.accounts = [x.accounts EXCEPT ![n] = "forgotten"]
          /\ y.transaction = x.transaction
      BY <1>6, QuitMsgRead
    <3> HIDE DEF y, m
    <3>3. \A k \in x.chans : y.users[k] = members'[k]
      BY <1>1, <2>2, <3>2
    <3>4. RosterAgrees(y)'
      BY <1>1, <2>2, <2>4, <3>2, <3>3 DEF RosterAgrees
    <3>5. /\ ~Seen(n, y.users)
          /\ \A k \in Nicks \ {n} : Seen(k, y.users) <=> Seen(k, x.users)
      BY <2>3, <3>2 DEF Seen
    <3>6. AccountsAgree(y)'
      BY <1>1, <1>3, <2>1, <2>3, <3>2, <3>5 DEF AccountsAgree
    <3>7. BansAgree(y)'
      BY <2>5, <3>2 DEF BansAgree
    <3>8. Agrees(y)'
      BY <2>1, <3>2, <3>4, <3>6, <3>7 DEF Agrees
    <3>9. \A k \in x.chans : OpIn(y, k) => OpIn(x, k)
      BY <1>1, <2>2, <2>3, <3>2 DEF OpIn
    <3>10. y = Read(x, m)
      BY DEF y
    <3> QED
      BY <1>2, <1>6, <3>1, <3>2, <3>8, <3>9, <3>10, ServesOne
  <2>7. CASE ~Common(n)
    <3>1. toClient' = toClient \o << >>
      BY <1>1, <2>7 DEF TellIf, Tell
    <3>2. ASSUME NEW k \in x.chans
          PROVE  x.users[k] = members'[k]
      <4>1. k \in Channels /\ members[k][n] = "-"
        BY <2>2, <2>7 DEF Common, On
      <4>2. members'[k] = [members[k] EXCEPT ![n] = "-"]
        BY <1>1, <4>1
      <4> QED
        BY <1>3, <2>2, <4>1, <4>2
    <3>3. RosterAgrees(x)'
      BY <1>1, <2>2, <2>4, <3>2 DEF RosterAgrees
    <3>4. ~Seen(n, x.users)
      BY <1>6, <2>1, <2>7, SeenIsCommon
    <3>5. AccountsAgree(x)'
      BY <1>1, <1>3, <2>1, <3>4 DEF AccountsAgree
    <3>6. BansAgree(x)'
      BY <2>5 DEF BansAgree
    <3>7. Agrees(x)'
      BY <2>1, <3>3, <3>5, <3>6 DEF Agrees
    <3> QED
      BY <1>2, <1>6, <3>1, <3>7, ServesNothing
  <2> QED
    BY <2>6, <2>7
<1> QED
  BY <1>2, <1>5, <1>6, ServerKeepsInv

\* Nickname new stands where n stood.
Renamed(users, n, new) ==
  [c \in Channels |-> [users[c] EXCEPT ![new] = users[c][n], ![n] = "-"]]

\* Renaming moves one user of each channel.
LEMMA RenamedParts ==
  ASSUME NEW users \in [Channels -> [Nicks -> Sigils]], NEW n \in Nicks, NEW new \in Nicks,
         n # new, NEW u, u = Renamed(users, n, new)
  PROVE  /\ u \in [Channels -> [Nicks -> Sigils]]
         /\ \A c \in Channels : u[c][new] = users[c][n] /\ u[c][n] = "-"
         /\ \A c \in Channels, k \in Nicks \ {n, new} : u[c][k] = users[c][k]
         /\ Seen(new, u) <=> Seen(n, users)
         /\ ~Seen(n, u)
         /\ \A k \in Nicks \ {n, new} : Seen(k, u) <=> Seen(k, users)
<1>1. ASSUME NEW c \in Channels
      PROVE  /\ u[c] = [users[c] EXCEPT ![new] = users[c][n], ![n] = "-"]
             /\ users[c] \in [Nicks -> Sigils] /\ users[c][n] \in Sigils
  BY DEF Renamed
<1>2. ASSUME NEW c \in Channels
      PROVE  /\ u[c][new] = users[c][n] /\ u[c][n] = "-"
             /\ \A k \in Nicks \ {n, new} : u[c][k] = users[c][k]
             /\ u[c] \in [Nicks -> Sigils]
  <2>1. PICK g \in [Nicks -> Sigils], s \in Sigils : g = users[c] /\ s = users[c][n]
    BY <1>1
  <2>2. u[c] = [g EXCEPT ![new] = s, ![n] = "-"]
    BY <1>1, <2>1
  <2>3. "-" \in Sigils
    BY DEF Sigils
  <2>4. u[c] \in [Nicks -> Sigils]
    BY <2>2, <2>3
  <2>5. u[c][new] = s /\ u[c][n] = "-" /\ \A k \in Nicks \ {n, new} : u[c][k] = g[k]
    BY <2>2
  <2> QED
    BY <2>1, <2>4, <2>5
<1>3. u \in [Channels -> [Nicks -> Sigils]]
  <2>1. DOMAIN u = Channels /\ u = [c \in Channels |-> u[c]]
    BY DEF Renamed
  <2> QED
    BY <1>2, <2>1
<1>4. /\ Seen(new, u) <=> Seen(n, users)
      /\ ~Seen(n, u)
      /\ \A k \in Nicks \ {n, new} : Seen(k, u) <=> Seen(k, users)
  BY <1>2, Zenon DEF Seen
<1> QED
  BY <1>2, <1>3, <1>4

\* A channel with neither nickname stays.
LEMMA RenamedSame ==
  ASSUME NEW users \in [Channels -> [Nicks -> Sigils]], NEW n \in Nicks, NEW new \in Nicks,
         NEW c \in Channels, users[c][n] = "-", users[c][new] = "-"
  PROVE  Renamed(users, n, new)[c] = users[c]
<1>1. Renamed(users, n, new)[c] = [users[c] EXCEPT ![new] = "-", ![n] = "-"]
  BY DEF Renamed
<1>2. users[c] \in [Nicks -> Sigils]
  OBVIOUS
<1> QED
  BY <1>1, <1>2

NickMsg(n, new) == [type |-> "nick", n |-> n, new |-> new]

\* What reading it gives.
LEMMA NickMsgRead ==
  ASSUME NEW x, ViewOK(x), NEW n \in Nicks, NEW new \in Nicks,
         NEW m, m = NickMsg(n, new), NEW y, y = Read(x, m)
  PROVE  /\ m \in Msgs /\ y.nick = (IF n = x.nick THEN new ELSE x.nick)
         /\ y.chans = x.chans /\ y.bans = x.bans /\ y.transaction = x.transaction
         /\ y.users = Renamed(x.users, n, new)
         /\ y.accounts = [x.accounts EXCEPT ![new] = x.accounts[n], ![n] = "forgotten"]
<1>1. m \in [type : {"nick"}, n : Nicks, new : Nicks]
  BY DEF NickMsg
<1>2. m \in Msgs
  BY <1>1, Zenon DEF Msgs
<1>3. m.type = "nick" /\ m.n = n /\ m.new = new
  BY DEF NickMsg
<1>4. y = ReadNick(x, m)
  BY <1>3, ReadCases
<1>5. y = Knowing(IF n = x.nick THEN new ELSE x.nick, x.chans, Renamed(x.users, n, new),
                  x.bans, [x.accounts EXCEPT ![new] = x.accounts[n], ![n] = "forgotten"],
                  x.transaction)
  BY <1>3, <1>4 DEF ReadNick, Renamed
<1> QED
  BY <1>2, <1>5 DEF Knowing

\* A NICK, ours or of another, to a nickname nobody has.
LEMMA SrvNickChangeKeepsInv ==
  ASSUME Inv, NEW n \in Nicks, NEW new \in Nicks, SrvNickChange(n, new)
  PROVE  Inv'
<1>1. /\ n \in Online /\ new \notin Online /\ n # new
      /\ account' = [account EXCEPT ![new] = account[n], ![n] = "offline"]
      /\ members' = Renamed(members, n, new)
      /\ srvNick' = (IF n = srvNick THEN new ELSE srvNick)
      /\ TellIf(n = srvNick \/ Common(n), NickMsg(n, new)) /\ srvBans' = srvBans
  BY DEF SrvNickChange, NickMsg, Renamed
<1>2. KeepsAsking /\ UNCHANGED clientVars /\ toServer' \in Seq(Cmds)
  BY ActsKeepAsking DEF SrvNickChange
<1>3. /\ account \in [Nicks -> Accounts \cup {"offline"}] /\ srvNick \in Online
      /\ members \in [Channels -> [Nicks -> Sigils]] /\ IsFiniteSet(Online)
      /\ \A c \in Channels : On(c) \subseteq Online
      /\ srvNick \in Nicks
  BY DEF Inv, SrvInv
<1>4. /\ members' \in [Channels -> [Nicks -> Sigils]]
      /\ \A c \in Channels : members'[c][new] = members[c][n] /\ members'[c][n] = "-"
      /\ \A c \in Channels, k \in Nicks \ {n, new} : members'[c][k] = members[c][k]
  BY <1>1, <1>3, RenamedParts
<1>5. \A c \in Channels : members[c][new] = "-"
  BY <1>1, <1>3 DEF On
<1>6. SrvInv'
  <2>1. account' \in [Nicks -> Accounts \cup {"offline"}]
    BY <1>1, <1>3
  <2>2. Online' = (Online \ {n}) \cup {new}
    <3>1. account'[n] = "offline" /\ account'[new] = account[n]
      BY <1>1, <1>3
    <3>2. \A k \in Nicks \ {n, new} : account'[k] = account[k]
      BY <1>1, <1>3
    <3>3. account[n] # "offline"
      BY <1>1 DEF Online
    <3> QED
      BY <3>1, <3>2, <3>3 DEF Online
  <2>3. IsFiniteSet(Online')
    BY <1>3, <2>2, FS_RemoveElement, FS_AddElement
  <2>4. srvNick' \in Nicks /\ srvNick' \in Online'
    BY <1>1, <1>3, <2>2
  <2>5. ASSUME NEW c \in Channels
        PROVE  On(c)' \subseteq Online'
    BY <1>3, <1>4, <2>2 DEF On
  <2> QED
    BY <1>4, <2>1, <2>3, <2>4, <2>5 DEF SrvInv
<1>7. ASSUME NEW x, ViewOK(x), Agrees(x)
      PROVE  Serves(x)
  <2>1. RosterAgrees(x) /\ AccountsAgree(x) /\ BansAgree(x) /\ x.transaction = Idle
    BY <1>7 DEF Agrees
  <2>2. /\ x.chans = {k \in Channels : srvNick \in On(k)} /\ x.nick = srvNick
        /\ \A k \in x.chans : x.users[k] = members[k]
    BY <2>1 DEF RosterAgrees
  <2>3. /\ x.users \in [Channels -> [Nicks -> Sigils]]
        /\ x.accounts \in [Nicks -> Accounts \cup {"forgotten", "known"}]
        /\ x.chans \subseteq Channels
    BY <1>7, ViewTypes
  <2>4. x.chans = {k \in Channels : srvNick' \in On(k)'}
    BY <1>1, <1>3, <1>4, <2>2 DEF On
  <2>5. CASE n = srvNick \/ Common(n)
    <3> DEFINE m == NickMsg(n, new)
               y == Read(x, m)
    <3>1. toClient' = toClient \o <<m>>
      BY <1>1, <2>5 DEF TellIf, Tell
    <3>2. /\ m \in Msgs /\ y.nick = (IF n = x.nick THEN new ELSE x.nick)
          /\ y.chans = x.chans /\ y.bans = x.bans /\ y.transaction = x.transaction
          /\ y.users = Renamed(x.users, n, new)
          /\ y.accounts = [x.accounts EXCEPT ![new] = x.accounts[n], ![n] = "forgotten"]
      BY <1>7, NickMsgRead
    <3> HIDE DEF y, m
    <3>3. /\ \A c \in Channels : y.users[c][new] = x.users[c][n] /\ y.users[c][n] = "-"
          /\ \A c \in Channels, k \in Nicks \ {n, new} : y.users[c][k] = x.users[c][k]
          /\ Seen(new, y.users) <=> Seen(n, x.users)
          /\ ~Seen(n, y.users)
          /\ \A k \in Nicks \ {n, new} : Seen(k, y.users) <=> Seen(k, x.users)
      BY <1>1, <2>3, <3>2, RenamedParts
    <3>4. ASSUME NEW k \in x.chans
          PROVE  y.users[k] = members'[k]
      <4>1. k \in Channels /\ x.users[k] = members[k]
        BY <2>2
      <4>2. y.users[k] = [x.users[k] EXCEPT ![new] = x.users[k][n], ![n] = "-"]
        BY <3>2, <4>1 DEF Renamed
      <4>3. members'[k] = [members[k] EXCEPT ![new] = members[k][n], ![n] = "-"]
        BY <1>1, <4>1 DEF Renamed
      <4> QED
        BY <4>1, <4>2, <4>3
    <3>5. RosterAgrees(y)'
      BY <1>1, <2>2, <2>4, <3>2, <3>4 DEF RosterAgrees
    <3>6. AccountsAgree(y)'
      <4>1. /\ y.accounts[new] = x.accounts[n] /\ y.accounts[n] = "forgotten"
            /\ account'[new] = account[n]
            /\ \A k \in Nicks \ {n, new} :
                 y.accounts[k] = x.accounts[k] /\ account'[k] = account[k]
        BY <1>1, <1>3, <2>3, <3>2
      <4>2. ASSUME NEW k \in Nicks
            PROVE  y.accounts[k] \in {"forgotten", "known"}
                     \/ (Seen(k, y.users) /\ y.accounts[k] = account'[k])
        BY <2>1, <3>3, <4>1 DEF AccountsAgree
      <4>3. ASSUME "names" \notin Queries, NEW k \in Nicks
            PROVE  y.accounts[k] # "forgotten" <=> Seen(k, y.users)
        BY <2>1, <3>3, <4>1, <4>3 DEF AccountsAgree
      <4> QED
        BY <4>2, <4>3 DEF AccountsAgree
    <3>7. BansAgree(y)'
      BY <1>1, <2>1, <3>2 DEF BansAgree
    <3>8. Agrees(y)'
      BY <2>1, <3>2, <3>5, <3>6, <3>7 DEF Agrees
    <3>9. ASSUME NEW k \in x.chans, OpIn(y, k)
          PROVE  OpIn(x, k)
      <4>1. x.nick # new /\ x.nick \in Nicks /\ k \in Channels
        BY <1>1, <1>3, <2>2, <2>3
      <4> QED
        BY <3>2, <3>3, <3>9, <4>1 DEF OpIn
    <3>10. y = Read(x, m)
      BY DEF y
    <3> QED
      BY <1>2, <1>7, <3>1, <3>2, <3>8, <3>9, <3>10, ServesOne
  <2>6. CASE n # srvNick /\ ~Common(n)
    <3>1. toClient' = toClient \o << >>
      BY <1>1, <2>6 DEF TellIf, Tell
    <3>2. ASSUME NEW k \in x.chans
          PROVE  x.users[k] = members'[k]
      <4>1. k \in Channels /\ members[k][n] = "-" /\ members[k][new] = "-"
        BY <1>5, <2>2, <2>6 DEF Common, On
      <4>2. Renamed(members, n, new)[k] = members[k]
        BY <1>3, <4>1, RenamedSame
      <4> QED
        BY <1>1, <2>2, <4>2
    <3>3. RosterAgrees(x)'
      BY <1>1, <2>2, <2>4, <2>6, <3>2 DEF RosterAgrees
    <3>4. ~Seen(n, x.users) /\ ~Seen(new, x.users)
      <4>1. ~Common(new)
        BY <1>5 DEF Common, On
      <4> QED
        BY <1>7, <2>1, <2>6, <4>1, SeenIsCommon
    <3>5. AccountsAgree(x)'
      <4>1. \A k \in Nicks \ {n, new} : account'[k] = account[k]
        BY <1>1, <1>3
      <4> QED
        BY <2>1, <3>4, <4>1 DEF AccountsAgree
    <3>6. BansAgree(x)'
      BY <1>1, <2>1 DEF BansAgree
    <3>7. Agrees(x)'
      BY <2>1, <3>3, <3>5, <3>6 DEF Agrees
    <3> QED
      BY <1>2, <1>7, <3>1, <3>7, ServesNothing
  <2> QED
    BY <2>5, <2>6
<1> QED
  BY <1>2, <1>6, <1>7, ServerKeepsInv

(***************************************************************************)
(* Replies to queries: AnswerQuery.                                        *)
(***************************************************************************)
LEMMA OnFinite ==
  ASSUME Inv, NEW c \in Channels
  PROVE  IsFiniteSet(On(c)) /\ On(c) \subseteq Nicks /\ members[c] \in [Nicks -> Sigils]
<1>1. On(c) \subseteq Online /\ IsFiniteSet(Online)
  BY DEF Inv, SrvInv
<1>2. IsFiniteSet(On(c))
  BY <1>1, FS_Subset
<1> QED
  BY <1>2 DEF On, Inv, SrvInv

\* NAMES changes no channel we are on; its strangers get an entry.
LEMMA NamesServes ==
  ASSUME Inv, KeepsAsking, UNCHANGED srvVars, NEW c \in Channels, "names" \in Queries,
         Tell(Names(c, members[c])), NEW x, ViewOK(x), Agrees(x)
  PROVE  Serves(x)
<1>1. PICK sigils \in [Nicks -> Sigils] : sigils = members[c]
  BY OnFinite
<1>2. PICK M : M = {n \in Nicks : sigils[n] # "-"}
  OBVIOUS
<1>3. M = On(c) /\ IsFiniteSet(M)
  BY <1>1, <1>2, OnFinite DEF On
<1>4. RosterAgrees(x) /\ AccountsAgree(x) /\ BansAgree(x) /\ x.transaction = Idle
  BY DEF Agrees
<1>5. /\ x.users \in [Channels -> [Nicks -> Sigils]] /\ x.chans \subseteq Channels
      /\ x.accounts \in [Nicks -> Accounts \cup {"forgotten", "known"}]
  BY ViewTypes
<1>6. c \in x.chans => x.users[c] = sigils
  BY <1>1, <1>4 DEF RosterAgrees
<1>7. PICK y : y = Knowing(x.nick, x.chans,
                           IF c \notin x.chans THEN x.users
                           ELSE [x.users EXCEPT ![c] = sigils],
                           x.bans, Learned(x, M), Idle)
  OBVIOUS
<1>8. /\ Names(c, sigils) \in Seq(Msgs)
      /\ Path(x, Names(c, sigils), y, x.chans)
  <2>1. x.chans \in SUBSET Channels /\ (c \in x.chans \cap x.chans => x.users[c] = sigils)
    BY <1>5, <1>6
  <2> QED
    BY <1>2, <1>3, <1>4, <1>7, <2>1, PathNames
<1>9. /\ y.nick = x.nick /\ y.chans = x.chans /\ y.bans = x.bans
      /\ y.users = x.users /\ y.accounts = Learned(x, M) /\ y.transaction = Idle
  <2>1. y.users = IF c \notin x.chans THEN x.users ELSE [x.users EXCEPT ![c] = sigils]
    BY <1>7, KnowingParts
  <2>2. c \in x.chans => [x.users EXCEPT ![c] = sigils] = x.users
    BY <1>5, <1>6
  <2> QED
    BY <1>7, <2>1, <2>2 DEF Knowing
<1>10. Agrees(y)
  <2>1. AccountsAgree(y)
    <3>1. \A n \in Nicks : y.accounts[n] \in {x.accounts[n], "known"}
      BY <1>9 DEF Learned
    <3> QED
      BY <1>4, <1>9, <3>1 DEF AccountsAgree
  <2>2. RosterAgrees(y) /\ BansAgree(y)
    BY <1>4, <1>9 DEF RosterAgrees, BansAgree
  <2> QED
    BY <1>9, <2>1, <2>2 DEF Agrees
<1>11. Agrees(y)'
  BY <1>10, AgreesSame
<1>12. toClient' = toClient \o Names(c, sigils)
  BY <1>1 DEF Tell
<1> QED
  BY <1>8, <1>11, <1>12, ServesMany

WhoSays(c) == WhoReplies(On(c)) \o <<[type |-> "endofwho"]>>

\* WHO gives an entry to users we share a channel with.
LEMMA WhoServes ==
  ASSUME Inv, KeepsAsking, UNCHANGED srvVars, NEW c \in Channels,
         Tell(WhoSays(c)), NEW x, ViewOK(x), Agrees(x)
  PROVE  Serves(x)
<1>1. PICK M \in SUBSET Nicks : M = On(c) /\ IsFiniteSet(M)
  BY OnFinite
<1>2. RosterAgrees(x) /\ AccountsAgree(x) /\ BansAgree(x) /\ x.transaction = Idle
  BY DEF Agrees
<1>3. PICK y : y = Knowing(x.nick, x.chans, x.users, x.bans,
                           Learned(x, {n \in M : Seen(n, x.users)}), Idle)
  OBVIOUS
<1>4. /\ WhoReplies(M) \o <<[type |-> "endofwho"]>> \in Seq(Msgs)
      /\ Path(x, WhoReplies(M) \o <<[type |-> "endofwho"]>>, y, x.chans)
  BY <1>1, <1>2, <1>3, PathWho
<1>5. /\ y.nick = x.nick /\ y.chans = x.chans /\ y.users = x.users /\ y.bans = x.bans
      /\ y.accounts = Learned(x, {n \in M : Seen(n, x.users)}) /\ y.transaction = Idle
  BY <1>3, KnowingParts
<1>6. AccountsAgree(y)
  <2>1. \A n \in Nicks : y.accounts[n] = IF n \in M /\ Seen(n, x.users)
                                             /\ x.accounts[n] = "forgotten"
                                         THEN "known" ELSE x.accounts[n]
    BY <1>5 DEF Learned
  <2> QED
    BY <1>2, <1>5, <2>1 DEF AccountsAgree
<1>7. Agrees(y)
  <2>1. RosterAgrees(y) /\ BansAgree(y)
    BY <1>2, <1>5 DEF RosterAgrees, BansAgree
  <2> QED
    BY <1>5, <1>6, <2>1 DEF Agrees
<1>8. Agrees(y)'
  BY <1>7, AgreesSame
<1>9. PICK r \in Seq(Msgs) : r = WhoReplies(M) \o <<[type |-> "endofwho"]>>
  BY <1>4
<1>10. toClient' = toClient \o r /\ Path(x, r, y, x.chans)
  BY <1>1, <1>4, <1>9 DEF Tell, WhoSays
<1> QED
  BY <1>8, <1>10, ServesMany

\* The ban list is the one of the server.
LEMMA BansServes ==
  ASSUME Inv, KeepsAsking, UNCHANGED srvVars, NEW c \in Channels,
         Tell(BanReplies(c, c \in srvBans)), NEW x, ViewOK(x), Agrees(x)
  PROVE  Serves(x)
<1>1. PICK set \in BOOLEAN : set <=> c \in srvBans
  OBVIOUS
<1>2. RosterAgrees(x) /\ AccountsAgree(x) /\ BansAgree(x) /\ x.transaction = Idle
  BY DEF Agrees
<1>3. PICK y : y = Knowing(x.nick, x.chans, x.users,
                           IF c \notin x.chans THEN x.bans
                           ELSE [x.bans EXCEPT ![c] = IF set THEN "set" ELSE "empty"],
                           x.accounts, Idle)
  OBVIOUS
<1>4. BanReplies(c, set) \in Seq(Msgs) /\ Path(x, BanReplies(c, set), y, x.chans)
  BY <1>2, <1>3, PathBans
<1>5. /\ y.nick = x.nick /\ y.chans = x.chans /\ y.users = x.users
      /\ y.bans = IF c \notin x.chans THEN x.bans
                  ELSE [x.bans EXCEPT ![c] = IF set THEN "set" ELSE "empty"]
      /\ y.accounts = x.accounts /\ y.transaction = Idle
  BY <1>3, KnowingParts
<1>6. BansAgree(y)
  <2>1. x.bans \in [Channels -> {"unloaded", "empty", "set"}] /\ x.chans \subseteq Channels
    BY ViewTypes
  <2> QED
    BY <1>1, <1>2, <1>5, <2>1 DEF BansAgree
<1>7. Agrees(y)
  <2>1. RosterAgrees(y) /\ AccountsAgree(y)
    BY <1>2, <1>5 DEF RosterAgrees, AccountsAgree
  <2> QED
    BY <1>5, <1>6, <2>1 DEF Agrees
<1>8. Agrees(y)'
  BY <1>7, AgreesSame
<1>9. toClient' = toClient \o BanReplies(c, set)
  BY <1>1 DEF Tell, BanReplies
<1> QED
  BY <1>4, <1>8, <1>9, ServesMany

ModeIs(c) == [type |-> "channelmodeis", c |-> c]

\* What reading it gives.
LEMMA ModeIsRead ==
  ASSUME NEW x, NEW c \in Channels, NEW m, m = ModeIs(c)
  PROVE  m \in Msgs /\ Read(x, m) = x /\ m.type = "channelmodeis" /\ m.c = c
<1>1. m \in [type : {"endofnames", "endofbanlist", "channelmodeis"}, c : Channels]
  BY DEF ModeIs
<1>2. m \in Msgs
  BY <1>1, Zenon DEF Msgs
<1>3. m.type = "channelmodeis" /\ m.c = c
  BY DEF ModeIs
<1> QED
  BY <1>2, <1>3, ReadCases

\* The oldest command is the only MODE that may be gone.
LEMMA ModeTaken ==
  ASSUME Inv, toServer # << >>, toServer' = Tail(toServer), NEW c, AsksModes(toServer, c)
  PROVE  AsksModes(toServer', c) \/ c = Asked.c
<1>1. toServer \in Seq(Cmds)
  BY DEF Inv, WireInv
<1>2. /\ Len(toServer) \in Nat /\ Len(Tail(toServer)) = Len(toServer) - 1
      /\ Head(toServer) = toServer[1]
      /\ \A i \in 1 .. Len(toServer) - 1 : Tail(toServer)[i] = toServer[i + 1]
  BY <1>1, Taken
<1>3. PICK i \in 1 .. Len(toServer) : toServer[i].type = "mode" /\ toServer[i].c = c
  BY DEF AsksModes
<1>4. CASE i = 1
  BY <1>2, <1>3, <1>4 DEF Asked
<1>5. CASE i # 1
  <2>1. i - 1 \in 1 .. Len(Tail(toServer)) /\ Tail(toServer)[i - 1] = toServer[i]
    BY <1>2, <1>3, <1>5
  <2> QED
    BY <1>3, <2>1 DEF AsksModes
<1> QED
  BY <1>4, <1>5

\* The answer to MODE takes its place, or we are on the channel no more.
LEMMA ModeServes ==
  ASSUME Inv, toServer # << >>, toServer' = Tail(toServer), UNCHANGED srvVars,
         NEW c \in Channels, c = Asked.c,
         TellIf(srvNick \in On(c), ModeIs(c)), NEW x, ViewOK(x), Agrees(x)
  PROVE  Serves(x)
<1>1. Agrees(x)'
  BY AgreesSame
<1>2. CASE srvNick \in On(c)
  <2> DEFINE m == ModeIs(c)
             r == <<m>>
  <2>1. m \in Msgs /\ Read(x, m) = x /\ m.type = "channelmodeis" /\ m.c = c
    BY ModeIsRead
  <2>2. toClient' = toClient \o r
    BY <1>2 DEF TellIf, Tell
  <2> HIDE DEF m
  <2>3. Path(x, r, x, x.chans)
    <3>1. \A k \in x.chans : OpIn(x, k) => OpIn(x, k)
      OBVIOUS
    <3> QED
      BY <2>1, <3>1, PathOne
  <2>4. r \in Seq(Msgs)
    BY <2>1
  <2>5. TellsModes(r, 1, c)
    <3>1. Len(r) = 1 /\ r[1] = m /\ 1 \in 1 .. Len(r)
      OBVIOUS
    <3> QED
      BY <2>1, <3>1 DEF TellsModes
  <2> HIDE DEF r
  <2>6. StillAsked(toServer, toServer', r, x)
    BY <2>5, ModeTaken DEF StillAsked
  <2> QED
    BY <1>1, <2>2, <2>3, <2>4, <2>6 DEF Serves
<1>3. CASE srvNick \notin On(c)
  <2>1. toClient' = toClient \o << >>
    BY <1>3 DEF TellIf, Tell
  <2>2. Path(x, << >>, x, x.chans)
    BY PathNone
  <2>3. << >> \in Seq(Msgs)
    OBVIOUS
  <2>4. c \notin x.chans
    BY <1>3 DEF Agrees, RosterAgrees
  <2>5. StillAsked(toServer, toServer', << >>, x)
    BY <2>4, ModeTaken DEF StillAsked
  <2> QED
    BY <1>1, <2>1, <2>2, <2>3, <2>5 DEF Serves
<1> QED
  BY <1>2, <1>3

\* Replies by the type of the query.
LEMMA RepliesCases ==
  ASSUME NEW c
  PROVE  /\ Replies("names", c) = Names(c, members[c])
         /\ Replies("who", c) = WhoSays(c)
         /\ Replies("bans", c) = BanReplies(c, c \in srvBans)
         /\ Replies("mode", c) = IF srvNick \in On(c) THEN <<ModeIs(c)>> ELSE << >>
BY DEF Replies, WhoSays, WhoReplies, WhoReplyOf, BanReplies, ModeIs

\* Queries, by their type.
LEMMA AnswerQueryKeepsInv ==
  ASSUME Inv, AnswerQuery
  PROVE  Inv'
<1>1. PICK type \in AllQueries \cup {"mode"} :
        /\ Command(type) /\ UNCHANGED <<members, srvBans>>
        /\ Tell(Replies(type, Asked.c))
  BY DEF AnswerQuery
<1>2. Takes(type)
  BY <1>1, Answered
<1>3. /\ toServer # << >> /\ Asked.type = type /\ toServer' = Tail(toServer)
      /\ UNCHANGED srvVars /\ UNCHANGED clientVars /\ toServer' \in Seq(Cmds)
      /\ Asked \in Cmds
  BY <1>1, <1>2 DEF Takes, srvVars
<1>4. PICK c \in Channels : c = Asked.c
  BY <1>3, CmdFields
<1>5. type \in AllQueries => type \in Queries /\ KeepsAsking
  <2>1. type \in AllQueries => type \in Queries
    BY <1>3, CmdFields
  <2>2. type \in AllQueries => type # "mode"
    BY DEF AllQueries
  <2> QED
    BY <1>2, <2>1, <2>2 DEF Takes
<1>6. Tell(Replies(type, c))
  BY <1>1, <1>4
<1>7. ASSUME NEW x, ViewOK(x), Agrees(x)
      PROVE  Serves(x)
  <2>1. CASE type = "names"
    <3>1. Tell(Names(c, members[c])) /\ "names" \in Queries /\ KeepsAsking
      BY <1>5, <1>6, <2>1, RepliesCases DEF AllQueries
    <3> QED
      BY <1>3, <1>7, <3>1, NamesServes
  <2>2. CASE type = "who"
    <3>1. Tell(WhoSays(c)) /\ KeepsAsking
      BY <1>5, <1>6, <2>2, RepliesCases DEF AllQueries
    <3> QED
      BY <1>3, <1>7, <3>1, WhoServes
  <2>3. CASE type = "bans"
    <3>1. Tell(BanReplies(c, c \in srvBans)) /\ KeepsAsking
      BY <1>5, <1>6, <2>3, RepliesCases DEF AllQueries
    <3> QED
      BY <1>3, <1>7, <3>1, BansServes
  <2>4. CASE type = "mode"
    <3>1. TellIf(srvNick \in On(c), ModeIs(c))
      BY <1>6, <2>4, RepliesCases DEF TellIf
    <3> QED
      BY <1>3, <1>4, <1>7, <3>1, ModeServes
  <2> QED
    BY <2>1, <2>2, <2>3, <2>4 DEF AllQueries
<1>8. SrvInv'
  BY <1>3, SrvInvSame DEF Inv
<1> QED
  BY <1>3, <1>7, <1>8, ServerKeepsInv

(***************************************************************************)
(* The invariant holds at the start and is kept by every step.             *)
(***************************************************************************)
LEMMA InitSrvInv ==
  ASSUME Init
  PROVE  SrvInv /\ \A c \in Channels : On(c) = {}
<1>1. PICK n \in Nicks, a \in Accounts :
        /\ srvNick = n /\ csNick = n
        /\ account = [m \in Nicks |-> IF m = n THEN a ELSE "offline"]
  BY DEF Init
<1>2. members = [c \in Channels |-> Nobody]
  BY DEF Init
<1>3. Nobody \in [Nicks -> Sigils] /\ \A m \in Nicks : Nobody[m] = "-"
  BY DEF Nobody, Sigils
<1>4. \A c \in Channels : On(c) = {}
  BY <1>2, <1>3 DEF On
<1>5. a # "offline"
  BY SessionAssumption
<1>6. Online = {n}
  BY <1>1, <1>5 DEF Online
<1>7. IsFiniteSet(Online)
  BY <1>6, FS_Singleton
<1>8. account \in [Nicks -> Accounts \cup {"offline"}]
  BY <1>1
<1> QED
  BY <1>1, <1>2, <1>3, <1>4, <1>6, <1>7, <1>8 DEF SrvInv

\* The client knows nothing, and there is nothing to know.
LEMMA InitView ==
  ASSUME Init
  PROVE  ViewOK(View) /\ Agrees(View)
<1>1. /\ View.nick = csNick /\ View.chans = {} /\ View.users = [c \in Channels |-> Nobody]
      /\ View.bans = [c \in Channels |-> "unloaded"]
      /\ View.accounts = [n \in Nicks |-> "forgotten"] /\ View.transaction = Idle
  BY ViewParts DEF Init
<1>2. csNick = srvNick /\ srvNick \in Nicks
  BY DEF Init
<1>3. Nobody \in [Nicks -> Sigils] /\ \A m \in Nicks : Nobody[m] = "-"
  BY DEF Nobody, Sigils
<1>4. \A n \in Nicks : ~Seen(n, View.users)
  BY <1>1, <1>3 DEF Seen
<1>5. ViewOK(View)
  <2>1. /\ View.users \in [Channels -> [Nicks -> Sigils]]
        /\ View.bans \in [Channels -> {"unloaded", "empty", "set"}]
        /\ View.accounts \in [Nicks -> Accounts \cup {"forgotten", "known"}]
    BY <1>1, <1>3
  <2>2. \A c \in Channels : View.users[c] = Nobody /\ View.bans[c] = "unloaded"
    BY <1>1
  <2>3. View.transaction.kind = "none"
    BY <1>1, IdleOK
  <2> QED
    BY <1>1, <1>2, <2>1, <2>2, <2>3 DEF ViewOK
<1>6. RosterAgrees(View)
  BY <1>1, <1>2, InitSrvInv DEF RosterAgrees
<1>7. AccountsAgree(View)
  BY <1>1, <1>4 DEF AccountsAgree
<1>8. BansAgree(View)
  BY <1>1 DEF BansAgree
<1> QED
  BY <1>1, <1>5, <1>6, <1>7, <1>8 DEF Agrees

\* The invariant holds at the start.
LEMMA InitInv ==
  ASSUME Init
  PROVE  Inv
<1>1. toClient = << >> /\ toServer = << >> /\ Len(toClient) = 0
  BY DEF Init
<1>2. \A c \in Channels : chanQueued[c] = << >>
  BY DEF Init
<1>3. QueueInv
  <2>1. chanQueued = [c \in Channels |-> << >>]
    BY DEF Init
  <2> QED
    BY <2>1 DEF QueueInv
<1>4. WireInv
  BY <1>1 DEF WireInv
<1> DEFINE v == [k \in Nat |-> View]
<1>5. v[0] = View
  OBVIOUS
<1> HIDE DEF v
<1>6. Runs(v)
  <2>1. Reads(v, toClient)
    BY <1>1, <1>5, InitView DEF Reads
  <2>2. Agrees(v[Len(toClient)])
    BY <1>1, <1>5, InitView
  <2>3. Gains(v, toClient, toServer)
    BY <1>1 DEF Gains
  <2>4. Held(v, toClient, toServer, chanQueued)
    BY <1>2 DEF Held
  <2> QED
    BY <1>5, <2>1, <2>2, <2>3, <2>4 DEF Runs
<1> QED
  BY <1>3, <1>4, <1>6, InitSrvInv DEF Inv

\* Nothing happens.
LEMMA StutterInv ==
  ASSUME Inv, UNCHANGED vars
  PROVE  Inv'
<1>1. /\ UNCHANGED srvVars /\ UNCHANGED clientVars /\ toClient' = toClient
      /\ toServer' = toServer
  BY DEF vars, wires
<1>2. KeepsAsking /\ toServer' \in Seq(Cmds)
  BY <1>1 DEF KeepsAsking, Inv, WireInv
<1>3. toClient' = toClient \o << >>
  BY <1>1 DEF Inv, WireInv
<1> QED
  BY <1>1, <1>2, <1>3, SilenceServes

\* Every step keeps the invariant.
LEMMA NextInv ==
  ASSUME Inv, Next
  PROVE  Inv'
<1>1. CASE Server
  <2>1. "" \in Present /\ "@" \in Present
    BY DEF Present
  <2> QED
    BY <1>1, <2>1, SrvLoginKeepsInv, SrvJoinKeepsInv, SrvLeaveKeepsInv,
       SrvModeKeepsInv, SrvBanKeepsInv, SrvQuitKeepsInv, SrvNickChangeKeepsInv
       DEF Server
<1>2. CASE Answer
  BY <1>2, AnswerQueryKeepsInv, AnswerOpKeepsInv, AnswerModerationKeepsInv DEF Answer
<1>3. CASE User
  BY <1>3, UserKeepsInv
<1>4. CASE ApplyMessage
  BY <1>4, InvClientOK, ApplyMessageSteps, SteppedKeepsInv
<1> QED
  BY <1>1, <1>2, <1>3, <1>4 DEF Next

\* The invariant holds in every state.
LEMMA Invariance == Spec => []Inv
<1>1. Init => Inv
  BY InitInv
<1>2. Inv /\ [Next]_vars => Inv'
  BY NextInv, StutterInv
<1> QED
  BY <1>1, <1>2, PTL DEF Spec

(***************************************************************************)
(* What it gives.                                                          *)
(***************************************************************************)

\* With nothing left to read the client's view is as the server has it.
LEMMA Settled ==
  ASSUME Inv
  PROVE  ViewOK(View) /\ (toClient = << >> => Agrees(View))
<1>1. PICK v : Runs(v)
  BY DEF Inv
<1>2. toClient \in Seq(Msgs) /\ Len(toClient) \in Nat
  BY DEF Inv, WireInv
<1>3. ViewOK(v[0])
  BY <1>1, <1>2 DEF Runs, Reads
<1>4. v[0] = View
  BY <1>1 DEF Runs
<1>5. toClient = << >> => Agrees(v[0])
  BY <1>1 DEF Runs
<1> QED
  BY <1>3, <1>4, <1>5

\* The invariant gives the types.
LEMMA InvTypeOK ==
  ASSUME Inv
  PROVE  TypeOK
<1>1. ViewOK(View)
  BY Settled
<1>2. /\ chanUsers \in [Channels -> [Nicks -> Sigils]]
      /\ chanBans \in [Channels -> {"unloaded", "empty", "set"}]
      /\ csUsers \in [Nicks -> Accounts \cup {"forgotten", "known"}]
      /\ \A c \in Channels \ csChannels : chanUsers[c] = Nobody /\ chanBans[c] = "unloaded"
      /\ csNick \in Nicks /\ csChannels \subseteq Channels
  BY <1>1, ViewTypes, ViewParts
<1>3. csTransaction.kind \in {"none", "names", "who", "bans"}
  BY <1>1, ViewParts DEF ViewOK
<1>4. srvNick \in Online /\ members \in [Channels -> [Nicks -> Sigils]]
  BY DEF Inv, SrvInv
<1>5. QueueInv
  BY DEF Inv
<1> QED
  BY <1>2, <1>3, <1>4, <1>5, Zenon DEF TypeOK, QueueInv, Sigils

\* The state of the session has its type: in particular nothing is left of a
\* channel the client is not on, no user, no list, no queued moderation.
THEOREM TypeCorrect == Spec => []TypeOK
BY Invariance, InvTypeOK, PTL

\* Once every message is read, the client is on the channels the server has it
\* on, under the nickname the server knows, with the same users and sigils.
THEOREM RosterMirrored == Spec => []ChannelsMirrored
<1>1. ASSUME Inv
      PROVE  ChannelsMirrored
  <2>1. ASSUME toClient = << >>
        PROVE  /\ csNick = srvNick
               /\ \A c \in Channels :
                    /\ c \in csChannels <=> srvNick \in On(c)
                    /\ chanUsers[c] = IF c \in csChannels THEN members[c] ELSE Nobody
    <3>1. RosterAgrees(View) /\ ViewOK(View)
      BY <1>1, <2>1, Settled DEF Agrees
    <3>2. \A c \in Channels \ csChannels : chanUsers[c] = Nobody
      BY <3>1, ViewTypes, ViewParts
    <3> QED
      BY <3>1, <3>2, ViewParts DEF RosterAgrees
  <2> QED
    BY <2>1 DEF ChannelsMirrored
<1> QED
  BY <1>1, Invariance, PTL

\* Once every message is read, an account on display is the user's own: no
\* entry outlives the last channel shared with its user.
THEOREM AccountsMirrored == Spec => []AccountsCurrent
<1>1. ASSUME Inv
      PROVE  AccountsCurrent
  BY <1>1, Settled, ViewParts DEF Agrees, AccountsAgree, AccountsCurrent
<1> QED
  BY <1>1, Invariance, PTL

\* Without /names of channels the client is not on, the users with an entry
\* are those that share a channel with it: glirc_is_logged_on answers right.
THEOREM LoggedOnMirrored ==
  ASSUME "names" \notin Queries
  PROVE  Spec => []LoggedOnSharesChannel
<1>1. ASSUME Inv
      PROVE  LoggedOnSharesChannel
  <2>1. ASSUME toClient = << >>, NEW n \in Nicks
        PROVE  csUsers[n] # "forgotten" <=> Common(n)
    <3>1. Agrees(View) /\ ViewOK(View)
      BY <1>1, <2>1, Settled
    <3>2. Seen(n, View.users) <=> Common(n)
      BY <3>1, SeenIsCommon DEF Agrees
    <3> QED
      BY <3>1, <3>2, ViewParts DEF Agrees, AccountsAgree
  <2> QED
    BY <2>1 DEF LoggedOnSharesChannel
<1> QED
  BY <1>1, Invariance, PTL

\* Once every message is read, a ban list that was ever loaded is the
\* channel's, though it is never asked for again: bans set and lifted since by
\* anybody are in it.
THEOREM BanListMirrored == Spec => []BansMirrored
<1>1. ASSUME Inv
      PROVE  BansMirrored
  BY <1>1, Settled, ViewParts DEF Agrees, BansAgree, BansMirrored
<1> QED
  BY <1>1, Invariance, PTL

\* No moderation command stays queued once the client has op and nothing is
\* under way: what gave it op, or the modes it asked for on its JOIN, sent it.
THEOREM ModerationNotForgotten == Spec => []ModerationSent
<1>1. ASSUME Inv
      PROVE  ModerationSent
  <2>1. ASSUME toClient = << >>, toServer = << >>, NEW c \in csChannels, IHaveOp(c)
        PROVE  chanQueued[c] = << >>
    <3>1. PICK v : Runs(v)
      BY <1>1 DEF Inv
    <3>2. v[0] = View /\ Held(v, toClient, toServer, chanQueued)
      BY <3>1 DEF Runs
    <3>3. c \in Channels
      BY <1>1, Settled, ViewTypes, ViewParts
    <3>4. OpIn(v[0], c)
      BY <2>1, <3>2, ViewParts DEF OpIn, IHaveOp
    <3>5. ~Awaits(v, toClient, toServer, 0, c)
      <4>1. ~AsksModes(toServer, c) /\ ~TellsModes(toClient, 1, c)
        BY <2>1 DEF AsksModes, TellsModes
      <4>2. \A j \in 0 .. Len(toClient) : c \in v[j].chans
        BY <2>1, <3>2, ViewParts
      <4> QED
        BY <4>1, <4>2 DEF Awaits
    <3> QED
      BY <3>2, <3>3, <3>4, <3>5 DEF Held
  <2> QED
    BY <2>1 DEF ModerationSent
<1> QED
  BY <1>1, Invariance, PTL
=============================================================================
