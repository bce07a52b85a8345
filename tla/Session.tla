------------------------------ MODULE Session -------------------------------
(***************************************************************************)
(* Client.State.Network: what one registered connection knows of its       *)
(* channels and their users, kept up to date from the messages of the      *)
(* server alone.  The server is external: it processes commands one at a   *)
(* time, sends every reply to a query as one burst, and tells the client   *)
(* of the users it shares a channel with.  Messages and commands travel    *)
(* in order, with any delay.                                               *)
(*                                                                         *)
(* A ban list holds one mask or none.  Lists and modes other than op and   *)
(* ban, topics, user and host names, and the WHOX query are left out.      *)
(* "known" is an entry of csUsers without an account, "forgotten" the lack *)
(* of one; "*" is one of the Accounts.                                     *)
(***************************************************************************)
EXTENDS Naturals, Sequences, SequencesExt

CONSTANTS
  Nicks,           \* nicknames
  Channels,        \* channel names
  Accounts,        \* services accounts
  ChanservChannels,\* ssChanservChannels
  Queries,         \* the queries the user makes: subset of AllQueries
  Moderations,     \* kinds of moderation command: subset of AllModerations
  MaxPending,      \* bound: messages under way when the server acts or answers
  MaxCommands      \* bound: commands under way when the user or the server acts

AllQueries == {"names", "who", "bans"}

\* The polarity of the mode a moderation command changes: MODE +b, MODE -b.
Polarity == [ban |-> "+", unban |-> "-"]
AllModerations == {"kick"} \cup DOMAIN Polarity
ASSUME SessionAssumption ==
  /\ ChanservChannels \subseteq Channels /\ Queries \subseteq AllQueries
  /\ Moderations \subseteq AllModerations
  /\ Accounts \cap {"offline", "forgotten", "known"} = {}

VARIABLES
  srvNick,      \* the server: our nickname
  account,      \* each nickname's account, "offline" when nobody has it
  members,      \* each channel's users, "-", "" or "@"
  srvBans,      \* channels with the ban set
  toClient,     \* messages under way
  toServer,     \* commands under way
  csNick,       \* our nickname
  csChannels,   \* the channels we are on
  chanUsers,    \* users and sigils of those channels, as members
  chanBans,     \* the ban list: "unloaded", "empty" or "set"
  chanQueued,   \* chanQueuedModeration
  csUsers,      \* account recorded for each nickname
  csTransaction \* the multi-message reply being read

srvVars    == <<srvNick, account, members, srvBans>>
wires      == <<toClient, toServer>>
clientVars == <<csNick, csChannels, chanUsers, chanBans, chanQueued, csUsers,
                csTransaction>>
vars == <<srvVars, wires, clientVars>>

Nobody == [n \in Nicks |-> "-"]
Idle   == [kind |-> "none", items |-> {}]
Online == {n \in Nicks : account[n] # "offline"}

TypeOK ==
  /\ srvNick \in Online /\ csNick \in Nicks
  /\ members \in [Channels -> [Nicks -> {"-", "", "@"}]]
  /\ csChannels \subseteq Channels
  /\ chanUsers \in [Channels -> [Nicks -> {"-", "", "@"}]]
  /\ \A c \in Channels \ csChannels :
       chanUsers[c] = Nobody /\ chanQueued[c] = << >> /\ chanBans[c] = "unloaded"
  /\ chanBans \in [Channels -> {"unloaded", "empty", "set"}]
  /\ chanQueued \in [Channels -> Seq([type : Moderations, c : Channels, n : Nicks])]
  /\ csUsers \in [Nicks -> Accounts \cup {"forgotten", "known"}]
  /\ csTransaction.kind \in {"none", "names", "who", "bans"}

Init ==
  /\ \E n \in Nicks, a \in Accounts :
       /\ srvNick = n /\ csNick = n
       /\ account = [m \in Nicks |-> IF m = n THEN a ELSE "offline"]
  /\ members = [c \in Channels |-> Nobody] /\ srvBans = {}
  /\ toClient = << >> /\ toServer = << >>
  /\ csChannels = {} /\ chanUsers = [c \in Channels |-> Nobody]
  /\ chanBans = [c \in Channels |-> "unloaded"]
  /\ chanQueued = [c \in Channels |-> << >>]
  /\ csUsers = [n \in Nicks |-> "forgotten"]
  /\ csTransaction = Idle

(***************************************************************************)
(* The server.                                                             *)
(***************************************************************************)
On(c)      == {n \in Nicks : members[c][n] # "-"}
Common(n)  == \E c \in Channels : {n, srvNick} \subseteq On(c)
Tell(msgs) == toClient' = toClient \o msgs
TellIf(seen, msg) == Tell(IF seen THEN <<msg>> ELSE << >>)
SrvActs ==
  /\ Len(toClient) < MaxPending /\ Len(toServer) =< MaxCommands
  /\ UNCHANGED <<toServer, clientVars>>

Names(c, sigils) ==
  SetToSeq({[type |-> "namreply", c |-> c, n |-> n, sigil |-> sigils[n]] :
              n \in {m \in Nicks : sigils[m] # "-"}})
    \o <<[type |-> "endofnames", c |-> c]>>

SrvLogin(n, a) ==
  /\ SrvActs /\ account[n] # a
  /\ account' = [account EXCEPT ![n] = a]
  /\ TellIf(Common(n), [type |-> "account", n |-> n, a |-> a])
  /\ UNCHANGED <<srvNick, members, srvBans>>

\* The first user of a channel is its operator.
SrvJoin(n, c) ==
  /\ SrvActs /\ n \in Online \ On(c)
  /\ members' = [members EXCEPT ![c][n] = IF On(c) = {} THEN "@" ELSE ""]
  /\ LET join == [type |-> "join", c |-> c, n |-> n, a |-> account[n]] IN
     IF n = srvNick THEN Tell(<<join>> \o Names(c, members'[c]))
     ELSE TellIf(srvNick \in On(c), join)
  /\ UNCHANGED <<srvNick, account, srvBans>>

\* PART, or a KICK by somebody else.
SrvLeave(n, c) ==
  /\ SrvActs /\ n \in On(c)
  /\ members' = [members EXCEPT ![c][n] = "-"]
  /\ srvBans' = IF On(c) = {n} THEN srvBans \ {c} ELSE srvBans
  /\ TellIf(srvNick \in On(c), [type |-> "leave", c |-> c, n |-> n])
  /\ UNCHANGED <<srvNick, account>>

SrvQuit(n) ==
  /\ SrvActs /\ n \in Online \ {srvNick}
  /\ account' = [account EXCEPT ![n] = "offline"]
  /\ members' = [c \in Channels |-> [members[c] EXCEPT ![n] = "-"]]
  /\ srvBans' = {c \in srvBans : On(c) # {n}}
  /\ TellIf(Common(n), [type |-> "quit", n |-> n])
  /\ UNCHANGED srvNick

SrvNickChange(n, new) ==
  /\ SrvActs /\ n \in Online /\ new \notin Online
  /\ account' = [account EXCEPT ![new] = account[n], ![n] = "offline"]
  /\ members' = [c \in Channels |->
                   [members[c] EXCEPT ![new] = members[c][n], ![n] = "-"]]
  /\ srvNick' = IF n = srvNick THEN new ELSE srvNick
  /\ TellIf(n = srvNick \/ Common(n), [type |-> "nick", n |-> n, new |-> new])
  /\ UNCHANGED srvBans

SrvMode(n, c, sigil) ==
  /\ SrvActs /\ members[c][n] \in {"", "@"} \ {sigil}
  /\ members' = [members EXCEPT ![c][n] = sigil]
  /\ TellIf(srvNick \in On(c), [type |-> "op", c |-> c, n |-> n, sigil |-> sigil])
  /\ UNCHANGED <<srvNick, account, srvBans>>

Banned(c, polarity) == IF polarity = "+" THEN srvBans \cup {c} ELSE srvBans \ {c}
BanMode(c, polarity) == [type |-> "ban", c |-> c, polarity |-> polarity]

\* Another operator sets or lifts the ban.
SrvBan(c, polarity) ==
  /\ SrvActs /\ \E n \in Nicks \ {srvNick} : members[c][n] = "@"
  /\ srvBans' = Banned(c, polarity) /\ srvBans' # srvBans
  /\ TellIf(srvNick \in On(c), BanMode(c, polarity))
  /\ UNCHANGED <<srvNick, account, members>>

Server ==
  \/ \E n \in Nicks, a \in Accounts : SrvLogin(n, a)
  \/ \E n \in Nicks, c \in Channels :
       SrvJoin(n, c) \/ SrvLeave(n, c) \/ SrvMode(n, c, "") \/ SrvMode(n, c, "@")
  \/ \E c \in Channels, polarity \in {"+", "-"} : SrvBan(c, polarity)
  \/ \E n \in Nicks : SrvQuit(n) \/ \E new \in Nicks : SrvNickChange(n, new)

\* The server's answer to the oldest command.
Command(type) ==
  /\ toServer # << >> /\ Head(toServer).type = type /\ Len(toClient) < MaxPending
  /\ toServer' = Tail(toServer)
  /\ UNCHANGED <<srvNick, account, clientVars>>
Asked == Head(toServer)

Replies(type, c) ==
  CASE type = "names" -> Names(c, members[c])
    [] type = "who"   -> SetToSeq({[type |-> "whoreply", n |-> n] : n \in On(c)})
                           \o <<[type |-> "endofwho"]>>
    [] type = "bans"  -> (IF c \in srvBans THEN <<[type |-> "banlist"]>> ELSE << >>)
                           \o <<[type |-> "endofbanlist", c |-> c]>>
    [] type = "mode"  -> IF srvNick \notin On(c) THEN << >>
                         ELSE <<[type |-> "channelmodeis", c |-> c]>>

AnswerQuery ==
  \E type \in AllQueries \cup {"mode"} :
    /\ Command(type) /\ UNCHANGED <<members, srvBans>>
    /\ Tell(Replies(type, Asked.c))

\* ChanServ ops us unless we are opped already.
AnswerOp ==
  LET asks == members[Asked.c][srvNick] = "" IN
  /\ Command("op") /\ UNCHANGED srvBans
  /\ members' = IF asks THEN [members EXCEPT ![Asked.c][srvNick] = "@"] ELSE members
  /\ TellIf(asks, [type |-> "op", c |-> Asked.c, n |-> srvNick, sigil |-> "@"])

AnswerModeration ==
  LET opped == members[Asked.c][srvNick] = "@" IN
  \/ /\ Command("kick") /\ UNCHANGED srvBans
     /\ LET kicks == opped /\ Asked.n \in On(Asked.c) IN
        /\ members' = IF kicks THEN [members EXCEPT ![Asked.c][Asked.n] = "-"]
                      ELSE members
        /\ TellIf(kicks, [type |-> "leave", c |-> Asked.c, n |-> Asked.n])
  \/ \E type \in DOMAIN Polarity :
       /\ Command(type) /\ UNCHANGED members
       /\ srvBans' = IF opped THEN Banned(Asked.c, Polarity[type]) ELSE srvBans
       /\ TellIf(opped, BanMode(Asked.c, Polarity[type]))

(***************************************************************************)
(* The user.                                                               *)
(***************************************************************************)
IHaveOp(c) == chanUsers[c][csNick] = "@"
UseChanServ(c) == c \in ChanservChannels /\ ~IHaveOp(c)
SendMsg(cmds) == toServer' = toServer \o cmds

\* sendModeration: ask for op and queue, or send directly.
SendModeration(type, n, c) ==
  LET cmd == [type |-> type, c |-> c, n |-> n] IN
  /\ Len(toServer) < MaxCommands
  /\ IF UseChanServ(c)
     THEN /\ SendMsg(<<[type |-> "op", c |-> c]>>)
          /\ chanQueued' = IF c \notin csChannels THEN chanQueued
                           ELSE [chanQueued EXCEPT ![c] = Append(@, cmd)]
     ELSE SendMsg(<<cmd>>) /\ UNCHANGED chanQueued
  /\ Len(chanQueued'[c]) =< MaxCommands
  /\ UNCHANGED <<srvVars, toClient, csNick, csChannels, chanUsers, chanBans,
                 csUsers, csTransaction>>

\* /names, /who, /masks b: the last only when the list is not loaded yet.
Query(type, c) ==
  /\ Len(toServer) < MaxCommands
  /\ type = "bans" => chanBans[c] = "unloaded"
  /\ SendMsg(<<[type |-> type, c |-> c]>>)
  /\ UNCHANGED <<srvVars, toClient, clientVars>>

User ==
  \/ \E c \in Channels, n \in Nicks, type \in Moderations : SendModeration(type, n, c)
  \/ \E c \in Channels, type \in Queries : Query(type, c)

(***************************************************************************)
(* applyMessage.                                                           *)
(***************************************************************************)
msg == Head(toClient)

Receive(type) ==
  /\ toClient # << >> /\ msg.type = type
  /\ toClient' = Tail(toClient)
  /\ UNCHANGED srvVars

\* Mutant of Join: the channel's modes are not asked for.
JoinWithoutMode ==
  LET mine == msg.n = csNick IN
  /\ Receive("join")
  /\ csChannels' = IF mine THEN csChannels \cup {msg.c} ELSE csChannels
  /\ chanUsers' = IF msg.c \in csChannels' THEN
                    [chanUsers EXCEPT ![msg.c] =
                       [(IF mine THEN Nobody ELSE @) EXCEPT ![msg.n] = ""]]
                  ELSE chanUsers
  /\ chanBans' = IF mine THEN [chanBans EXCEPT ![msg.c] = "unloaded"] ELSE chanBans
  /\ chanQueued' = IF mine THEN [chanQueued EXCEPT ![msg.c] = << >>] ELSE chanQueued
  /\ csUsers' = [csUsers EXCEPT ![msg.n] = msg.a]
  /\ UNCHANGED <<toServer, csNick, csTransaction>>

\* createOnJoin makes a new channel of our own JOIN and asks for its modes.
Join ==
  LET mine == msg.n = csNick IN
  /\ Receive("join")
  /\ csChannels' = IF mine THEN csChannels \cup {msg.c} ELSE csChannels
  /\ chanUsers' = IF msg.c \in csChannels' THEN
                    [chanUsers EXCEPT ![msg.c] =
                       [(IF mine THEN Nobody ELSE @) EXCEPT ![msg.n] = ""]]
                  ELSE chanUsers
  /\ chanBans' = IF mine THEN [chanBans EXCEPT ![msg.c] = "unloaded"] ELSE chanBans
  /\ chanQueued' = IF mine THEN [chanQueued EXCEPT ![msg.c] = << >>] ELSE chanQueued
  /\ csUsers' = [csUsers EXCEPT ![msg.n] = msg.a]
  /\ SendMsg(IF mine THEN <<[type |-> "mode", c |-> msg.c]>> ELSE << >>)
  /\ UNCHANGED <<csNick, csTransaction>>

Seen(n, users) == \E c \in Channels : users[c][n] # "-"

\* Mutant of ExitChannel: leaving a channel forgets nobody.
ExitChannelKeepsUsers ==
  LET mine == msg.n = csNick IN
  /\ Receive("leave")
  /\ csChannels' = IF mine THEN csChannels \ {msg.c} ELSE csChannels
  /\ chanUsers' = [chanUsers EXCEPT ![msg.c] =
                     IF mine THEN Nobody ELSE [@ EXCEPT ![msg.n] = "-"]]
  /\ chanBans' = IF mine THEN [chanBans EXCEPT ![msg.c] = "unloaded"] ELSE chanBans
  /\ chanQueued' = IF mine THEN [chanQueued EXCEPT ![msg.c] = << >>] ELSE chanQueued
  /\ UNCHANGED <<toServer, csNick, csTransaction, csUsers>>

\* exitChannel: pruneUsers after our own, forgetUser' after another's.
ExitChannel ==
  LET mine == msg.n = csNick IN
  /\ Receive("leave")
  /\ csChannels' = IF mine THEN csChannels \ {msg.c} ELSE csChannels
  /\ chanUsers' = [chanUsers EXCEPT ![msg.c] =
                     IF mine THEN Nobody ELSE [@ EXCEPT ![msg.n] = "-"]]
  /\ chanBans' = IF mine THEN [chanBans EXCEPT ![msg.c] = "unloaded"] ELSE chanBans
  /\ chanQueued' = IF mine THEN [chanQueued EXCEPT ![msg.c] = << >>] ELSE chanQueued
  /\ csUsers' = [n \in Nicks |->
                   IF (mine \/ n = msg.n) /\ ~Seen(n, chanUsers')
                   THEN "forgotten" ELSE csUsers[n]]
  /\ UNCHANGED <<toServer, csNick, csTransaction>>

Quit ==
  /\ Receive("quit")
  /\ chanUsers' = [c \in Channels |-> [chanUsers[c] EXCEPT ![msg.n] = "-"]]
  /\ csUsers' = [csUsers EXCEPT ![msg.n] = "forgotten"]
  /\ UNCHANGED <<toServer, csNick, csChannels, chanBans, chanQueued, csTransaction>>

\* Mutant of Nick: our own nickname stays.
NickOfOthers ==
  /\ Receive("nick")
  /\ chanUsers' = [c \in Channels |->
       [chanUsers[c] EXCEPT ![msg.new] = chanUsers[c][msg.n], ![msg.n] = "-"]]
  /\ csUsers' = [csUsers EXCEPT ![msg.new] = csUsers[msg.n], ![msg.n] = "forgotten"]
  /\ UNCHANGED <<toServer, csNick, csChannels, chanBans, chanQueued, csTransaction>>

\* nickChange, updateMyNick, renameUser
Nick ==
  /\ Receive("nick")
  /\ chanUsers' = [c \in Channels |->
       [chanUsers[c] EXCEPT ![msg.new] = chanUsers[c][msg.n], ![msg.n] = "-"]]
  /\ csNick' = IF msg.n = csNick THEN msg.new ELSE csNick
  /\ csUsers' = [csUsers EXCEPT ![msg.new] = csUsers[msg.n], ![msg.n] = "forgotten"]
  /\ UNCHANGED <<toServer, csChannels, chanBans, chanQueued, csTransaction>>

\* ACCOUNT
RecordUser ==
  /\ Receive("account")
  /\ csUsers' = [csUsers EXCEPT ![msg.n] = msg.a]
  /\ UNCHANGED <<toServer, csNick, csChannels, chanUsers, chanBans, chanQueued,
                 csTransaction>>

\* The items of a transaction of this kind, none if another one is open.
Items(kind) == IF csTransaction.kind = kind THEN csTransaction.items ELSE {}

Gather(type, kind, item) ==
  /\ Receive(type)
  /\ csTransaction' = [kind |-> kind, items |-> Items(kind) \cup {item}]
  /\ UNCHANGED <<toServer, csNick, csChannels, chanUsers, chanBans, chanQueued,
                 csUsers>>

NamReply == toClient # << >> /\ msg.type = "namreply"
              /\ Gather("namreply", "names", <<msg.n, msg.sigil>>)
WhoReply == toClient # << >> /\ msg.type = "whoreply"
              /\ Gather("whoreply", "who", msg.n)
BanList  == Gather("banlist", "bans", "mask")

Learn(nicks) ==
  csUsers' = [n \in Nicks |-> IF n \in nicks /\ csUsers[n] = "forgotten"
                              THEN "known" ELSE csUsers[n]]

LoadNamesList ==
  LET entries == Items("names") IN
  /\ Receive("endofnames")
  /\ chanUsers' = IF msg.c \notin csChannels THEN chanUsers ELSE
       [chanUsers EXCEPT ![msg.c] =
          [n \in Nicks |-> CHOOSE s \in {"-", "", "@"} :
             IF \E e \in entries : e[1] = n THEN <<n, s>> \in entries ELSE s = "-"]]
  /\ Learn({e[1] : e \in entries})
  /\ csTransaction' = Idle
  /\ UNCHANGED <<toServer, csNick, csChannels, chanBans, chanQueued>>

\* Mutant of MassRegistration: every user of the reply is recorded.
MassRegistrationOfStrangers ==
  /\ Receive("endofwho")
  /\ Learn(Items("who"))
  /\ csTransaction' = Idle
  /\ UNCHANGED <<toServer, csNick, csChannels, chanUsers, chanBans, chanQueued>>

\* RPL_ENDOFWHO: only users on our channels are recorded.
MassRegistration ==
  /\ Receive("endofwho")
  /\ Learn({n \in Items("who") : Seen(n, chanUsers)})
  /\ csTransaction' = Idle
  /\ UNCHANGED <<toServer, csNick, csChannels, chanUsers, chanBans, chanQueued>>

SaveList ==
  /\ Receive("endofbanlist")
  /\ chanBans' = IF msg.c \notin csChannels THEN chanBans ELSE
       [chanBans EXCEPT ![msg.c] = IF Items("bans") = {} THEN "empty" ELSE "set"]
  /\ csTransaction' = Idle
  /\ UNCHANGED <<toServer, csNick, csChannels, chanUsers, chanQueued, csUsers>>

\* A channel's mode changed or was told: with op, what was queued is sent.
Flush(c) ==
  IF chanUsers'[c][csNick] = "@"
  THEN SendMsg(chanQueued[c]) /\ chanQueued' = [chanQueued EXCEPT ![c] = << >>]
  ELSE UNCHANGED <<toServer, chanQueued>>

\* Mutant of ListMode: the entry is written whatever the polarity.
ListModeAdds(list, polarity) == IF list = "unloaded" THEN list ELSE "set"

\* doChannelModes sets or deletes the entry of a list that is loaded.
ListMode(list, polarity) ==
  CASE list = "unloaded" -> "unloaded"
    [] list # "unloaded" -> IF polarity = "+" THEN "set" ELSE "empty"

\* Mode: a prefix mode of a user on the channel, or an entry of a loaded list.
DoMode ==
  /\ \/ /\ Receive("op") /\ UNCHANGED chanBans
        /\ chanUsers' = IF chanUsers[msg.c][msg.n] = "-" THEN chanUsers
                        ELSE [chanUsers EXCEPT ![msg.c][msg.n] = msg.sigil]
     \/ /\ Receive("ban") /\ UNCHANGED chanUsers
        /\ chanBans' = [chanBans EXCEPT ![msg.c] = ListMode(@, msg.polarity)]
     \/ Receive("channelmodeis") /\ UNCHANGED <<chanUsers, chanBans>>
  /\ Flush(msg.c)
  /\ UNCHANGED <<csNick, csChannels, csUsers, csTransaction>>

ApplyMessage ==
  \/ Join \/ ExitChannel \/ Quit \/ Nick \/ RecordUser
  \/ NamReply \/ WhoReply \/ BanList
  \/ LoadNamesList \/ MassRegistration \/ SaveList \/ DoMode

Answer == AnswerQuery \/ AnswerOp \/ AnswerModeration

Next == Server \/ Answer \/ User \/ ApplyMessage

Spec == Init /\ [][Next]_vars

(***************************************************************************)
(* Properties.                                                             *)
(***************************************************************************)

\* Once every message is read, the client is on the channels the server has
\* it on, under the nickname the server knows, and sees the same users with
\* the same sigils.
ChannelsMirrored ==
  toClient = << >> =>
    /\ csNick = srvNick
    /\ \A c \in Channels :
         /\ c \in csChannels <=> srvNick \in On(c)
         /\ chanUsers[c] = IF c \in csChannels THEN members[c] ELSE Nobody

\* An account on display is the user's own: no entry survives the last shared
\* channel to be shown for the next user of that nickname.
AccountsCurrent ==
  toClient = << >> =>
    \A n \in Nicks : csUsers[n] \in {"forgotten", "known", account[n]}

\* glirc_is_logged_on answers by an entry of csUsers whether a user shares a
\* channel with us (CApi/Exports.hs:695), on a server with userhost-in-names.
LoggedOnSharesChannel ==
  toClient = << >> => \A n \in Nicks : csUsers[n] # "forgotten" <=> Common(n)

\* A ban list that was loaded once stays the channel's ban list, whoever sets
\* and lifts bans while it is read: it is never asked for again.
BansMirrored ==
  toClient = << >> =>
    \A c \in csChannels : chanBans[c] # "unloaded" =>
                            (chanBans[c] = "set" <=> c \in srvBans)

\* Moderation commands queued until ChanServ gives us op are not forgotten:
\* with op and nothing under way none is left.
ModerationSent ==
  toClient = << >> /\ toServer = << >> =>
    \A c \in csChannels : IHaveOp(c) => chanQueued[c] = << >>
=============================================================================
