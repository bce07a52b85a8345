---------------------------- MODULE Registration -----------------------------
(***************************************************************************)
(* Registration with an IRC server: capability negotiation, SASL and the   *)
(* choice of a nickname, and the logins of a registered client that learns *)
(* of SASL later (Client.State.Network, processSaslEcdsa of                *)
(* Client.EventLoop.Network).                                              *)
(*                                                                         *)
(* The server is external: it takes one command at a time and answers each.*)
(* A capability is "sasl", one more that the client supports ("away") or   *)
(* one that only the configuration asks for ("extra").  A parameter of     *)
(* AUTHENTICATE is "empty" (+), "good" (what the mechanism expects), "bad" *)
(* or "garbled" (no base64).  STS is in EventLoop, the 400-byte chunks of  *)
(* a payload are one command here.                                         *)
(***************************************************************************)
EXTENDS Integers, Sequences

CONSTANTS
  Mechanisms,  \* ssSaslMechanism: what may be configured, "none" for Nothing
  Nicks,       \* ssNicks: how many nicknames are configured
  Extra,       \* ssCapabilities
  Habits,      \* what the server does beyond the ordinary: "splitAck" answers
               \* one request in two lines, "earlyNew" announces capabilities
               \* before CAP END, "tooLong" answers 902 or 905
  MaxRefused,  \* random nicknames the server refuses at most
  MaxChanges   \* bound: capabilities the server announces or withdraws

Started == {"plain", "external", "ecdsa", "scram", "ecdh"}
Capabilities == {"sasl", "away", "extra"}

ASSUME RegistrationAssumption ==
  /\ Mechanisms \subseteq Started \cup {"none"}
  /\ Nicks \in Nat \ {0} /\ MaxRefused \in Nat /\ MaxChanges \in Nat
  /\ Extra \subseteq Capabilities
  /\ Habits \subseteq {"splitAck", "earlyNew", "tooLong"}

VARIABLES
  mech,        \* ssSaslMechanism
  auth,        \* csAuthenticationState
  lsCaps,      \* the CapLsTransaction of csTransaction
  connecting,  \* csPingStatus is PingConnecting
  up,          \* commands on their way to the server
  down,        \* messages on their way to the client
  srv          \* the server

vars == <<mech, auth, lsCaps, connecting, up, down, srv>>

Cap(type, caps) == [type |-> type, caps |-> caps]
Auth(arg) == [type |-> "AUTHENTICATE", arg |-> arg]
Nick(arg) == [type |-> "NICK", arg |-> arg]
Code(arg) == [type |-> "code", arg |-> arg]
End == Cap("END", {})

\* initialMessages: CAP LS and the first nickname.
Init ==
  /\ mech \in Mechanisms /\ auth = "none" /\ lsCaps = {} /\ connecting = TRUE
  /\ up = <<Cap("LS", {}), Nick(1)>> /\ down = << >>
  /\ \E offers \in {{}, {"away"}, {"sasl"}, {"sasl", "away"}} :
       srv = [offers |-> offers, caps |-> {}, capping |-> FALSE, round |-> 0,
              nick |-> FALSE, welcomed |-> FALSE, login |-> "none",
              refused |-> 0, changes |-> 0]

(***************************************************************************)
(* The client.                                                             *)
(***************************************************************************)
SelectCaps(offered) ==
  (({"away"} \cup (IF mech = "none" THEN {} ELSE {"sasl"})) \cap offered)
    \cup Extra

\* Mutant of AllCaps: the lines before the last are forgotten.
AllCapsOfLastLine(caps) == caps

\* CAP LS may come in several lines.
AllCaps(caps) == caps \cup lsCaps

\* doCap.  The result is what is sent, the state of the authentication and
\* the capabilities gathered.
Answer(send, state, caps) ==
  up' = up \o send /\ auth' = state /\ lsCaps' = caps

Request(caps) == IF caps = {} THEN << >> ELSE <<Cap("REQ", caps)>>

DoCap(m) ==
  \/ /\ m.type = "LS*"
     /\ Answer(<< >>, auth, AllCaps(m.caps))
  \/ /\ m.type = "LS"
     /\ LET caps == SelectCaps(AllCaps(m.caps))
        IN Answer(IF caps = {} THEN <<End>> ELSE Request(caps), auth, {})
  \/ m.type = "NEW" /\ Answer(Request(SelectCaps(m.caps)), auth, lsCaps)
  \/ m.type = "DEL" /\ Answer(<< >>, auth, lsCaps)
  \/ /\ m.type = "ACK" /\ "sasl" \in m.caps /\ mech # "none"
     /\ Answer(<<Auth("mechanism")>>, mech, lsCaps)
  \/ /\ m.type \in {"ACK", "NAK"}
     /\ ~(m.type = "ACK" /\ "sasl" \in m.caps /\ mech # "none")
     /\ Answer(<<End>>, auth, lsCaps)

\* The state after a parameter was answered.
After(state) ==
  CASE state = "scram"  -> "scram1"
    [] state = "scram1" -> "scram2"
    [] state = "ecdsa"  -> "ecdsaWait"
    [] state = "ecdh"   -> "ecdhWait"
    [] OTHER            -> "none"

\* Mutant of AbortAuth: nobody tells the server.
AbortAuthSilently == Answer(<< >>, "none", lsCaps)

AbortAuth == Answer(<<Auth("abort")>>, "none", lsCaps)

\* May the parameter be answered in this state?  An "ecdh" key that cannot be
\* imported refuses the first one.
Expected(state, param) ==
  \/ state \in Started /\ param = "empty"
  \/ state \in {"scram1", "scram2", "ecdhWait"} /\ param = "good"

DoAuthenticate(param) ==
  /\ auth # "ecdsaWait"
  /\ \/ /\ Expected(auth, param)
        /\ Answer(<<Auth("payload")>>, After(auth), lsCaps)
     \/ /\ ~Expected(auth, param) \/ auth = "ecdh"
        /\ AbortAuth

\* Mutant of ProcessSaslEcdsa: a failure is only shown to the user.
ProcessSaslEcdsaShown(param) ==
  LET aborts == IF param = "garbled" THEN <<Auth("abort")>> ELSE << >>
      state == IF param = "garbled" THEN "none" ELSE auth
  IN /\ auth = "ecdsaWait"
     /\ \/ Answer(aborts, state, lsCaps)
        \/ /\ param \in {"good", "bad"}
           /\ Answer(<<Auth("payload")>>, "none", lsCaps)

\* doAuthenticate leaves the challenge to the event loop, which asks
\* ecdsatool; one that does not decode is aborted as well.
ProcessSaslEcdsa(param) ==
  LET aborts == IF param = "garbled" THEN <<Auth("abort")>> ELSE << >>
      state == IF param = "garbled" THEN "none" ELSE auth
  IN /\ auth = "ecdsaWait"
     /\ \/ Answer(aborts \o <<End>>, state, lsCaps)
        \/ /\ param \in {"good", "bad"}
           /\ Answer(<<Auth("payload")>>, "none", lsCaps)

\* RPL_SASLSUCCESS and three of the failures.
SaslOver == {"903", "904", "906", "908"}

\* doBadNick, doRandomNick (0)
NextNick(nick) == IF nick \in 1 .. Nicks - 1 THEN nick + 1 ELSE 0

Receive ==
  /\ down # << >>
  /\ down' = Tail(down)
  /\ connecting' = (connecting /\ Head(down) # Code("001"))
  /\ LET m == Head(down) IN
     \/ DoCap(m)
     \/ /\ m.type = "AUTHENTICATE"
        /\ DoAuthenticate(m.arg) \/ ProcessSaslEcdsa(m.arg)
     \/ /\ m.type = "NICK"
        /\ Answer(IF connecting THEN <<Nick(NextNick(m.arg))>> ELSE << >>,
                  auth, lsCaps)
     \/ /\ m.type = "code"
        /\ Answer(IF m.arg \in SaslOver THEN <<End>> ELSE << >>, auth, lsCaps)
  /\ UNCHANGED <<mech, srv>>

(***************************************************************************)
(* The server.                                                             *)
(***************************************************************************)

\* It answers, and welcomes a client with a nickname that does not negotiate.
Reply(s, messages) ==
  LET welcome == s.nick /\ ~s.capping /\ ~s.welcomed
  IN /\ srv' = [s EXCEPT !.welcomed = @ \/ welcome]
     /\ down' = down \o messages
                     \o (IF welcome THEN <<Code("001")>> ELSE << >>)

\* How often a mechanism has the client answer.
Rounds ==
  CASE mech \in {"plain", "external"} -> 1
    [] mech \in {"ecdsa", "ecdh"}     -> 2
    [] OTHER                          -> 3

\* The login is over.  One that CAP LS offered ("owed") is kept in mind.
Concluded(verdict) ==
  [srv EXCEPT !.round = 0, !.login = IF srv.welcomed THEN @ ELSE verdict]

Failures ==
  {<<Code("904")>>, <<Code("908"), Code("904")>>}
    \cup (IF "tooLong" \in Habits THEN {<<Code("905")>>} ELSE {})

SrvCap(c) ==
  \/ /\ c.type = "LS"
     /\ \E first \in SUBSET srv.offers :
          Reply([srv EXCEPT !.capping = TRUE,
                            !.login = IF "sasl" \in srv.offers THEN "owed"
                                      ELSE @],
                (IF first = {} THEN << >> ELSE <<Cap("LS*", first)>>)
                  \o <<Cap("LS", srv.offers \ first)>>)
  \/ /\ c.type = "REQ" /\ c.caps \subseteq srv.offers
     /\ \E first \in (IF "splitAck" \in Habits THEN SUBSET c.caps ELSE {{}}) :
          Reply([srv EXCEPT !.caps = @ \cup c.caps],
                (IF first = {} THEN << >> ELSE <<Cap("ACK", first)>>)
                  \o <<Cap("ACK", c.caps \ first)>>)
  \/ /\ c.type = "REQ" /\ ~(c.caps \subseteq srv.offers)
     /\ Reply(srv, <<Cap("NAK", c.caps)>>)
  \/ /\ c.type = "END" /\ srv.round = 0
     /\ Reply([srv EXCEPT !.capping = FALSE], << >>)
  \/ /\ c.type = "END" /\ srv.round > 0 /\ ~srv.welcomed
     /\ Reply([Concluded("cut") EXCEPT !.capping = FALSE], <<Code("906")>>)
  \/ /\ c.type = "END" /\ srv.round > 0 /\ srv.welcomed
     /\ Reply(srv, << >>)

\* The first AUTHENTICATE names the mechanism, whatever it was meant to be.
SrvAuthenticate(arg) ==
  \/ /\ srv.round = 0 /\ arg = "mechanism" /\ "sasl" \in srv.caps
     /\ \/ Reply([srv EXCEPT !.round = 1], <<Auth("empty")>>)
        \/ \E failure \in Failures : Reply(Concluded("failed"), failure)
  \/ /\ srv.round = 0 /\ ~(arg = "mechanism" /\ "sasl" \in srv.caps)
     /\ Reply(srv, IF arg = "abort" THEN <<Code("906")>> ELSE <<Code("904")>>)
  \/ /\ srv.round > 0 /\ arg = "abort"
     /\ Reply(Concluded("aborted"), <<Code("906")>>)
  \/ /\ srv.round > 0 /\ arg # "abort"
     /\ \/ \E failure \in Failures : Reply(Concluded("failed"), failure)
        \/ /\ srv.round = Rounds /\ arg = "payload"
           /\ Reply(Concluded("success"), <<Code("903")>>)
        \/ /\ srv.round < Rounds /\ arg = "payload"
           /\ \E param \in {"good", "bad", "garbled", "empty"} :
                Reply([srv EXCEPT !.round = @ + 1], <<Auth(param)>>)

SrvNick(nick) ==
  \/ Reply([srv EXCEPT !.nick = TRUE], << >>)
  \/ /\ ~srv.welcomed /\ (nick = 0 => srv.refused < MaxRefused)
     /\ Reply([srv EXCEPT !.refused = IF nick = 0 THEN @ + 1 ELSE @],
              <<Nick(nick)>>)

Serve ==
  /\ up # << >>
  /\ up' = Tail(up)
  /\ LET c == Head(up) IN
     \/ SrvCap(c)
     \/ c.type = "AUTHENTICATE" /\ SrvAuthenticate(c.arg)
     \/ c.type = "NICK" /\ SrvNick(c.arg)
  /\ UNCHANGED <<mech, auth, lsCaps, connecting>>

\* The services that check logins go away.
SrvGivesUp ==
  /\ srv.round > 0
  /\ Reply(Concluded("failed"), <<Code("904")>>)
  /\ UNCHANGED <<mech, auth, lsCaps, connecting, up>>

\* cap-notify, which the client asks for
SrvChangesCaps ==
  /\ srv.changes < MaxChanges
  /\ srv.welcomed \/ ("earlyNew" \in Habits /\ srv.capping)
  /\ LET s == [srv EXCEPT !.changes = @ + 1] IN
     \E c \in {"sasl", "away"} :
       \/ /\ c \notin srv.offers
          /\ Reply([s EXCEPT !.offers = @ \cup {c}], <<Cap("NEW", {c})>>)
       \/ /\ c \in srv.offers /\ srv.welcomed /\ (c = "sasl" => srv.round = 0)
          /\ Reply([s EXCEPT !.offers = @ \ {c}, !.caps = @ \ {c}],
                   <<Cap("DEL", {c})>>)
  /\ UNCHANGED <<mech, auth, lsCaps, connecting, up>>

Next == Receive \/ Serve \/ SrvGivesUp \/ SrvChangesCaps

Spec == Init /\ [][Next]_vars

\* The event loop takes what arrives and the server answers what it is sent.
FairSpec == Spec /\ WF_vars(Receive) /\ WF_vars(Serve)

(***************************************************************************)
(* Properties.                                                             *)
(***************************************************************************)
Commands ==
  [type : {"LS", "REQ", "END"}, caps : SUBSET Capabilities]
    \cup [type : {"AUTHENTICATE"}, arg : {"mechanism", "payload", "abort"}]
    \cup [type : {"NICK"}, arg : 0 .. Nicks]

Messages ==
  [type : {"LS", "LS*", "ACK", "NAK", "NEW", "DEL"}, caps : SUBSET Capabilities]
    \cup [type : {"AUTHENTICATE"}, arg : {"empty", "good", "bad", "garbled"}]
    \cup [type : {"NICK"}, arg : 0 .. Nicks]
    \cup [type : {"code"}, arg : SaslOver \cup {"001", "905"}]

TypeOK ==
  /\ mech \in Mechanisms
  /\ auth \in {"none", "scram1", "scram2", "ecdsaWait", "ecdhWait"} \cup Started
  /\ lsCaps \subseteq Capabilities /\ connecting \in BOOLEAN
  /\ up \in Seq(Commands) /\ down \in Seq(Messages)
  /\ srv \in [offers : SUBSET Capabilities, caps : SUBSET Capabilities,
              capping : BOOLEAN, round : 0 .. 3, nick : BOOLEAN,
              welcomed : BOOLEAN, refused : 0 .. MaxRefused,
              login : {"none", "owed", "success", "failed", "aborted", "cut"},
              changes : 0 .. MaxChanges]

\* A client configured to log in, on a server that offers it, is not welcomed
\* before its login was answered: it asks for SASL however CAP LS is split, and
\* ends the negotiation only after the server has ended the login, or when
\* ecdsatool failed.
LoginSettled ==
  srv.welcomed /\ mech # "none" =>
    srv.login \notin {"owed"} \cup (IF mech = "ecdsa" THEN {} ELSE {"cut"})

\* Whatever the server answers, and whatever nicknames are taken, the client
\* gets to its welcome, and every login that the server began is ended by one
\* of the two, after the welcome too: neither waits for the other.  Left out is
\* ecdsatool failing after the welcome, when CAP END ends nothing.
NegotiationEnds ==
  /\ <>(srv.welcomed /\ ~connecting)
  /\ srv.round > 0 ~> \/ srv.round = 0
                      \/ mech = "ecdsa" /\ srv.welcomed /\ auth = "ecdsaWait"
=============================================================================
