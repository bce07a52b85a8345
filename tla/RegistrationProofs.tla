------------------------- MODULE RegistrationProofs -------------------------
(***************************************************************************)
(* Theorems about Registration for every set of mechanisms, every number   *)
(* of nicknames and every bound.                                           *)
(***************************************************************************)
EXTENDS Registration, SequenceTheorems, TLAPS

\* What the theorem about the login asks of the configuration and the server:
\* no capability of ssCapabilities, which the server could refuse, one ACK per
\* request, and nothing announced before CAP END.
Ordinary == Extra = {} /\ Habits \cap {"splitAck", "earlyNew"} = {}

(***************************************************************************)
(* The invariant.                                                          *)
(***************************************************************************)
Lacks(q, S) == \A i \in 1 .. Len(q) : q[i] \notin S
Once(q, S) == \A i, j \in 1 .. Len(q) : q[i] \in S /\ q[j] \in S => i = j

LsCommands == {c \in Commands : c.type = "LS"}
EndCommands == {c \in Commands : c.type = "END"}
Mechanism == {c \in Commands : c.type = "AUTHENTICATE" /\ c.arg = "mechanism"}
Answers == {c \in Commands : c.type = "AUTHENTICATE" /\ c.arg # "mechanism"}
Requests == {c \in Commands : c.type = "REQ"}
SaslRequests == {c \in Requests : "sasl" \in c.caps}

LsLines == {m \in Messages : m.type \in {"LS", "LS*"}}
LsEnds == {m \in Messages : m.type = "LS"}
Acks == {m \in Messages : m.type = "ACK"}
SaslAcks == {m \in Acks : "sasl" \in m.caps}
Announced == {m \in Messages : m.type = "NEW"}
Challenges == {m \in Messages : m.type = "AUTHENTICATE"}

\* Messages that the client answers with CAP END.
Endings ==
  {m \in Messages : \/ m.type = "NAK"
                    \/ m.type = "ACK" /\ "sasl" \notin m.caps
                    \/ m.type = "code" /\ m.arg \in SaslOver}

Settled ==
  srv.login \notin {"owed"} \cup (IF mech = "ecdsa" THEN {} ELSE {"cut"})

\* Nothing was answered yet.
Opening ==
  /\ up = <<Cap("LS", {}), Nick(1)>> /\ down = << >>
  /\ auth = "none" /\ lsCaps = {}
  /\ srv.caps = {} /\ ~srv.capping /\ srv.round = 0
  /\ ~srv.nick /\ ~srv.welcomed /\ srv.login = "none"

\* The answer to CAP LS stands first, in one line or two, and with what was
\* gathered before it names "sasl".
Listed(gathered) == "sasl" \in gathered /\ gathered \subseteq srv.offers

LsAhead ==
  \/ Lacks(down, LsLines)
  \/ /\ down # << >> /\ Head(down) \in LsEnds
     /\ Lacks(Tail(down), LsLines)
     /\ Listed(lsCaps \cup Head(down).caps)
  \/ /\ down # << >> /\ Head(down) \in LsLines /\ Head(down).type = "LS*"
     /\ Tail(down) # << >> /\ Head(Tail(down)) \in LsEnds
     /\ Lacks(Tail(Tail(down)), LsLines)
     /\ Listed(lsCaps \cup Head(down).caps \cup Head(Tail(down)).caps)

\* One of the steps that lead to a login is under way at most.
UpSteps == Requests \cup Mechanism
DownSteps == LsLines \cup Acks

OneStep ==
  /\ Once(up, UpSteps)
  /\ Lacks(down, Acks) \/ (Lacks(down, LsLines) /\ Once(down, Acks))
  /\ Lacks(up, UpSteps) \/ Lacks(down, DownSteps)
  /\ srv.round > 0 => Lacks(up, UpSteps) /\ Lacks(down, DownSteps)

\* The login is still to come, or it is in progress.
Owed ==
  /\ srv.login = "owed" /\ srv.capping /\ OneStep /\ LsAhead
  /\ Lacks(down, Endings \cup Announced)
  /\ \A i \in 1 .. Len(up) : up[i] \in Requests => Listed(up[i].caps)
  /\ ~(Lacks(up, Mechanism) /\ Lacks(down, Acks)) => "sasl" \in srv.caps
  /\ ~Lacks(up, EndCommands) => mech = "ecdsa" /\ srv.round > 0
  /\ ~(Lacks(up, Answers) /\ Lacks(down, Challenges)) => srv.round > 0

\* There is no login to come before the welcome.
Free ==
  /\ Settled /\ srv.round = 0
  /\ Lacks(up, SaslRequests \cup Mechanism)
  /\ Lacks(down, SaslAcks \cup Announced)
  /\ \/ Lacks(down, LsLines)
     \/ /\ "sasl" \notin lsCaps
        /\ \A i \in 1 .. Len(down) :
             down[i] \in LsLines => "sasl" \notin down[i].caps

EcdsaOnly == auth \in {"ecdsa", "ecdsaWait"} => mech = "ecdsa"

\* After the answer to CAP LS.
Later ==
  /\ Lacks(up, LsCommands)
  /\ srv.welcomed => Settled
  /\ ~srv.welcomed => Owed \/ Free

LoginInv == mech # "none" => EcdsaOnly /\ (Opening \/ Later)

(***************************************************************************)
(* Lemmas about queues.                                                    *)
(***************************************************************************)
LEMMA TailProperties ==
  ASSUME NEW T, NEW q \in Seq(T), q # << >>
  PROVE  /\ Head(q) = q[1] /\ Head(q) \in T /\ Tail(q) \in Seq(T)
         /\ Len(q) \in Nat \ {0} /\ Len(Tail(q)) = Len(q) - 1
         /\ \A i \in 1 .. Len(Tail(q)) :
              i + 1 \in 1 .. Len(q) /\ Tail(q)[i] = q[i + 1]
  BY EmptySeq, HeadTailProperties, LenProperties

LEMMA JoinProperties ==
  ASSUME NEW T, NEW q \in Seq(T), NEW r \in Seq(T)
  PROVE  /\ q \o r \in Seq(T) /\ Len(q) \in Nat /\ Len(r) \in Nat
         /\ Len(q \o r) = Len(q) + Len(r)
         /\ \A i \in 1 .. Len(q) : (q \o r)[i] = q[i]
         /\ \A i \in 1 .. Len(r) : (q \o r)[Len(q) + i] = r[i]
         /\ \A i \in 1 .. Len(q \o r) :
              \/ i \in 1 .. Len(q) /\ (q \o r)[i] = q[i]
              \/ i - Len(q) \in 1 .. Len(r) /\ (q \o r)[i] = r[i - Len(q)]
  BY ConcatProperties, LenProperties

LEMMA LacksTail ==
  ASSUME NEW T, NEW q \in Seq(T), q # << >>, NEW S, Lacks(q, S)
  PROVE  Lacks(Tail(q), S) /\ Head(q) \notin S
  BY TailProperties DEF Lacks

LEMMA LacksJoin ==
  ASSUME NEW T, NEW q \in Seq(T), NEW r \in Seq(T), NEW S
  PROVE  Lacks(q \o r, S) <=> Lacks(q, S) /\ Lacks(r, S)
<1>1. ASSUME Lacks(q \o r, S)
      PROVE  Lacks(q, S) /\ Lacks(r, S)
  <2>1. \A i \in 1 .. Len(q) : i \in 1 .. Len(q \o r) /\ (q \o r)[i] = q[i]
    BY JoinProperties
  <2>2. \A i \in 1 .. Len(r) :
          Len(q) + i \in 1 .. Len(q \o r) /\ (q \o r)[Len(q) + i] = r[i]
    BY JoinProperties
  <2>3. QED
    BY <1>1, <2>1, <2>2 DEF Lacks
<1>2. Lacks(q, S) /\ Lacks(r, S) => Lacks(q \o r, S)
  BY JoinProperties DEF Lacks
<1>3. QED
  BY <1>1, <1>2

LEMMA OnceTail ==
  ASSUME NEW T, NEW q \in Seq(T), q # << >>, NEW S, Once(q, S)
  PROVE  Once(Tail(q), S) /\ (Head(q) \in S => Lacks(Tail(q), S))
<1>1. Once(Tail(q), S)
  <2> SUFFICES ASSUME NEW i \in 1 .. Len(Tail(q)), NEW j \in 1 .. Len(Tail(q)),
                      Tail(q)[i] \in S, Tail(q)[j] \in S
               PROVE  i = j
    BY DEF Once
  <2>1. i + 1 \in 1 .. Len(q) /\ j + 1 \in 1 .. Len(q)
        /\ q[i + 1] \in S /\ q[j + 1] \in S
    BY TailProperties
  <2>2. i + 1 = j + 1
    BY <2>1 DEF Once
  <2>3. QED
    BY <2>2
<1>2. ASSUME Head(q) \in S, NEW i \in 1 .. Len(Tail(q)), Tail(q)[i] \in S
      PROVE  FALSE
  <2>1. q[1] \in S /\ q[i + 1] \in S /\ i + 1 \in 1 .. Len(q) /\ 1 \in 1 .. Len(q)
    BY <1>2, TailProperties
  <2>2. 1 = i + 1
    BY <2>1 DEF Once
  <2>3. QED
    BY <2>2
<1>3. QED
  BY <1>1, <1>2 DEF Lacks

LEMMA OnceJoin ==
  ASSUME NEW T, NEW q \in Seq(T), NEW r \in Seq(T), NEW S,
         \/ Once(q, S) /\ Lacks(r, S)
         \/ Lacks(q, S) /\ Once(r, S)
  PROVE  Once(q \o r, S)
<1> SUFFICES ASSUME NEW i \in 1 .. Len(q \o r), NEW j \in 1 .. Len(q \o r),
                    (q \o r)[i] \in S, (q \o r)[j] \in S
             PROVE  i = j
  BY DEF Once
<1>1. CASE Once(q, S) /\ Lacks(r, S)
  <2>1. i \in 1 .. Len(q) /\ j \in 1 .. Len(q) /\ q[i] \in S /\ q[j] \in S
    BY <1>1, JoinProperties DEF Lacks
  <2>2. QED
    BY <1>1, <2>1 DEF Once
<1>2. CASE Lacks(q, S) /\ Once(r, S)
  <2>1. /\ i - Len(q) \in 1 .. Len(r) /\ j - Len(q) \in 1 .. Len(r)
        /\ r[i - Len(q)] \in S /\ r[j - Len(q)] \in S
    BY <1>2, JoinProperties DEF Lacks
  <2>2. i - Len(q) = j - Len(q)
    BY <1>2, <2>1 DEF Once
  <2>3. QED
    BY <2>2, JoinProperties
<1>3. QED
  BY <1>1, <1>2

LEMMA JoinTail ==
  ASSUME NEW T, NEW q \in Seq(T), NEW r \in Seq(T), q # << >>
  PROVE  /\ q \o r # << >> /\ Head(q \o r) = Head(q)
         /\ Tail(q \o r) = Tail(q) \o r
<1>1. /\ Tail(q) \in Seq(T) /\ Len(q) \in Nat \ {0} /\ Len(r) \in Nat
      /\ Len(Tail(q)) = Len(q) - 1 /\ q \o r \in Seq(T)
      /\ Len(q \o r) = Len(q) + Len(r)
  BY TailProperties, JoinProperties
<1>2. q \o r # << >>
  BY <1>1, EmptySeq
<1>3. /\ Tail(q \o r) \in Seq(T) /\ Tail(q) \o r \in Seq(T)
      /\ Len(Tail(q \o r)) = Len(q) + Len(r) - 1
      /\ Len(Tail(q) \o r) = Len(q) + Len(r) - 1
  BY <1>1, <1>2, TailProperties, JoinProperties
<1>4. ASSUME NEW i \in 1 .. Len(Tail(q \o r))
      PROVE  Tail(q \o r)[i] = (Tail(q) \o r)[i]
  <2>1. Tail(q \o r)[i] = (q \o r)[i + 1] /\ i + 1 \in 1 .. Len(q) + Len(r)
    BY <1>1, <1>2, <1>3, TailProperties
  <2>2. CASE i \in 1 .. Len(q) - 1
    <3>1. (Tail(q) \o r)[i] = Tail(q)[i] /\ Tail(q)[i] = q[i + 1]
      BY <1>1, <2>2, JoinProperties, TailProperties
    <3>2. (q \o r)[i + 1] = q[i + 1]
      BY <1>1, <2>2, JoinProperties
    <3>3. QED
      BY <2>1, <3>1, <3>2
  <2>3. CASE i > Len(q) - 1
    <3>1. (Tail(q) \o r)[i] = r[i - (Len(q) - 1)]
      BY <1>1, <1>3, <2>3, ConcatProperties
    <3>2. (q \o r)[i + 1] = r[(i + 1) - Len(q)]
      BY <1>1, <2>1, <2>3, ConcatProperties
    <3>3. i - (Len(q) - 1) = (i + 1) - Len(q)
      BY <1>1, <1>3
    <3>4. QED
      BY <2>1, <3>1, <3>2, <3>3
  <2>4. QED
    BY <1>1, <1>3, <2>2, <2>3
<1>5. Tail(q \o r) = Tail(q) \o r
  BY <1>3, <1>4, SeqEqual
<1>6. QED
  BY <1>1, <1>2, <1>5, TailProperties, JoinProperties

\* Queues of at most two messages.
LEMMA Short ==
  ASSUME NEW T, NEW a \in T, NEW b \in T, NEW S
  PROVE  /\ << >> \in Seq(T) /\ <<a>> \in Seq(T) /\ <<a, b>> \in Seq(T)
         /\ Lacks(<< >>, S) /\ Once(<< >>, S) /\ Once(<<a>>, S)
         /\ Lacks(<<a>>, S) <=> a \notin S
         /\ Lacks(<<a, b>>, S) <=> a \notin S /\ b \notin S
  BY DEF Lacks, Once

LEMMA One ==
  ASSUME NEW T, NEW a \in T, NEW S
  PROVE  /\ <<a>> \in Seq(T) /\ Once(<<a>>, S)
         /\ a \notin S => Lacks(<<a>>, S)
  BY DEF Lacks, Once

LEMMA Pair ==
  ASSUME NEW T, NEW a \in T, NEW b \in T
  PROVE  /\ <<a>> \o <<b>> = <<a, b>> /\ <<a, b>> \in Seq(T)
         /\ Head(<<a, b>>) = a /\ Tail(<<a, b>>) = <<b>> /\ <<a, b>> # << >>
         /\ Head(<<b>>) = b /\ Tail(<<b>>) = << >> /\ <<b>> # << >>
<1>1. <<a>> \in Seq(T) /\ <<b>> \in Seq(T) /\ <<a, b>> \in Seq(T)
  OBVIOUS
<1>2. <<a>> \o <<b>> = <<a, b>>
  <2> DEFINE q == <<a>> \o <<b>>
             r == <<a, b>>
  <2>1. /\ Len(<<a>>) = 1 /\ Len(<<b>>) = 1 /\ <<a>>[1] = a /\ <<b>>[1] = b
        /\ Len(r) = 2 /\ r[1] = a /\ r[2] = b
    OBVIOUS
  <2>2. q \in Seq(T) /\ Len(q) = 2 /\ q[1] = a /\ q[2] = b
    BY <1>1, <2>1, ConcatProperties
  <2>3. r \in Seq(T)
    BY <1>1
  <2> HIDE DEF q, r
  <2>4. \A i \in 1 .. Len(q) : q[i] = r[i]
    BY <2>1, <2>2
  <2>5. q = r
    BY <2>1, <2>2, <2>3, <2>4, SeqEqual
  <2>6. QED
    BY <2>5 DEF q, r
<1>3. Tail(<<b>>) = << >> /\ Tail(<<a, b>>) = <<b>>
  OBVIOUS
<1>4. QED
  BY <1>1, <1>2, <1>3

LEMMA LacksMore ==
  ASSUME NEW q, NEW R, NEW S
  PROVE  /\ Lacks(q, R \cup S) <=> Lacks(q, R) /\ Lacks(q, S)
         /\ R \subseteq S /\ Lacks(q, S) => Lacks(q, R)
         /\ Lacks(q, S) => Once(q, S)
  BY DEF Lacks, Once

(***************************************************************************)
(* Types.                                                                  *)
(***************************************************************************)
AuthStates == {"none", "scram1", "scram2", "ecdsaWait", "ecdhWait"} \cup Started

Servers ==
  [offers : SUBSET Capabilities, caps : SUBSET Capabilities,
   capping : BOOLEAN, round : 0 .. 3, nick : BOOLEAN,
   welcomed : BOOLEAN, refused : 0 .. MaxRefused,
   login : {"none", "owed", "success", "failed", "aborted", "cut"},
   changes : 0 .. MaxChanges]

\* Whatever the client sends, it is a command.
LEMMA CommandTypes ==
  /\ End \in Commands
  /\ \A a \in {"mechanism", "payload", "abort"} : Auth(a) \in Commands
  /\ \A n \in 0 .. Nicks : Nick(n) \in Commands
  /\ \A caps \in SUBSET Capabilities :
       Cap("REQ", caps) \in Commands /\ Request(caps) \in Seq(Commands)
<1>1. /\ End \in Commands
      /\ \A a \in {"mechanism", "payload", "abort"} : Auth(a) \in Commands
      /\ \A n \in 0 .. Nicks : Nick(n) \in Commands
      /\ \A caps \in SUBSET Capabilities : Cap("REQ", caps) \in Commands
  BY DEF Commands, End, Cap, Auth, Nick
<1>2. \A caps \in SUBSET Capabilities : Request(caps) \in Seq(Commands)
  BY <1>1, Short DEF Request
<1>3. QED
  BY <1>1, <1>2

LEMMA MessageTypes ==
  /\ \A type \in {"LS", "LS*", "ACK", "NAK", "NEW", "DEL"} :
       \A caps \in SUBSET Capabilities : Cap(type, caps) \in Messages
  /\ \A a \in {"empty", "good", "bad", "garbled"} : Auth(a) \in Messages
  /\ \A n \in 0 .. Nicks : Nick(n) \in Messages
  /\ \A c \in SaslOver \cup {"001", "905"} : Code(c) \in Messages
  BY DEF Messages, Cap, Auth, Nick, Code

LEMMA AnswerType ==
  ASSUME TypeOK, NEW send \in Seq(Commands), NEW state \in AuthStates,
         NEW caps \in SUBSET Capabilities, Answer(send, state, caps)
  PROVE  up' \in Seq(Commands) /\ auth' \in AuthStates
         /\ lsCaps' \subseteq Capabilities
  BY JoinProperties DEF TypeOK, Answer

LEMMA SelectType ==
  ASSUME NEW offered \in SUBSET Capabilities
  PROVE  SelectCaps(offered) \in SUBSET Capabilities
  BY RegistrationAssumption DEF SelectCaps, Capabilities

LEMMA ReceiveType ==
  ASSUME TypeOK, Receive
  PROVE  TypeOK'
<1> DEFINE m == Head(down)
<1>1. /\ m \in Messages /\ down' \in Seq(Messages) /\ connecting' \in BOOLEAN
      /\ mech' = mech /\ srv' = srv
  BY TailProperties DEF TypeOK, Receive
<1>2. auth \in AuthStates /\ lsCaps \in SUBSET Capabilities
      /\ mech \in Started \cup {"none"}
  BY RegistrationAssumption DEF TypeOK, AuthStates
<1>3. /\ << >> \in Seq(Commands) /\ <<End>> \in Seq(Commands)
      /\ \A a \in {"mechanism", "payload", "abort"} :
           <<Auth(a)>> \in Seq(Commands)
      /\ \A n \in 0 .. Nicks : <<Nick(n)>> \in Seq(Commands)
  BY CommandTypes, Short
<1> HIDE DEF m
<1> DEFINE Typed == up' \in Seq(Commands) /\ auth' \in AuthStates
                    /\ lsCaps' \subseteq Capabilities
<1>4. ASSUME DoCap(m), m.type \in {"LS", "LS*", "ACK", "NAK", "NEW", "DEL"}
      PROVE  Typed
  <2>1. m.caps \in SUBSET Capabilities
    BY <1>1, <1>4 DEF Messages
  <2>2. AllCaps(m.caps) \in SUBSET Capabilities
        /\ SelectCaps(AllCaps(m.caps)) \in SUBSET Capabilities
        /\ SelectCaps(m.caps) \in SUBSET Capabilities
    BY <1>2, <2>1, SelectType DEF AllCaps
  <2>3. /\ Request(SelectCaps(AllCaps(m.caps))) \in Seq(Commands)
        /\ Request(SelectCaps(m.caps)) \in Seq(Commands)
    BY <2>2, CommandTypes
  <2>4. mech # "none" => mech \in AuthStates
    BY <1>2 DEF AuthStates
  <2>5. \E send \in Seq(Commands), state \in AuthStates,
           caps \in SUBSET Capabilities : Answer(send, state, caps)
    BY <1>2, <1>3, <1>4, <2>2, <2>3, <2>4 DEF DoCap
  <2>6. QED
    BY <2>5, AnswerType
<1>5. ASSUME NEW a, DoAuthenticate(a) \/ ProcessSaslEcdsa(a)
      PROVE  Typed
  <2>1. After(auth) \in AuthStates /\ "none" \in AuthStates
    BY DEF After, AuthStates
  <2>2. ASSUME DoAuthenticate(a)
        PROVE  \E send \in Seq(Commands), state \in AuthStates,
                  caps \in SUBSET Capabilities : Answer(send, state, caps)
    BY <1>2, <1>3, <2>1, <2>2 DEF DoAuthenticate, AbortAuth
  <2>3. /\ << >> \o <<End>> \in Seq(Commands)
        /\ <<Auth("abort")>> \o <<End>> \in Seq(Commands)
    BY <1>3, JoinProperties
  <2>4. ASSUME ProcessSaslEcdsa(a)
        PROVE  \E send \in Seq(Commands), state \in AuthStates,
                  caps \in SUBSET Capabilities : Answer(send, state, caps)
    BY <1>2, <1>3, <2>1, <2>3, <2>4 DEF ProcessSaslEcdsa
  <2>5. QED
    BY <1>5, <2>2, <2>4, AnswerType
<1>6. ASSUME m.type = "NICK",
             Answer(IF connecting THEN <<Nick(NextNick(m.arg))>> ELSE << >>,
                    auth, lsCaps)
      PROVE  Typed
  <2>1. m.arg \in 0 .. Nicks
    BY <1>1, <1>6 DEF Messages
  <2>2. NextNick(m.arg) \in 0 .. Nicks
    BY <2>1, RegistrationAssumption DEF NextNick
  <2>3. QED
    BY <1>2, <1>3, <1>6, <2>2, AnswerType
<1>7. ASSUME Answer(IF m.arg \in SaslOver THEN <<End>> ELSE << >>,
                    auth, lsCaps)
      PROVE  Typed
  BY <1>2, <1>3, <1>7, AnswerType
<1>8. Typed
  <2>1. DoCap(m) => m.type \in {"LS", "LS*", "ACK", "NAK", "NEW", "DEL"}
    BY DEF DoCap
  <2>2. QED
    BY <1>4, <1>5, <1>6, <1>7, <2>1 DEF Receive, m
<1>9. QED
  BY <1>1, <1>8 DEF TypeOK, AuthStates

\* A server that keeps its type and answers with messages.
LEMMA ReplyType ==
  ASSUME TypeOK, NEW s \in Servers, NEW messages \in Seq(Messages),
         Reply(s, messages)
  PROVE  srv' \in Servers /\ down' \in Seq(Messages)
<1> DEFINE welcome == IF s.nick /\ ~s.capping /\ ~s.welcomed
                      THEN <<Code("001")>> ELSE << >>
<1>1. Code("001") \in Messages
  BY MessageTypes
<1>2. welcome \in Seq(Messages)
  BY <1>1, Short
<1>3. down' = (down \o messages) \o welcome
  BY DEF Reply
<1>4. down \in Seq(Messages)
  BY DEF TypeOK
<1>5. down' \in Seq(Messages)
  <2> HIDE DEF welcome
  <2>1. down \o messages \in Seq(Messages)
    BY <1>4, JoinProperties
  <2>2. QED
    BY <1>2, <1>3, <2>1, JoinProperties
<1>6. srv' \in Servers
  BY DEF Reply, Servers
<1>7. QED
  BY <1>5, <1>6

LEMMA ServerType == TypeOK => srv \in Servers
  BY DEF TypeOK, Servers

LEMMA ConcludedType ==
  ASSUME TypeOK, NEW verdict \in {"success", "failed", "aborted", "cut"}
  PROVE  /\ Concluded(verdict) \in Servers
         /\ [Concluded(verdict) EXCEPT !.capping = FALSE] \in Servers
<1>1. srv \in Servers
  BY ServerType
<1> DEFINE result == IF srv.welcomed THEN srv.login ELSE verdict
<1>2. result \in {"none", "owed", "success", "failed", "aborted", "cut"}
  BY <1>1 DEF Servers
<1>3. Concluded(verdict) \in Servers
  <2> HIDE DEF result
  <2>1. [srv EXCEPT !.round = 0] \in Servers
    BY <1>1 DEF Servers
  <2>2. [[srv EXCEPT !.round = 0] EXCEPT !.login = result] \in Servers
    <3> DEFINE s == [srv EXCEPT !.round = 0]
    <3> HIDE DEF s
    <3>1. s \in Servers
      BY <2>1 DEF s
    <3>2. [s EXCEPT !.login = result] \in Servers
      BY <1>2, <3>1 DEF Servers
    <3>3. QED
      BY <3>2 DEF s
  <2>3. QED
    BY <2>2 DEF Concluded, result
<1>4. [Concluded(verdict) EXCEPT !.capping = FALSE] \in Servers
  BY <1>3 DEF Servers
<1>5. QED
  BY <1>3, <1>4

LEMMA CodeTypes ==
  /\ Code("001") \in Messages
  /\ <<Code("903")>> \in Seq(Messages) /\ <<Code("904")>> \in Seq(Messages)
  /\ <<Code("905")>> \in Seq(Messages) /\ <<Code("906")>> \in Seq(Messages)
  /\ \A f \in Failures : f \in Seq(Messages)
<1>1. /\ Code("001") \in Messages /\ Code("903") \in Messages
      /\ Code("904") \in Messages /\ Code("905") \in Messages
      /\ Code("906") \in Messages /\ Code("908") \in Messages
  BY DEF Messages, Code, SaslOver
<1>2. /\ <<Code("903")>> \in Seq(Messages) /\ <<Code("904")>> \in Seq(Messages)
      /\ <<Code("905")>> \in Seq(Messages) /\ <<Code("906")>> \in Seq(Messages)
      /\ <<Code("908"), Code("904")>> \in Seq(Messages)
  BY <1>1, Short
<1>3. \A f \in Failures : f \in Seq(Messages)
  BY <1>2 DEF Failures
<1>4. QED
  BY <1>1, <1>2, <1>3

LEMMA ServeType ==
  ASSUME TypeOK, Serve
  PROVE  TypeOK'
<1> DEFINE c == Head(up)
           Typed == srv' \in Servers /\ down' \in Seq(Messages)
<1>1. c \in Commands /\ up' \in Seq(Commands)
      /\ UNCHANGED <<mech, auth, lsCaps, connecting>>
  BY TailProperties DEF TypeOK, Serve
<1>2. srv \in Servers /\ srv.offers \in SUBSET Capabilities
  BY ServerType DEF Servers
<1>3. << >> \in Seq(Messages)
      /\ \A type \in {"LS", "LS*", "ACK", "NAK", "NEW", "DEL"} :
           \A caps \in SUBSET Capabilities : <<Cap(type, caps)>> \in Seq(Messages)
      /\ \A a \in {"empty", "good", "bad", "garbled"} :
           <<Auth(a)>> \in Seq(Messages)
      /\ \A n \in 0 .. Nicks : <<Nick(n)>> \in Seq(Messages)
  BY MessageTypes, Short
<1> HIDE DEF c
<1>4. ASSUME SrvCap(c)
      PROVE  Typed
  <2>1. c.type \in {"LS", "REQ", "END"} /\ c.caps \in SUBSET Capabilities
    BY <1>1, <1>4 DEF Commands, SrvCap
  <2>2. \A first \in SUBSET Capabilities, type \in {"LS*", "ACK"} :
          (IF first = {} THEN << >> ELSE <<Cap(type, first)>>) \in Seq(Messages)
    BY <1>3
  <2>3. \A first \in SUBSET Capabilities, caps \in SUBSET Capabilities :
          /\ (IF first = {} THEN << >> ELSE <<Cap("LS*", first)>>)
               \o <<Cap("LS", caps)>> \in Seq(Messages)
          /\ (IF first = {} THEN << >> ELSE <<Cap("ACK", first)>>)
               \o <<Cap("ACK", caps)>> \in Seq(Messages)
    BY <1>3, <2>2, JoinProperties
  <2>4. /\ [srv EXCEPT !.capping = TRUE,
                       !.login = IF "sasl" \in srv.offers THEN "owed"
                                 ELSE @] \in Servers
        /\ [srv EXCEPT !.caps = @ \cup c.caps] \in Servers
        /\ [srv EXCEPT !.capping = FALSE] \in Servers
        /\ [Concluded("cut") EXCEPT !.capping = FALSE] \in Servers
    BY <1>2, <2>1, ConcludedType DEF Servers
  <2>5. CASE c.type = "LS"
    <3>1. PICK first \in SUBSET srv.offers :
            Reply([srv EXCEPT !.capping = TRUE,
                              !.login = IF "sasl" \in srv.offers THEN "owed"
                                        ELSE @],
                  (IF first = {} THEN << >> ELSE <<Cap("LS*", first)>>)
                    \o <<Cap("LS", srv.offers \ first)>>)
      BY <1>4, <2>5 DEF SrvCap
    <3>2. first \in SUBSET Capabilities /\ srv.offers \ first \in SUBSET Capabilities
      BY <1>2
    <3>3. QED
      BY <2>3, <2>4, <3>1, <3>2, ReplyType
  <2>6. CASE c.type = "REQ" /\ c.caps \subseteq srv.offers
    <3>1. PICK first \in SUBSET c.caps :
            Reply([srv EXCEPT !.caps = @ \cup c.caps],
                  (IF first = {} THEN << >> ELSE <<Cap("ACK", first)>>)
                    \o <<Cap("ACK", c.caps \ first)>>)
      BY <1>4, <2>6 DEF SrvCap
    <3>2. first \in SUBSET Capabilities /\ c.caps \ first \in SUBSET Capabilities
      BY <2>1
    <3>3. QED
      BY <2>3, <2>4, <3>1, <3>2, ReplyType
  <2>7. CASE c.type = "REQ" /\ ~(c.caps \subseteq srv.offers)
    <3>1. Reply(srv, <<Cap("NAK", c.caps)>>)
      BY <1>4, <2>7 DEF SrvCap
    <3>2. QED
      BY <1>2, <1>3, <2>1, <3>1, ReplyType
  <2>8. CASE c.type = "END"
    <3>1. \/ Reply([srv EXCEPT !.capping = FALSE], << >>)
          \/ Reply([Concluded("cut") EXCEPT !.capping = FALSE], <<Code("906")>>)
          \/ Reply(srv, << >>)
      BY <1>4, <2>8 DEF SrvCap
    <3>2. QED
      BY <1>2, <1>3, <2>4, <3>1, CodeTypes, ReplyType
  <2>9. QED
    BY <2>1, <2>5, <2>6, <2>7, <2>8
<1>5. ASSUME SrvAuthenticate(c.arg)
      PROVE  Typed
  <2>1. /\ [srv EXCEPT !.round = 1] \in Servers
        /\ srv.round < Rounds => [srv EXCEPT !.round = @ + 1] \in Servers
    BY <1>2 DEF Servers, Rounds
  <2>2. /\ Concluded("failed") \in Servers /\ Concluded("aborted") \in Servers
        /\ Concluded("success") \in Servers
    BY ConcludedType
  <2>3. (IF c.arg = "abort" THEN <<Code("906")>> ELSE <<Code("904")>>)
          \in Seq(Messages)
    BY CodeTypes
  <2>4. \E s \in Servers, messages \in Seq(Messages) : Reply(s, messages)
    <3> USE <1>2, <1>3, <2>1, <2>2, <2>3, CodeTypes
    <3>1. CASE srv.round = 0 /\ c.arg = "mechanism" /\ "sasl" \in srv.caps
      BY <1>5, <3>1 DEF SrvAuthenticate
    <3>2. CASE srv.round = 0 /\ ~(c.arg = "mechanism" /\ "sasl" \in srv.caps)
      BY <1>5, <3>2 DEF SrvAuthenticate
    <3>3. CASE srv.round > 0 /\ c.arg = "abort"
      BY <1>5, <3>3 DEF SrvAuthenticate
    <3>4. CASE srv.round > 0 /\ c.arg # "abort"
      BY <1>5, <3>4 DEF SrvAuthenticate
    <3>5. srv.round = 0 \/ srv.round > 0
      BY DEF Servers
    <3>6. QED
      BY <3>1, <3>2, <3>3, <3>4, <3>5
  <2>5. QED
    BY <2>4, ReplyType
<1>6. ASSUME c.type = "NICK", SrvNick(c.arg)
      PROVE  Typed
  <2>1. c.arg \in 0 .. Nicks
    BY <1>1, <1>6 DEF Commands
  <2>2. [srv EXCEPT !.nick = TRUE] \in Servers
    BY <1>2 DEF Servers
  <2>3. ASSUME c.arg = 0 => srv.refused < MaxRefused
        PROVE  [srv EXCEPT !.refused = IF c.arg = 0 THEN @ + 1 ELSE @] \in Servers
    BY <1>2, <2>3, RegistrationAssumption DEF Servers
  <2>4. \E s \in Servers, messages \in Seq(Messages) : Reply(s, messages)
    BY <1>3, <1>6, <2>1, <2>2, <2>3 DEF SrvNick
  <2>5. QED
    BY <2>4, ReplyType
<1>7. Typed
  BY <1>4, <1>5, <1>6 DEF Serve, c
<1>8. QED
  BY <1>1, <1>7 DEF TypeOK, Servers

LEMMA NextType == TypeOK /\ [Next]_vars => TypeOK'
<1> SUFFICES ASSUME TypeOK, [Next]_vars PROVE TypeOK'
  OBVIOUS
<1>1. srv \in Servers
  BY ServerType
<1>2. CASE SrvGivesUp
  <2>1. Concluded("failed") \in Servers
    BY ConcludedType
  <2>2. srv' \in Servers /\ down' \in Seq(Messages)
    BY <1>2, <2>1, CodeTypes, ReplyType DEF SrvGivesUp
  <2>3. QED
    BY <1>2, <2>2 DEF SrvGivesUp, TypeOK, Servers
<1>3. CASE SrvChangesCaps
  <2>1. PICK c \in {"sasl", "away"} :
          LET s == [srv EXCEPT !.changes = @ + 1] IN
          \/ Reply([s EXCEPT !.offers = @ \cup {c}], <<Cap("NEW", {c})>>)
          \/ Reply([s EXCEPT !.offers = @ \ {c}, !.caps = @ \ {c}],
                   <<Cap("DEL", {c})>>)
    BY <1>3 DEF SrvChangesCaps
  <2>2. /\ [[srv EXCEPT !.changes = @ + 1] EXCEPT !.offers = @ \cup {c}] \in Servers
        /\ [[srv EXCEPT !.changes = @ + 1] EXCEPT !.offers = @ \ {c},
                                                  !.caps = @ \ {c}] \in Servers
    <3>1. [srv EXCEPT !.changes = @ + 1] \in Servers
      BY <1>1, <1>3, RegistrationAssumption DEF SrvChangesCaps, Servers
    <3>2. c \in Capabilities
      BY DEF Capabilities
    <3> DEFINE s == [srv EXCEPT !.changes = @ + 1]
    <3> HIDE DEF s
    <3>3. s \in Servers
      BY <3>1 DEF s
    <3>4. /\ [s EXCEPT !.offers = @ \cup {c}] \in Servers
          /\ [s EXCEPT !.offers = @ \ {c}, !.caps = @ \ {c}] \in Servers
      BY <3>2, <3>3 DEF Servers
    <3>5. QED
      BY <3>4 DEF s
  <2>3. <<Cap("NEW", {c})>> \in Seq(Messages) /\ <<Cap("DEL", {c})>> \in Seq(Messages)
    <3>1. {c} \in SUBSET Capabilities
      BY DEF Capabilities
    <3>2. Cap("NEW", {c}) \in Messages /\ Cap("DEL", {c}) \in Messages
      BY <3>1, MessageTypes
    <3>3. QED
      BY <3>2, Short
  <2>4. srv' \in Servers /\ down' \in Seq(Messages)
    BY <2>1, <2>2, <2>3, ReplyType
  <2>5. QED
    BY <1>3, <2>4 DEF SrvChangesCaps, TypeOK, Servers
<1>4. CASE UNCHANGED vars
  BY <1>4 DEF vars, TypeOK
<1>5. QED
  BY <1>2, <1>3, <1>4, ReceiveType, ServeType DEF Next

LEMMA InitType == Init => TypeOK
<1> SUFFICES ASSUME Init PROVE TypeOK
  OBVIOUS
<1>1. Cap("LS", {}) \in Commands /\ Nick(1) \in Commands
  BY RegistrationAssumption DEF Commands, Cap, Nick
<1>2. up \in Seq(Commands) /\ down \in Seq(Messages)
  BY <1>1, Short DEF Init
<1>3. srv \in Servers
  BY RegistrationAssumption DEF Init, Servers, Capabilities
<1>4. QED
  BY <1>2, <1>3, RegistrationAssumption DEF Init, TypeOK, Servers

\* The registration's state and both queues keep their types.
THEOREM TypeCorrect == Spec => []TypeOK
<1>1. Init => TypeOK
  BY InitType
<1>2. TypeOK /\ [Next]_vars => TypeOK'
  BY NextType
<1>3. QED
  BY <1>1, <1>2, PTL DEF Spec

(***************************************************************************)
(* The client's steps.                                                     *)
(***************************************************************************)

\* What is of no consequence to the login.
Idle == Requests \cup Mechanism \cup Answers \cup EndCommands

\* What the client sends on a message m.
Sends(m, send) ==
  \/ /\ m \in LsLines /\ m.type = "LS*"
     /\ send = << >> /\ lsCaps' = lsCaps \cup m.caps
  \/ /\ m \in LsEnds /\ lsCaps' = {}
     /\ LET caps == SelectCaps(lsCaps \cup m.caps)
        IN send = IF caps = {} THEN <<End>> ELSE <<Cap("REQ", caps)>>
  \/ m \in Announced /\ lsCaps' = lsCaps
  \/ m \in SaslAcks /\ send = <<Auth("mechanism")>> /\ lsCaps' = lsCaps
  \/ m \in Endings /\ send = <<End>> /\ lsCaps' = lsCaps
  \/ /\ m \in Challenges /\ lsCaps' = lsCaps
     /\ Lacks(send, UpSteps)
     /\ Lacks(send, EndCommands) \/ auth = "ecdsaWait"
  \/ /\ m \notin LsLines \cup Acks /\ lsCaps' = lsCaps
     /\ Lacks(send, Idle)

\* Which commands are of which kind.
LEMMA CommandKinds ==
  /\ End \in Commands /\ End \notin LsCommands \cup UpSteps \cup Answers
  /\ Auth("mechanism") \in Commands
  /\ Auth("mechanism") \notin LsCommands \cup Requests \cup Answers \cup EndCommands
  /\ \A a \in {"payload", "abort"} :
       /\ Auth(a) \in Commands
       /\ Auth(a) \notin LsCommands \cup UpSteps \cup EndCommands
  /\ \A n \in 0 .. Nicks : Nick(n) \in Commands /\ Nick(n) \notin LsCommands \cup Idle
  /\ \A caps \in SUBSET Capabilities :
       /\ Cap("REQ", caps) \in Commands
       /\ Cap("REQ", caps) \notin LsCommands \cup Mechanism \cup Answers \cup EndCommands
  BY CommandTypes DEF LsCommands, UpSteps, Requests, Mechanism, Answers,
     EndCommands, Idle, End, Auth, Nick, Cap

LEMMA ReceiveSends ==
  ASSUME TypeOK, mech # "none", Receive
  PROVE  \E send \in Seq(Commands) :
           /\ up' = up \o send /\ Lacks(send, LsCommands)
           /\ Sends(Head(down), send)
<1> DEFINE m == Head(down)
           Right(send) == /\ send \in Seq(Commands) /\ up' = up \o send
                          /\ Lacks(send, LsCommands) /\ Sends(m, send)
<1>1. m \in Messages
  BY TailProperties DEF TypeOK, Receive
<1>2. /\ << >> \in Seq(Commands) /\ Lacks(<< >>, LsCommands) /\ Lacks(<< >>, Idle)
      /\ <<End>> \in Seq(Commands) /\ Lacks(<<End>>, LsCommands)
      /\ <<Auth("mechanism")>> \in Seq(Commands)
      /\ Lacks(<<Auth("mechanism")>>, LsCommands)
      /\ \A a \in {"payload", "abort"} :
           /\ <<Auth(a)>> \in Seq(Commands) /\ Lacks(<<Auth(a)>>, LsCommands)
           /\ Lacks(<<Auth(a)>>, UpSteps) /\ Lacks(<<Auth(a)>>, EndCommands)
      /\ \A n \in 0 .. Nicks :
           /\ <<Nick(n)>> \in Seq(Commands) /\ Lacks(<<Nick(n)>>, LsCommands)
           /\ Lacks(<<Nick(n)>>, Idle)
      /\ \A caps \in SUBSET Capabilities :
           <<Cap("REQ", caps)>> \in Seq(Commands)
           /\ Lacks(<<Cap("REQ", caps)>>, LsCommands)
  BY CommandKinds, Short DEF UpSteps, Lacks
<1> HIDE DEF m
<1>3. ASSUME DoCap(m)
      PROVE  \E send : Right(send)
  <2>1. m.type \in {"LS", "LS*", "ACK", "NAK", "NEW", "DEL"}
        /\ m.caps \in SUBSET Capabilities
    BY <1>1, <1>3 DEF DoCap, Messages
  <2>2. lsCaps \in SUBSET Capabilities
    BY DEF TypeOK
  <2>3. SelectCaps(lsCaps \cup m.caps) \in SUBSET Capabilities
        /\ SelectCaps(m.caps) \in SUBSET Capabilities
        /\ AllCaps(m.caps) = lsCaps \cup m.caps
    BY <2>1, <2>2, SelectType DEF AllCaps
  <2>4. CASE m.type = "LS*"
    BY <1>1, <1>2, <1>3, <2>1, <2>3, <2>4, JoinProperties
    DEF DoCap, Answer, Sends, LsLines
  <2>5. CASE m.type = "LS"
    BY <1>1, <1>2, <1>3, <2>1, <2>3, <2>5
    DEF DoCap, Answer, Request, Sends, LsEnds
  <2>6. CASE m.type = "NEW"
    BY <1>1, <1>2, <1>3, <2>1, <2>3, <2>6
    DEF DoCap, Answer, Request, Sends, Announced
  <2>7. CASE m.type = "DEL"
    BY <1>1, <1>2, <1>3, <2>1, <2>7
    DEF DoCap, Answer, Sends, LsLines, Acks
  <2>8. CASE m.type = "ACK" /\ "sasl" \in m.caps
    BY <1>1, <1>2, <1>3, <2>8 DEF DoCap, Answer, Sends, Acks, SaslAcks
  <2>9. CASE m.type = "NAK" \/ (m.type = "ACK" /\ "sasl" \notin m.caps)
    BY <1>1, <1>2, <1>3, <2>9 DEF DoCap, Answer, Sends, Endings
  <2>10. QED
    BY <2>1, <2>4, <2>5, <2>6, <2>7, <2>8, <2>9
<1>4. ASSUME m.type = "AUTHENTICATE",
             DoAuthenticate(m.arg) \/ ProcessSaslEcdsa(m.arg)
      PROVE  \E send : Right(send)
  <2>1. m \in Challenges
    BY <1>1, <1>4 DEF Challenges
  <2>2. /\ << >> \o <<End>> \in Seq(Commands)
        /\ Lacks(<< >> \o <<End>>, LsCommands \cup UpSteps)
        /\ <<Auth("abort")>> \o <<End>> \in Seq(Commands)
        /\ Lacks(<<Auth("abort")>> \o <<End>>, LsCommands \cup UpSteps)
    <3> DEFINE S == LsCommands \cup UpSteps
    <3>1. End \in Commands /\ Auth("abort") \in Commands
          /\ End \notin S /\ Auth("abort") \notin S
      BY CommandKinds
    <3> HIDE DEF S
    <3>2. /\ << >> \in Seq(Commands) /\ Lacks(<< >>, S)
          /\ <<End>> \in Seq(Commands) /\ Lacks(<<End>>, S)
          /\ <<Auth("abort")>> \in Seq(Commands) /\ Lacks(<<Auth("abort")>>, S)
      BY <3>1, Short
    <3>3. << >> \o <<End>> \in Seq(Commands)
          /\ <<Auth("abort")>> \o <<End>> \in Seq(Commands)
      BY <3>2, JoinProperties
    <3>4. Lacks(<< >> \o <<End>>, S)
      BY <3>2, LacksJoin
    <3>5. Lacks(<<Auth("abort")>> \o <<End>>, S)
      BY <3>2, LacksJoin
    <3>6. QED
      BY <3>3, <3>4, <3>5 DEF S
  <2>3. CASE DoAuthenticate(m.arg)
    BY <1>2, <2>1, <2>3 DEF DoAuthenticate, AbortAuth, Answer, Sends
  <2>4. CASE ProcessSaslEcdsa(m.arg)
    <3> DEFINE aborts == IF m.arg = "garbled" THEN <<Auth("abort")>> ELSE << >>
    <3>1. /\ aborts \o <<End>> \in Seq(Commands)
          /\ Lacks(aborts \o <<End>>, LsCommands)
          /\ Lacks(aborts \o <<End>>, UpSteps)
      BY <2>2, LacksMore
    <3>2. auth = "ecdsaWait" /\ lsCaps' = lsCaps
          /\ \/ up' = up \o (aborts \o <<End>>)
             \/ up' = up \o <<Auth("payload")>>
      BY <2>4 DEF ProcessSaslEcdsa, Answer
    <3> HIDE DEF aborts
    <3>3. CASE up' = up \o (aborts \o <<End>>)
      BY <2>1, <3>1, <3>2, <3>3 DEF Sends
    <3>4. CASE up' = up \o <<Auth("payload")>>
      BY <1>2, <2>1, <3>2, <3>4 DEF Sends
    <3>5. QED
      BY <3>2, <3>3, <3>4
  <2>5. QED
    BY <1>4, <2>3, <2>4
<1>5. ASSUME m.type = "NICK",
             Answer(IF connecting THEN <<Nick(NextNick(m.arg))>> ELSE << >>,
                    auth, lsCaps)
      PROVE  \E send : Right(send)
  <2>1. NextNick(m.arg) \in 0 .. Nicks
    BY <1>1, <1>5, RegistrationAssumption DEF Messages, NextNick
  <2>2. m \notin LsLines \cup Acks
    BY <1>5 DEF LsLines, Acks
  <2>3. QED
    BY <1>2, <1>5, <2>1, <2>2 DEF Answer, Sends
<1>6. ASSUME m.type = "code",
             Answer(IF m.arg \in SaslOver THEN <<End>> ELSE << >>,
                    auth, lsCaps)
      PROVE  \E send : Right(send)
  <2>1. m \notin LsLines \cup Acks
    BY <1>6 DEF LsLines, Acks
  <2>2. m.arg \in SaslOver => m \in Endings
    BY <1>1, <1>6 DEF Endings
  <2>3. QED
    BY <1>2, <1>6, <2>1, <2>2 DEF Answer, Sends
<1>7. \E send : Right(send)
  BY <1>3, <1>4, <1>5, <1>6 DEF Receive, m
<1>8. QED
  BY <1>7 DEF m

\* The capabilities the client selects name SASL when they were gathered, and
\* the server has all of them.
LEMMA SelectListed ==
  ASSUME TypeOK, Ordinary, mech # "none", NEW gathered, Listed(gathered)
  PROVE  Listed(SelectCaps(gathered))
  BY DEF Ordinary, Listed, SelectCaps

\* What the rest of the messages keeps from all of them.
LEMMA Rest ==
  ASSUME TypeOK, Receive, NEW S, NEW R
  PROVE  /\ down' = Tail(down) /\ Head(down) \in Messages /\ down # << >>
         /\ Lacks(down, S) => Lacks(down', S) /\ Head(down) \notin S
         /\ Once(down, S) => Once(down', S)
         /\ Once(down, S) /\ Head(down) \in S => Lacks(down', S)
         /\ mech' = mech /\ srv' = srv
<1>1. down \in Seq(Messages) /\ down # << >> /\ down' = Tail(down)
      /\ mech' = mech /\ srv' = srv
  BY DEF TypeOK, Receive
<1>2. QED
  BY <1>1, LacksTail, OnceTail, TailProperties

LEMMA ReceiveOwed ==
  ASSUME TypeOK, Ordinary, mech # "none", EcdsaOnly, Owed, Receive
  PROVE  Owed'
<1> DEFINE m == Head(down)
<1>1. PICK send \in Seq(Commands) : up' = up \o send /\ Sends(m, send)
  BY ReceiveSends
<1>2. /\ up \in Seq(Commands) /\ down' = Tail(down) /\ m \in Messages
      /\ down # << >> /\ mech' = mech /\ srv' = srv
  BY Rest DEF TypeOK
<1>3. \A S : Lacks(up', S) <=> Lacks(up, S) /\ Lacks(send, S)
  BY <1>1, <1>2, LacksJoin
<1>4. \A S : /\ Lacks(down, S) => Lacks(down', S) /\ m \notin S
             /\ Once(down, S) => Once(down', S)
             /\ Once(down, S) /\ m \in S => Lacks(down', S)
  BY Rest
<1>5. \A i \in 1 .. Len(up') :
        \/ i \in 1 .. Len(up) /\ up'[i] = up[i]
        \/ i - Len(up) \in 1 .. Len(send) /\ up'[i] = send[i - Len(up)]
  BY <1>1, <1>2, JoinProperties
<1>6. Once(up, UpSteps) /\ Lacks(send, UpSteps) => Once(up', UpSteps)
  BY <1>1, <1>2, OnceJoin
<1>7. Lacks(up, UpSteps) /\ Once(send, UpSteps) => Once(up', UpSteps)
  BY <1>1, <1>2, OnceJoin
<1>8. Lacks(down', Endings \cup Announced)
  BY <1>4 DEF Owed
<1>9. m \notin Endings \cup Announced
  BY <1>4 DEF Owed
<1> HIDE DEF m
\* Steps by the kind of the message.
<1>10. CASE m \in LsLines /\ m.type = "LS*"
  <2>1. send = << >> /\ lsCaps' = lsCaps \cup m.caps
    BY <1>1, <1>9, <1>10
    DEF Sends, LsLines, LsEnds, SaslAcks, Acks, Challenges
  <2>2. ~Lacks(down, LsLines) /\ m \notin LsEnds /\ m \in DownSteps
    BY <1>4, <1>10 DEF LsEnds, DownSteps
  <2>3. /\ down' # << >> /\ Head(down') \in LsEnds
        /\ Lacks(Tail(down'), LsLines)
        /\ Listed(lsCaps' \cup Head(down').caps)
    BY <1>2, <2>1, <2>2 DEF Owed, LsAhead, m, Listed
  <2>4. LsAhead'
    BY <1>2, <2>3 DEF LsAhead, Listed
  <2>5. up' = up
    BY <1>1, <1>2, <2>1, ConcatEmptySeq
  <2>6. /\ ~Lacks(down, DownSteps) /\ Lacks(up, UpSteps) /\ ~(srv.round > 0)
        /\ Lacks(down, Acks)
    BY <1>4, <2>2 DEF Owed, OneStep
  <2>7. OneStep'
    BY <1>2, <1>4, <2>5, <2>6 DEF Owed, OneStep
  <2>8. QED
    BY <1>2, <1>4, <1>8, <2>4, <2>5, <2>7 DEF Owed, Listed
<1>11. CASE m \in LsEnds
  <2> DEFINE caps == SelectCaps(lsCaps \cup m.caps)
  <2>1. /\ send = IF caps = {} THEN <<End>> ELSE <<Cap("REQ", caps)>>
        /\ lsCaps' = {}
    BY <1>1, <1>9, <1>11
    DEF Sends, LsLines, LsEnds, SaslAcks, Acks, Challenges
  <2>2. ~Lacks(down, LsLines) /\ m \in LsLines /\ m.type # "LS*" /\ m \in DownSteps
    BY <1>4, <1>11 DEF LsEnds, LsLines, DownSteps
  <2>3. Lacks(down', LsLines) /\ Listed(lsCaps \cup m.caps)
    BY <1>2, <2>2 DEF Owed, LsAhead, m
  <2>4. Listed(caps)
    BY <2>3, SelectListed
  <2>5. send = <<Cap("REQ", caps)>> /\ caps \in SUBSET Capabilities
    <3>1. caps # {} /\ caps \subseteq srv.offers
      BY <2>4 DEF Listed
    <3>2. QED
      BY <2>1, <3>1 DEF TypeOK
  <2> HIDE DEF caps
  <2>6. Cap("REQ", caps) \in Commands
        /\ Lacks(send, Mechanism) /\ Lacks(send, Answers) /\ Lacks(send, EndCommands)
        /\ Once(send, UpSteps)
    <3>1. /\ Cap("REQ", caps) \in Commands
          /\ Cap("REQ", caps) \notin Mechanism \cup Answers \cup EndCommands
      BY <2>5, CommandKinds
    <3> DEFINE request == Cap("REQ", caps)
    <3> HIDE DEF request
    <3>2. send = <<request>> /\ request \in Commands
          /\ request \notin Mechanism /\ request \notin Answers
          /\ request \notin EndCommands
      BY <2>5, <3>1 DEF request
    <3>3. Lacks(send, Mechanism) /\ Lacks(send, Answers)
          /\ Lacks(send, EndCommands) /\ Once(send, UpSteps)
      BY <3>2, Short
    <3>4. QED
      BY <3>1, <3>3
  <2>7. /\ ~Lacks(down, DownSteps) /\ Lacks(up, UpSteps) /\ ~(srv.round > 0)
        /\ Lacks(down, Acks)
    BY <1>4, <2>2 DEF Owed, OneStep
  <2>8. Lacks(down', Acks) /\ Lacks(down', DownSteps)
    BY <1>4, <2>3, <2>7, LacksMore DEF DownSteps
  <2>9. OneStep'
    BY <1>2, <1>7, <2>6, <2>7, <2>8 DEF OneStep
  <2>10. \A i \in 1 .. Len(up') : up'[i] \in Requests => Listed(up'[i].caps)
    <3> SUFFICES ASSUME NEW i \in 1 .. Len(up'), up'[i] \in Requests
                 PROVE  Listed(up'[i].caps)
      OBVIOUS
    <3>1. CASE i \in 1 .. Len(up) /\ up'[i] = up[i]
      BY <2>7, <3>1 DEF Lacks, UpSteps
    <3>2. CASE i - Len(up) \in 1 .. Len(send) /\ up'[i] = send[i - Len(up)]
      <4>1. up'[i] = Cap("REQ", caps)
        BY <2>5, <3>2
      <4>2. QED
        BY <2>4, <4>1 DEF Cap
    <3>3. QED
      BY <1>5, <3>1, <3>2
  <2>11. LsAhead'
    BY <2>3 DEF LsAhead
  <2>12. QED
    BY <1>2, <1>3, <1>4, <1>8, <2>4, <2>5, <2>6, <2>7, <2>8, <2>9, <2>10, <2>11, LacksMore
    DEF Owed, Listed, UpSteps
<1>12. CASE m \in SaslAcks
  <2>1. send = <<Auth("mechanism")>> /\ lsCaps' = lsCaps
    BY <1>1, <1>9, <1>12
    DEF Sends, LsLines, LsEnds, SaslAcks, Acks, Challenges
  <2>2. m \in Acks /\ m \in DownSteps
    BY <1>12 DEF SaslAcks, DownSteps
  <2>3. /\ ~Lacks(down, Acks) /\ ~Lacks(down, DownSteps)
    BY <1>4, <2>2
  <2>4. /\ Lacks(up, UpSteps) /\ ~(srv.round > 0) /\ Lacks(down, LsLines)
        /\ Once(down, Acks) /\ "sasl" \in srv.caps
    BY <2>3 DEF Owed, OneStep
  <2>5. Lacks(down', Acks) /\ Lacks(down', LsLines) /\ Lacks(down', DownSteps)
    BY <1>4, <2>2, <2>4, LacksMore DEF DownSteps
  <2>6. /\ Lacks(send, Requests) /\ Lacks(send, Answers)
        /\ Lacks(send, EndCommands) /\ Once(send, UpSteps)
    BY <2>1, CommandKinds, Short
  <2>7. OneStep'
    BY <1>2, <1>7, <2>4, <2>5, <2>6 DEF OneStep
  <2>8. Lacks(up', Requests)
    BY <1>3, <2>4, <2>6, LacksMore DEF UpSteps
  <2>9. LsAhead'
    BY <2>5 DEF LsAhead
  <2>10. QED
    BY <1>2, <1>3, <1>4, <1>8, <2>4, <2>6, <2>7, <2>8, <2>9 DEF Owed, Lacks
<1>13. CASE m \notin LsLines \cup Acks
  <2>1. lsCaps' = lsCaps /\ Lacks(send, UpSteps)
    <3>1. Lacks(send, Idle) => Lacks(send, UpSteps)
      BY LacksMore DEF Idle, UpSteps
    <3>2. QED
      BY <1>1, <1>9, <1>13, <3>1 DEF Sends, LsLines, LsEnds, SaslAcks
  <2>2. /\ m \notin Challenges => Lacks(send, Answers) /\ Lacks(send, EndCommands)
        /\ Lacks(send, EndCommands) \/ auth = "ecdsaWait"
    <3>1. Lacks(send, Idle) => Lacks(send, Answers) /\ Lacks(send, EndCommands)
      BY LacksMore DEF Idle
    <3>2. QED
      BY <1>1, <1>9, <1>13, <3>1 DEF Sends, LsLines, LsEnds, SaslAcks
  <2>3. LsAhead'
    <3>1. Lacks(down, LsLines)
      BY <1>13 DEF Owed, LsAhead, m, LsEnds, LsLines
    <3>2. QED
      BY <1>4, <3>1 DEF LsAhead
  <2>4. Lacks(send, Requests) /\ Lacks(send, Mechanism)
    BY <2>1, LacksMore DEF UpSteps
  <2>5. OneStep'
    BY <1>2, <1>3, <1>4, <1>6, <2>1 DEF Owed, OneStep
  <2>6. \A i \in 1 .. Len(up') : up'[i] \in Requests => Listed(up'[i].caps)
    BY <1>5, <2>4 DEF Owed, Lacks
  <2>7. ~(Lacks(up', Answers) /\ Lacks(down', Challenges)) => srv.round > 0
    BY <1>3, <1>4, <2>2 DEF Owed
  <2>8. ~Lacks(up', EndCommands) => mech = "ecdsa" /\ srv.round > 0
    BY <1>3, <1>4, <2>2 DEF Owed, EcdsaOnly
  <2>9. ~(Lacks(up', Mechanism) /\ Lacks(down', Acks)) => "sasl" \in srv.caps
    BY <1>3, <1>4, <2>4 DEF Owed
  <2>10. QED
    BY <1>2, <1>8, <2>3, <2>5, <2>6, <2>7, <2>8, <2>9 DEF Owed, Listed
<1>14. QED
  BY <1>2, <1>9, <1>10, <1>11, <1>12, <1>13
  DEF LsLines, LsEnds, Acks, SaslAcks, Endings, Messages

LEMMA ReceiveFree ==
  ASSUME TypeOK, Ordinary, mech # "none", Free, Receive
  PROVE  Free'
<1> DEFINE m == Head(down)
           S == SaslRequests \cup Mechanism
<1>1. PICK send \in Seq(Commands) : up' = up \o send /\ Sends(m, send)
  BY ReceiveSends
<1>2. /\ up \in Seq(Commands) /\ down' = Tail(down) /\ m \in Messages
      /\ down \in Seq(Messages) /\ down # << >> /\ mech' = mech /\ srv' = srv
  BY Rest DEF TypeOK
<1>3. Lacks(up', S) <=> Lacks(up, S) /\ Lacks(send, S)
  BY <1>1, <1>2, LacksJoin
<1>4. /\ Lacks(down', SaslAcks \cup Announced) /\ m \notin SaslAcks \cup Announced
      /\ Lacks(down, LsLines) => Lacks(down', LsLines)
  BY Rest DEF Free
<1>5. Lacks(send, UpSteps) => Lacks(send, S)
  BY DEF Lacks, UpSteps, SaslRequests
<1>7. Lacks(send, Idle) => Lacks(send, UpSteps)
  BY LacksMore DEF Idle, UpSteps
<1>8. Lacks(<< >>, S) /\ Lacks(<<End>>, S)
  <2>1. End \in Commands /\ End \notin S /\ << >> \in Seq(Commands)
    BY CommandKinds DEF UpSteps, SaslRequests
  <2> HIDE DEF S
  <2>2. QED
    BY <2>1, Short
<1>9. \A i \in 1 .. Len(down') :
        i + 1 \in 1 .. Len(down) /\ down'[i] = down[i + 1]
  BY <1>2, TailProperties
<1>10. m = down[1] /\ 1 \in 1 .. Len(down)
  BY <1>2, TailProperties
<1> HIDE DEF m
<1>11. ASSUME m \in LsLines
       PROVE  "sasl" \notin lsCaps \cup m.caps
  BY <1>10, <1>11 DEF Free, Lacks
<1>12. \A i \in 1 .. Len(down') :
         ~Lacks(down, LsLines) /\ down'[i] \in LsLines => "sasl" \notin down'[i].caps
  BY <1>9 DEF Free
<1>13. CASE m \in LsLines /\ m.type = "LS*"
  <2>1. send = << >> /\ lsCaps' = lsCaps \cup m.caps
    BY <1>1, <1>4, <1>13
    DEF Sends, LsLines, LsEnds, SaslAcks, Endings, Challenges
  <2>2. QED
    BY <1>2, <1>3, <1>4, <1>8, <1>11, <1>12, <1>13, <2>1 DEF Free, Settled
<1>14. CASE m \in LsEnds
  <2> DEFINE caps == SelectCaps(lsCaps \cup m.caps)
  <2>1. /\ send = IF caps = {} THEN <<End>> ELSE <<Cap("REQ", caps)>>
        /\ lsCaps' = {}
    BY <1>1, <1>4, <1>14
    DEF Sends, LsLines, LsEnds, SaslAcks, Acks, Endings, Challenges
  <2>2. m \in LsLines /\ m.caps \in SUBSET Capabilities
    BY <1>2, <1>14 DEF LsEnds, LsLines, Messages
  <2>3. "sasl" \notin caps
    BY <1>11, <2>2 DEF SelectCaps, Ordinary
  <2>4. caps \in SUBSET Capabilities
    BY <2>2, SelectType DEF TypeOK
  <2> HIDE DEF caps
  <2>5. Lacks(send, S)
    <3> DEFINE request == Cap("REQ", caps)
    <3>1. request \in Commands /\ request \notin S
      BY <2>3, <2>4, CommandKinds DEF SaslRequests, Cap
    <3> HIDE DEF request, S
    <3>2. Lacks(<<request>>, S)
      BY <3>1, Short
    <3>3. QED
      BY <1>8, <2>1, <3>2 DEF request
  <2>6. QED
    BY <1>2, <1>3, <1>4, <1>12, <2>1, <2>5 DEF Free, Settled
<1>15. CASE m \notin LsLines
  <2>1. lsCaps' = lsCaps /\ Lacks(send, S)
    BY <1>1, <1>4, <1>5, <1>7, <1>8, <1>15 DEF Sends, LsLines, LsEnds
  <2>2. QED
    BY <1>2, <1>3, <1>4, <1>12, <2>1 DEF Free, Settled
<1>16. QED
  BY <1>13, <1>14, <1>15 DEF LsLines, LsEnds

LEMMA ReceiveEcdsa ==
  ASSUME TypeOK, mech # "none", EcdsaOnly, Receive
  PROVE  EcdsaOnly'
<1>1. auth' \in {auth, mech, "none", After(auth)} /\ mech' = mech
  BY DEF Receive, DoCap, DoAuthenticate, AbortAuth, ProcessSaslEcdsa, Answer
<1>2. After(auth) = "ecdsaWait" => auth = "ecdsa"
  BY DEF After
<1>3. After(auth) # "ecdsa" /\ mech \in Started
  BY RegistrationAssumption DEF After, TypeOK
<1>4. QED
  BY <1>1, <1>2, <1>3 DEF EcdsaOnly, Started

LEMMA ReceiveLogin ==
  ASSUME TypeOK, Ordinary, mech # "none", LoginInv, Receive
  PROVE  LoginInv'
<1>1. Later /\ EcdsaOnly
  BY DEF LoginInv, Opening, Receive
<1>2. PICK send \in Seq(Commands) :
        up' = up \o send /\ Lacks(send, LsCommands)
  BY ReceiveSends
<1>3. up \in Seq(Commands) /\ mech' = mech /\ srv' = srv
  BY Rest DEF TypeOK
<1>4. Lacks(up', LsCommands)
  BY <1>1, <1>2, <1>3, LacksJoin DEF Later
<1>5. (Owed => Owed') /\ (Free => Free')
  BY <1>1, ReceiveOwed, ReceiveFree
<1>6. QED
  BY <1>1, <1>3, <1>4, <1>5, ReceiveEcdsa DEF LoginInv, Later, Settled

(***************************************************************************)
(* The server's steps.                                                     *)
(***************************************************************************)

\* The sets of messages that the invariant speaks of.
Kinds == {LsLines, Acks, SaslAcks, DownSteps, Challenges, Announced,
          Endings \cup Announced, SaslAcks \cup Announced}

\* What a reply changes: the welcome is in none of the sets.
LEMMA Replied ==
  ASSUME TypeOK, NEW s \in Servers, NEW messages \in Seq(Messages),
         Reply(s, messages)
  PROVE  /\ srv'.offers = s.offers /\ srv'.caps = s.caps
         /\ srv'.capping = s.capping /\ srv'.round = s.round
         /\ srv'.login = s.login
         /\ srv'.welcomed <=> s.welcomed \/ (s.nick /\ ~s.capping)
         /\ \A S \in Kinds :
              Lacks(down', S) <=> Lacks(down, S) /\ Lacks(messages, S)
         /\ \A S \in Kinds :
              \/ Once(down, S) /\ Lacks(messages, S)
              \/ Lacks(down, S) /\ Once(messages, S)
              => Once(down', S)
         /\ \E sent \in Seq(Messages) :
              down' = down \o sent
              /\ \A S \in Kinds : Lacks(sent, S) <=> Lacks(messages, S)
<1> DEFINE welcome == IF s.nick /\ ~s.capping /\ ~s.welcomed
                      THEN <<Code("001")>> ELSE << >>
           sent == messages \o welcome
<1>1. /\ srv'.offers = s.offers /\ srv'.caps = s.caps
      /\ srv'.capping = s.capping /\ srv'.round = s.round
      /\ srv'.login = s.login
      /\ srv'.welcomed <=> s.welcomed \/ (s.nick /\ ~s.capping)
  BY DEF Reply, Servers
<1>2. Code("001") \in Messages
  BY CodeTypes
<1>3. \A S \in Kinds : Code("001") \notin S
  BY DEF Kinds, LsLines, Acks, SaslAcks, DownSteps, Challenges, Announced,
     Endings, SaslOver, Code
<1>4. << >> \in Seq(Messages) /\ <<Code("001")>> \in Seq(Messages)
      /\ \A S \in Kinds : Lacks(<< >>, S) /\ Lacks(<<Code("001")>>, S)
  <2> DEFINE first == Code("001")
  <2> HIDE DEF first
  <2>1. first \in Messages /\ \A S \in Kinds : first \notin S
    BY <1>2, <1>3 DEF first
  <2>2. << >> \in Seq(Messages) /\ <<first>> \in Seq(Messages)
        /\ \A S \in Kinds : Lacks(<< >>, S) /\ Lacks(<<first>>, S)
    BY <2>1, Short
  <2>3. QED
    BY <2>2 DEF first
<1>5. welcome \in Seq(Messages) /\ \A S \in Kinds : Lacks(welcome, S)
  BY <1>4
<1>6. down \in Seq(Messages)
  BY DEF TypeOK
<1>7. down' = (down \o messages) \o welcome
  BY DEF Reply
<1> HIDE DEF welcome
<1>8. sent \in Seq(Messages) /\ down' = down \o sent
  BY <1>5, <1>6, <1>7, JoinProperties, ConcatAssociative
<1>9. \A S \in Kinds : Lacks(sent, S) <=> Lacks(messages, S)
  BY <1>5, LacksJoin
<1>10. \A S \in Kinds : Once(messages, S) => Once(sent, S)
  BY <1>5, OnceJoin
<1> HIDE DEF sent
<1>11. \A S \in Kinds : Lacks(down', S) <=> Lacks(down, S) /\ Lacks(messages, S)
  BY <1>6, <1>8, <1>9, LacksJoin
<1>12. \A S \in Kinds :
         \/ Once(down, S) /\ Lacks(messages, S)
         \/ Lacks(down, S) /\ Once(messages, S)
         => Once(down', S)
  BY <1>6, <1>8, <1>9, <1>10, OnceJoin
<1>13. \E sent2 \in Seq(Messages) :
         down' = down \o sent2
         /\ \A S \in Kinds : Lacks(sent2, S) <=> Lacks(messages, S)
  BY <1>8, <1>9
<1>14. QED
  BY <1>1, <1>11, <1>12, <1>13

LEMMA LsAheadKept ==
  ASSUME TypeOK, LsAhead, NEW sent \in Seq(Messages), Lacks(sent, LsLines),
         down' = down \o sent, lsCaps' = lsCaps, srv'.offers = srv.offers
  PROVE  LsAhead'
<1>1. down \in Seq(Messages)
  BY DEF TypeOK
<1>2. CASE Lacks(down, LsLines)
  BY <1>1, <1>2, LacksJoin DEF LsAhead
<1> DEFINE t == Tail(down)
<1>3. ASSUME down # << >>
      PROVE  /\ down' # << >> /\ Head(down') = Head(down) /\ t \in Seq(Messages)
             /\ Tail(down') = t \o sent
  BY <1>1, <1>3, JoinTail, TailProperties
<1>4. CASE /\ down # << >> /\ Head(down) \in LsEnds
           /\ Lacks(Tail(down), LsLines)
           /\ Listed(lsCaps \cup Head(down).caps)
  <2>1. t \in Seq(Messages) /\ Lacks(t, LsLines)
    BY <1>3, <1>4
  <2> HIDE DEF t
  <2>2. Lacks(t \o sent, LsLines)
    BY <2>1, LacksJoin
  <2>3. QED
    BY <1>3, <1>4, <2>2 DEF LsAhead, Listed
<1>5. CASE /\ down # << >> /\ Head(down) \in LsLines /\ Head(down).type = "LS*"
           /\ Tail(down) # << >> /\ Head(Tail(down)) \in LsEnds
           /\ Lacks(Tail(Tail(down)), LsLines)
           /\ Listed(lsCaps \cup Head(down).caps \cup Head(Tail(down)).caps)
  <2>1. t \in Seq(Messages) /\ t # << >> /\ Lacks(Tail(t), LsLines)
    BY <1>3, <1>5
  <2> HIDE DEF t
  <2>2. /\ t \o sent # << >> /\ Head(t \o sent) = Head(t)
        /\ Tail(t \o sent) = Tail(t) \o sent /\ Tail(t) \in Seq(Messages)
    BY <2>1, JoinTail, TailProperties
  <2>3. Lacks(Tail(t) \o sent, LsLines)
    BY <2>1, <2>2, LacksJoin
  <2>4. /\ Tail(down') # << >> /\ Head(Tail(down')) = Head(t)
        /\ Lacks(Tail(Tail(down')), LsLines)
    BY <1>3, <1>5, <2>2, <2>3
  <2>5. QED
    BY <1>3, <1>5, <2>4 DEF LsAhead, Listed, t
<1>6. QED
  BY <1>2, <1>4, <1>5 DEF LsAhead

\* The rest of the commands keeps from all of them.
LEMMA RestOfCommands ==
  ASSUME TypeOK, Serve, NEW S
  PROVE  /\ up' = Tail(up) /\ Head(up) \in Commands
         /\ Lacks(up, S) => Lacks(up', S) /\ Head(up) \notin S
         /\ Once(up, S) => Once(up', S)
         /\ Once(up, S) /\ Head(up) \in S => Lacks(up', S)
         /\ UNCHANGED <<mech, auth, lsCaps, connecting>>
<1>1. up \in Seq(Commands) /\ up # << >> /\ up' = Tail(up)
      /\ UNCHANGED <<mech, auth, lsCaps, connecting>>
  BY DEF TypeOK, Serve
<1>2. QED
  BY <1>1, LacksTail, OnceTail, TailProperties

\* Codes are in none of the sets but Endings.
CodeKinds == {LsLines, Acks, SaslAcks, DownSteps, Challenges, Announced,
              SaslAcks \cup Announced}

LEMMA CodesLack ==
  \A f \in Failures \cup {<<Code("903")>>, <<Code("904")>>, <<Code("906")>>} :
    f \in Seq(Messages) /\ \A S \in CodeKinds : Lacks(f, S)
<1>1. ASSUME NEW c \in {"903", "904", "905", "906", "908"},
             NEW d \in {"903", "904", "905", "906", "908"},
             NEW S \in CodeKinds
      PROVE  /\ <<Code(c)>> \in Seq(Messages) /\ Lacks(<<Code(c)>>, S)
             /\ <<Code(c), Code(d)>> \in Seq(Messages)
             /\ Lacks(<<Code(c), Code(d)>>, S)
  <2> DEFINE a == Code(c)
             b == Code(d)
  <2>1. a \in Messages /\ b \in Messages
    BY DEF Messages, Code, SaslOver
  <2>2. a \notin S /\ b \notin S
    BY DEF CodeKinds, LsLines, Acks, SaslAcks, DownSteps, Challenges,
       Announced, Code
  <2> HIDE DEF a, b
  <2>3. /\ <<a>> \in Seq(Messages) /\ Lacks(<<a>>, S)
        /\ <<a, b>> \in Seq(Messages) /\ Lacks(<<a, b>>, S)
    BY <2>1, <2>2, Short
  <2>4. QED
    BY <2>3 DEF a, b
<1>2. \A S \in CodeKinds :
        /\ Lacks(<<Code("903")>>, S) /\ Lacks(<<Code("904")>>, S)
        /\ Lacks(<<Code("905")>>, S) /\ Lacks(<<Code("906")>>, S)
        /\ Lacks(<<Code("908"), Code("904")>>, S)
  BY <1>1
<1>3. QED
  BY <1>2, CodeTypes DEF Failures

\* A login that ends before the welcome leaves none to come.
LEMMA OwedConcludes ==
  ASSUME TypeOK, mech # "none", Owed, ~srv.welcomed,
         NEW s \in Servers, NEW messages \in Seq(Messages),
         Reply(s, messages), \A S \in CodeKinds : Lacks(messages, S),
         s.round = 0, mech' = mech, lsCaps' = lsCaps,
         s.login \in {"success", "failed", "aborted"}
         \/ (s.login = "cut" /\ mech = "ecdsa"),
         Lacks(up', UpSteps), Lacks(down, DownSteps)
  PROVE  Free'
<1>1. Lacks(down, SaslAcks \cup Announced) /\ Lacks(down, LsLines)
  BY LacksMore DEF Owed, DownSteps, Lacks, SaslAcks
<1>2. Lacks(down', SaslAcks \cup Announced) /\ Lacks(down', LsLines)
  BY <1>1, Replied DEF CodeKinds, Kinds
<1>3. Lacks(up', SaslRequests \cup Mechanism)
  BY DEF Lacks, UpSteps, SaslRequests
<1>4. srv'.round = 0 /\ srv'.login = s.login
  BY Replied
<1>5. QED
  BY <1>2, <1>3, <1>4 DEF Free, Settled

\* The login stays owed over a reply that neither ends it nor the negotiation.
LEMMA OwedStays ==
  ASSUME TypeOK, mech # "none", Owed, ~srv.welcomed, Serve,
         NEW s \in Servers, NEW messages \in Seq(Messages),
         Reply(s, messages), s.offers = srv.offers, s.capping = srv.capping,
         s.login = srv.login, s.welcomed = srv.welcomed,
         srv.caps \subseteq s.caps, s.round >= srv.round,
         Lacks(messages, LsLines), Lacks(messages, Endings \cup Announced),
         Lacks(messages, Acks) \/ "sasl" \in s.caps,
         Lacks(messages, Challenges) \/ s.round > 0,
         OneStep'
  PROVE  Owed' /\ ~srv'.welcomed
<1>1. /\ srv'.login = "owed" /\ srv'.capping /\ srv'.offers = srv.offers
      /\ srv'.caps = s.caps /\ srv'.round = s.round /\ ~srv'.welcomed
      /\ mech' = mech /\ lsCaps' = lsCaps
  BY Replied, RestOfCommands DEF Owed
<1>2. PICK sent \in Seq(Messages) :
        down' = down \o sent
        /\ \A S \in Kinds : Lacks(sent, S) <=> Lacks(messages, S)
  BY Replied
<1>3. LsAhead'
  <2>1. Lacks(sent, LsLines)
    BY <1>2 DEF Kinds
  <2>2. QED
    BY <1>1, <1>2, <2>1, LsAheadKept DEF Owed
<1>4. /\ Lacks(down', Endings \cup Announced)
      /\ Lacks(down', Acks) <=> Lacks(down, Acks) /\ Lacks(messages, Acks)
      /\ Lacks(down', Challenges) <=>
           Lacks(down, Challenges) /\ Lacks(messages, Challenges)
  BY Replied DEF Kinds, Owed
<1>5. /\ Lacks(up, Mechanism) => Lacks(up', Mechanism)
      /\ Lacks(up, EndCommands) => Lacks(up', EndCommands)
      /\ Lacks(up, Answers) => Lacks(up', Answers)
  BY RestOfCommands
<1>6. \A i \in 1 .. Len(up') : up'[i] \in Requests => Listed(up'[i].caps)
  <2>1. up \in Seq(Commands) /\ up # << >> /\ up' = Tail(up)
    BY DEF TypeOK, Serve
  <2>2. \A i \in 1 .. Len(up') : i + 1 \in 1 .. Len(up) /\ up'[i] = up[i + 1]
    BY <2>1, TailProperties
  <2>3. QED
    BY <2>2 DEF Owed
<1>7. srv.round > 0 => srv'.round > 0
  BY <1>1 DEF TypeOK, Servers
<1>8. QED
  BY <1>1, <1>3, <1>4, <1>5, <1>6, <1>7 DEF Owed, Listed

LEMMA ServeOwed ==
  ASSUME TypeOK, Ordinary, mech # "none", Owed, ~srv.welcomed,
         Lacks(up, LsCommands), Serve
  PROVE  Free' \/ (Owed' /\ ~srv'.welcomed)
<1> DEFINE c == Head(up)
<1>1. /\ c \in Commands /\ c \notin LsCommands /\ UNCHANGED <<mech, lsCaps>>
      /\ \A S : /\ Lacks(up, S) => Lacks(up', S) /\ c \notin S
                /\ Once(up, S) => Once(up', S)
                /\ Once(up, S) /\ c \in S => Lacks(up', S)
  BY RestOfCommands
<1>2. srv \in Servers /\ srv.round \in 0 .. 3
  BY ServerType DEF Servers
<1>3. << >> \in Seq(Messages) /\ \A S : Lacks(<< >>, S)
  BY DEF Lacks
<1>4. \/ SrvCap(c)
      \/ c.type = "AUTHENTICATE" /\ SrvAuthenticate(c.arg)
      \/ c.type = "NICK" /\ SrvNick(c.arg)
  BY DEF Serve
<1>5. srv.round > 0 => Lacks(up', UpSteps) /\ Lacks(down, DownSteps)
  BY <1>1 DEF Owed, OneStep
<1> HIDE DEF c
<1>6. ASSUME NEW verdict \in {"success", "failed", "aborted"},
             NEW messages \in Seq(Messages),
             \A S \in CodeKinds : Lacks(messages, S),
             Reply(Concluded(verdict), messages),
             Lacks(up', UpSteps), Lacks(down, DownSteps)
      PROVE  Free'
  <2>1. Concluded(verdict) \in Servers
    BY ConcludedType
  <2>2. Concluded(verdict).round = 0 /\ Concluded(verdict).login = verdict
    BY <1>2 DEF Concluded, Servers
  <2>3. QED
    BY <1>1, <1>6, <2>1, <2>2, OwedConcludes
<1>7. CASE c.type = "REQ"
  <2>1. c \in Requests /\ c \in UpSteps
    BY <1>1, <1>7 DEF Requests, UpSteps
  <2>2. ~Lacks(up, UpSteps) /\ Once(up, UpSteps) /\ Listed(c.caps)
    <3>1. up \in Seq(Commands) /\ up # << >>
      BY DEF TypeOK, Serve
    <3>2. c = up[1] /\ 1 \in 1 .. Len(up)
      BY <3>1, TailProperties DEF c
    <3>3. QED
      BY <1>1, <2>1, <3>2 DEF Owed, OneStep
  <2>3. Lacks(up', UpSteps) /\ Lacks(down, DownSteps) /\ ~(srv.round > 0)
    BY <1>1, <2>1, <2>2 DEF Owed, OneStep
  <2> DEFINE s == [srv EXCEPT !.caps = @ \cup c.caps]
             ack == Cap("ACK", c.caps)
  <2>4. /\ c.caps \in SUBSET Capabilities /\ "sasl" \in c.caps
        /\ ack \in Messages
        /\ ack \notin LsLines /\ ack \notin Challenges
        /\ ack \notin Endings \cup Announced
    <3>1. c.caps \in SUBSET Capabilities /\ "sasl" \in c.caps
      BY <1>1, <1>7, <2>2 DEF Commands, Listed
    <3>2. QED
      BY <3>1, MessageTypes
      DEF Cap, LsLines, Challenges, Endings, Announced
  <2>5. Reply(s, << >> \o <<ack>>)
    <3>1. PICK first \in {{}} :
            Reply(s, (IF first = {} THEN << >> ELSE <<Cap("ACK", first)>>)
                       \o <<Cap("ACK", c.caps \ first)>>)
      BY <1>4, <1>7, <2>2 DEF SrvCap, Ordinary, Listed
    <3>2. first = {} /\ c.caps \ first = c.caps
      BY <3>1
    <3>3. QED
      BY <3>1, <3>2
  <2>6. s \in Servers /\ "sasl" \in s.caps /\ s.round = srv.round
        /\ s.offers = srv.offers /\ s.capping = srv.capping
        /\ s.login = srv.login /\ s.welcomed = srv.welcomed
        /\ srv.caps \subseteq s.caps
    BY <1>2, <2>4 DEF Servers
  <2> HIDE DEF ack, s
  <2>7. /\ << >> \o <<ack>> = <<ack>> /\ <<ack>> \in Seq(Messages)
        /\ Lacks(<<ack>>, LsLines) /\ Lacks(<<ack>>, Challenges)
        /\ Lacks(<<ack>>, Endings \cup Announced) /\ Once(<<ack>>, Acks)
    <3>1. /\ <<ack>> \in Seq(Messages)
          /\ Lacks(<<ack>>, LsLines) /\ Lacks(<<ack>>, Challenges)
          /\ Lacks(<<ack>>, Endings \cup Announced) /\ Once(<<ack>>, Acks)
      BY <2>4, One
    <3>2. << >> \o <<ack>> = <<ack>>
      BY <3>1, ConcatEmptySeq
    <3>3. QED
      BY <3>1, <3>2
  <2>8. Reply(s, <<ack>>)
    BY <2>5, <2>7
  <2>9. OneStep'
    <3>1. Lacks(down, Acks) /\ Lacks(down, LsLines)
      BY <2>3, LacksMore DEF DownSteps
    <3>2. Lacks(down', LsLines) /\ Once(down', Acks) /\ srv'.round = srv.round
      BY <2>6, <2>7, <2>8, <3>1, Replied DEF Kinds
    <3>3. QED
      BY <2>3, <3>2, LacksMore DEF OneStep
  <2>10. Owed' /\ ~srv'.welcomed
    <3>1. s.round >= srv.round
      BY <1>2, <2>6
    <3>2. QED
      BY <2>6, <2>7, <2>8, <2>9, <3>1, OwedStays
  <2>11. QED
    BY <2>10
<1>8. CASE c.type = "END"
  <2>1. mech = "ecdsa" /\ srv.round > 0
    <3>1. c \in EndCommands
      BY <1>1, <1>8 DEF EndCommands
    <3>2. QED
      BY <1>1, <3>1 DEF Owed
  <2> DEFINE s == [Concluded("cut") EXCEPT !.capping = FALSE]
  <2>2. Reply(s, <<Code("906")>>)
    BY <1>4, <1>8, <2>1 DEF SrvCap
  <2>3. s \in Servers /\ s.round = 0 /\ s.login = "cut"
    BY <1>2, ConcludedType DEF Concluded, Servers
  <2> HIDE DEF s
  <2>4. <<Code("906")>> \in Seq(Messages)
        /\ \A S \in CodeKinds : Lacks(<<Code("906")>>, S)
    BY CodesLack
  <2>5. QED
    BY <1>1, <1>5, <2>1, <2>2, <2>3, <2>4, OwedConcludes
<1>9. CASE c.type = "AUTHENTICATE" /\ c.arg = "mechanism"
  <2>1. c \in Mechanism /\ c \in UpSteps
    BY <1>1, <1>9 DEF Mechanism, UpSteps
  <2>2. ~Lacks(up, UpSteps) /\ ~Lacks(up, Mechanism) /\ Once(up, UpSteps)
    BY <1>1, <2>1 DEF Owed, OneStep
  <2>3. /\ Lacks(up', UpSteps) /\ Lacks(down, DownSteps) /\ srv.round = 0
        /\ "sasl" \in srv.caps
    BY <1>1, <1>2, <2>1, <2>2 DEF Owed, OneStep
  <2>4. \/ Reply([srv EXCEPT !.round = 1], <<Auth("empty")>>)
        \/ \E failure \in Failures : Reply(Concluded("failed"), failure)
    BY <1>4, <1>9, <2>3 DEF SrvAuthenticate, SrvCap
  <2>5. CASE Reply([srv EXCEPT !.round = 1], <<Auth("empty")>>)
    <3> DEFINE s == [srv EXCEPT !.round = 1]
               message == Auth("empty")
    <3>1. /\ message \in Messages /\ message \notin LsLines /\ message \notin Acks
          /\ message \notin Endings \cup Announced /\ message \notin DownSteps
      BY MessageTypes
      DEF Auth, LsLines, Acks, Endings, Announced, DownSteps
    <3>2. s \in Servers /\ s.caps = srv.caps /\ s.round = 1
          /\ s.offers = srv.offers /\ s.capping = srv.capping
          /\ s.login = srv.login /\ s.welcomed = srv.welcomed
      BY <1>2 DEF Servers
    <3>3. Reply(s, <<message>>)
      BY <2>5
    <3> HIDE DEF s, message
    <3>4. /\ <<message>> \in Seq(Messages) /\ Lacks(<<message>>, LsLines)
          /\ Lacks(<<message>>, Acks) /\ Lacks(<<message>>, DownSteps)
          /\ Lacks(<<message>>, Endings \cup Announced)
      BY <3>1, One
    <3>5. Lacks(down', DownSteps)
      BY <2>3, <3>2, <3>3, <3>4, Replied DEF Kinds
    <3>6. OneStep'
      BY <2>3, <3>5, LacksMore DEF OneStep, DownSteps
    <3>7. s.round >= srv.round /\ s.round > 0
      BY <2>3, <3>2
    <3>8. QED
      BY <3>2, <3>3, <3>4, <3>6, <3>7, OwedStays
  <2>6. ASSUME NEW failure \in Failures, Reply(Concluded("failed"), failure)
        PROVE  Free'
    BY <1>6, <2>3, <2>6, CodesLack
  <2>7. QED
    BY <2>4, <2>5, <2>6
<1>10. CASE c.type = "AUTHENTICATE" /\ c.arg # "mechanism"
  <2>1. c \in Answers
    BY <1>1, <1>10 DEF Answers
  <2>2. srv.round > 0
    BY <1>1, <2>1 DEF Owed
  <2>3. Lacks(up', UpSteps) /\ Lacks(down, DownSteps)
    BY <1>5, <2>2
  <2>4. SrvAuthenticate(c.arg)
    BY <1>4, <1>10 DEF SrvCap
  <2>5. \/ Reply(Concluded("aborted"), <<Code("906")>>)
        \/ Reply(Concluded("success"), <<Code("903")>>)
        \/ \E failure \in Failures : Reply(Concluded("failed"), failure)
        \/ /\ srv.round < Rounds
           /\ \E param \in {"good", "bad", "garbled", "empty"} :
                Reply([srv EXCEPT !.round = @ + 1], <<Auth(param)>>)
    BY <1>2, <2>2, <2>4 DEF SrvAuthenticate
  <2>6. ASSUME srv.round < Rounds,
               NEW param \in {"good", "bad", "garbled", "empty"},
               Reply([srv EXCEPT !.round = @ + 1], <<Auth(param)>>)
        PROVE  Owed' /\ ~srv'.welcomed
    <3> DEFINE s == [srv EXCEPT !.round = @ + 1]
               message == Auth(param)
    <3>1. /\ message \in Messages /\ message \notin LsLines /\ message \notin Acks
          /\ message \notin Endings \cup Announced /\ message \notin DownSteps
      BY MessageTypes
      DEF Auth, LsLines, Acks, Endings, Announced, DownSteps
    <3>2. s \in Servers /\ s.caps = srv.caps /\ s.round = srv.round + 1
          /\ s.offers = srv.offers /\ s.capping = srv.capping
          /\ s.login = srv.login /\ s.welcomed = srv.welcomed
      BY <1>2, <2>6 DEF Servers, Rounds
    <3>3. Reply(s, <<message>>)
      BY <2>6
    <3> HIDE DEF s, message
    <3>4. /\ <<message>> \in Seq(Messages) /\ Lacks(<<message>>, LsLines)
          /\ Lacks(<<message>>, Acks) /\ Lacks(<<message>>, DownSteps)
          /\ Lacks(<<message>>, Endings \cup Announced)
      BY <3>1, One
    <3>5. Lacks(down', DownSteps)
      BY <2>3, <3>2, <3>3, <3>4, Replied DEF Kinds
    <3>6. OneStep'
      BY <2>3, <3>5, LacksMore DEF OneStep, DownSteps
    <3>7. s.round >= srv.round /\ s.round > 0
      BY <1>2, <3>2
    <3>8. QED
      BY <3>2, <3>3, <3>4, <3>6, <3>7, OwedStays
  <2>7. QED
    BY <1>6, <2>3, <2>5, <2>6, CodesLack
<1>11. CASE c.type = "NICK"
  <2>1. PICK s \in {[srv EXCEPT !.nick = TRUE],
                    [srv EXCEPT !.refused = IF c.arg = 0 THEN @ + 1 ELSE @]},
             messages \in {<< >>, <<Nick(c.arg)>>} :
          s \in Servers /\ Reply(s, messages)
    <3>1. [srv EXCEPT !.nick = TRUE] \in Servers
      BY <1>2 DEF Servers
    <3>2. (c.arg = 0 => srv.refused < MaxRefused) =>
            [srv EXCEPT !.refused = IF c.arg = 0 THEN @ + 1 ELSE @] \in Servers
      BY <1>2, RegistrationAssumption DEF Servers
    <3>3. QED
      BY <1>4, <1>11, <3>1, <3>2 DEF SrvNick, SrvCap
  <2>2. /\ s.caps = srv.caps /\ s.round = srv.round
        /\ s.offers = srv.offers /\ s.capping = srv.capping
        /\ s.login = srv.login /\ s.welcomed = srv.welcomed
    BY <1>2, <2>1 DEF Servers
  <2> DEFINE message == Nick(c.arg)
  <2>3. /\ message \in Messages /\ message \notin LsLines /\ message \notin Acks
        /\ message \notin Challenges
        /\ message \notin Endings \cup Announced /\ message \notin DownSteps
    <3>1. c.arg \in 0 .. Nicks
      BY <1>1, <1>11 DEF Commands
    <3>2. QED
      BY <3>1, MessageTypes
      DEF Nick, LsLines, Acks, Challenges, Endings, Announced, DownSteps
  <2>4. messages = << >> \/ messages = <<message>>
    BY <2>1
  <2> HIDE DEF message
  <2>5. /\ messages \in Seq(Messages) /\ Lacks(messages, LsLines)
        /\ Lacks(messages, Acks) /\ Lacks(messages, DownSteps)
        /\ Lacks(messages, Challenges)
        /\ Lacks(messages, Endings \cup Announced)
    <3>1. /\ <<message>> \in Seq(Messages) /\ Lacks(<<message>>, LsLines)
          /\ Lacks(<<message>>, Acks) /\ Lacks(<<message>>, DownSteps)
          /\ Lacks(<<message>>, Challenges)
          /\ Lacks(<<message>>, Endings \cup Announced)
      BY <2>3, One
    <3>2. QED
      BY <1>3, <2>4, <3>1
  <2>6. OneStep'
    <3>1. /\ Lacks(down, Acks) => Lacks(down', Acks)
          /\ Lacks(down, LsLines) => Lacks(down', LsLines)
          /\ Lacks(down, DownSteps) => Lacks(down', DownSteps)
          /\ Once(down, Acks) => Once(down', Acks)
          /\ srv'.round = srv.round
      BY <2>1, <2>2, <2>5, Replied DEF Kinds
    <3>2. QED
      BY <1>1, <3>1 DEF Owed, OneStep
  <2>7. s.round >= srv.round
    BY <1>2, <2>2
  <2>8. QED
    BY <2>1, <2>2, <2>5, <2>6, <2>7, OwedStays
<1>12. QED
  BY <1>1, <1>7, <1>8, <1>9, <1>10, <1>11 DEF Commands, LsCommands

\* Without a login to come no reply brings one.
LEMMA FreeStays ==
  ASSUME TypeOK, Free, Serve,
         NEW s \in Servers, NEW messages \in Seq(Messages),
         Reply(s, messages), s.login = srv.login, s.round = 0,
         Lacks(messages, LsLines), Lacks(messages, SaslAcks \cup Announced)
  PROVE  Free'
<1>1. mech' = mech /\ lsCaps' = lsCaps /\ srv'.login = srv.login
      /\ srv'.round = 0
  BY Replied, RestOfCommands
<1>2. Lacks(up', SaslRequests \cup Mechanism)
  BY RestOfCommands DEF Free
<1>3. PICK sent \in Seq(Messages) :
        down' = down \o sent
        /\ \A S \in Kinds : Lacks(sent, S) <=> Lacks(messages, S)
  BY Replied
<1>4. /\ Lacks(down', SaslAcks \cup Announced) /\ Lacks(sent, LsLines)
      /\ Lacks(down, LsLines) => Lacks(down', LsLines)
  BY <1>3, Replied DEF Kinds, Free
<1>5. \A i \in 1 .. Len(down') :
        down'[i] \in LsLines => i \in 1 .. Len(down) /\ down'[i] = down[i]
  <2>1. down \in Seq(Messages)
    BY DEF TypeOK
  <2>2. \A i \in 1 .. Len(down') :
          \/ i \in 1 .. Len(down) /\ down'[i] = down[i]
          \/ i - Len(down) \in 1 .. Len(sent) /\ down'[i] = sent[i - Len(down)]
    BY <1>3, <2>1, JoinProperties
  <2>3. QED
    BY <1>4, <2>2 DEF Lacks
<1>6. QED
  BY <1>1, <1>2, <1>4, <1>5 DEF Free, Settled

LEMMA ServeFree ==
  ASSUME TypeOK, Ordinary, Free, ~srv.welcomed, Lacks(up, LsCommands), Serve
  PROVE  Free'
<1> DEFINE c == Head(up)
           Harmless(messages) ==
             /\ messages \in Seq(Messages) /\ Lacks(messages, LsLines)
             /\ Lacks(messages, SaslAcks \cup Announced)
<1>1. /\ c \in Commands /\ c \notin LsCommands
      /\ c \notin SaslRequests \cup Mechanism
  BY RestOfCommands DEF Free
<1>2. srv \in Servers /\ srv.round = 0
  BY ServerType DEF Free
<1>3. \/ SrvCap(c)
      \/ c.type = "AUTHENTICATE" /\ SrvAuthenticate(c.arg)
      \/ c.type = "NICK" /\ SrvNick(c.arg)
  BY DEF Serve
<1>4. Harmless(<< >>) /\ Harmless(<<Code("904")>>) /\ Harmless(<<Code("906")>>)
  BY CodesLack, Short DEF CodeKinds, Lacks
<1>5. ASSUME NEW s \in Servers, NEW messages, Harmless(messages),
             Reply(s, messages), s.login = srv.login, s.round = 0
      PROVE  Free'
  BY <1>5, FreeStays
<1> HIDE DEF c
<1>6. CASE c.type = "REQ"
  <2>1. c.caps \in SUBSET Capabilities /\ "sasl" \notin c.caps
    BY <1>1, <1>6 DEF Commands, SaslRequests, Requests
  <2> DEFINE ack == Cap("ACK", c.caps)
             nak == Cap("NAK", c.caps)
             s == [srv EXCEPT !.caps = @ \cup c.caps]
  <2>2. /\ ack \in Messages /\ ack \notin LsLines
        /\ ack \notin SaslAcks \cup Announced
        /\ nak \in Messages /\ nak \notin LsLines
        /\ nak \notin SaslAcks \cup Announced
    BY <2>1, MessageTypes DEF Cap, LsLines, SaslAcks, Acks, Announced
  <2>3. Reply(s, << >> \o <<ack>>) \/ Reply(srv, <<nak>>)
    <3>1. CASE c.caps \subseteq srv.offers
      <4>1. PICK first \in {{}} :
              Reply(s, (IF first = {} THEN << >> ELSE <<Cap("ACK", first)>>)
                         \o <<Cap("ACK", c.caps \ first)>>)
        BY <1>3, <1>6, <3>1 DEF SrvCap, Ordinary
      <4>2. first = {} /\ c.caps \ first = c.caps
        BY <4>1
      <4>3. QED
        BY <4>1, <4>2
    <3>2. CASE ~(c.caps \subseteq srv.offers)
      BY <1>3, <1>6, <3>2 DEF SrvCap
    <3>3. QED
      BY <3>1, <3>2
  <2>4. s \in Servers /\ s.login = srv.login /\ s.round = 0
    BY <1>2, <2>1 DEF Servers
  <2> HIDE DEF ack, nak, s
  <2>5. Harmless(<<ack>>) /\ Harmless(<<nak>>) /\ << >> \o <<ack>> = <<ack>>
    <3>1. Harmless(<<ack>>) /\ Harmless(<<nak>>)
      BY <2>2, One
    <3>2. QED
      BY <3>1, ConcatEmptySeq
  <2> HIDE DEF Harmless
  <2>6. QED
    BY <1>2, <1>5, <2>3, <2>4, <2>5
<1>7. CASE c.type = "END"
  <2> DEFINE s == [srv EXCEPT !.capping = FALSE]
  <2>1. Reply(s, << >>)
    BY <1>2, <1>3, <1>7 DEF SrvCap
  <2>2. s \in Servers /\ s.login = srv.login /\ s.round = 0
    BY <1>2 DEF Servers
  <2> HIDE DEF s, Harmless
  <2>3. QED
    BY <1>4, <1>5, <2>1, <2>2
<1>8. CASE c.type = "AUTHENTICATE"
  <2>1. c.arg # "mechanism"
    BY <1>1, <1>8 DEF Mechanism
  <2>2. \E messages \in {<<Code("904")>>, <<Code("906")>>} : Reply(srv, messages)
    BY <1>2, <1>3, <1>8, <2>1 DEF SrvAuthenticate, SrvCap
  <2> HIDE DEF Harmless
  <2>3. QED
    BY <1>2, <1>4, <1>5, <2>2
<1>9. CASE c.type = "NICK"
  <2>1. PICK s \in {[srv EXCEPT !.nick = TRUE],
                    [srv EXCEPT !.refused = IF c.arg = 0 THEN @ + 1 ELSE @]},
             messages \in {<< >>, <<Nick(c.arg)>>} :
          s \in Servers /\ Reply(s, messages)
    <3>1. [srv EXCEPT !.nick = TRUE] \in Servers
      BY <1>2 DEF Servers
    <3>2. (c.arg = 0 => srv.refused < MaxRefused) =>
            [srv EXCEPT !.refused = IF c.arg = 0 THEN @ + 1 ELSE @] \in Servers
      BY <1>2, RegistrationAssumption DEF Servers
    <3>3. QED
      BY <1>3, <1>9, <3>1, <3>2 DEF SrvNick, SrvCap
  <2>2. s.login = srv.login /\ s.round = 0
    BY <1>2, <2>1 DEF Servers
  <2> DEFINE message == Nick(c.arg)
  <2>3. /\ message \in Messages /\ message \notin LsLines
        /\ message \notin SaslAcks \cup Announced
    <3>1. c.arg \in 0 .. Nicks
      BY <1>1, <1>9 DEF Commands
    <3>2. QED
      BY <3>1, MessageTypes DEF Nick, LsLines, SaslAcks, Acks, Announced
  <2>4. messages = << >> \/ messages = <<message>>
    BY <2>1
  <2> HIDE DEF message
  <2>5. Harmless(<<message>>)
    BY <2>3, One
  <2> HIDE DEF Harmless
  <2>6. QED
    BY <1>4, <1>5, <2>1, <2>2, <2>4, <2>5
<1>10. QED
  BY <1>1, <1>6, <1>7, <1>8, <1>9 DEF Commands, LsCommands

\* The answer to CAP LS leaves the login owed, or none to come.
LEMMA ServeOpening ==
  ASSUME TypeOK, Ordinary, mech # "none", Opening, Serve
  PROVE  Later'
<1>1. /\ Head(up) = Cap("LS", {}) /\ up' = <<Nick(1)>> /\ down = << >>
      /\ UNCHANGED <<mech, auth, lsCaps, connecting>>
  BY DEF Opening, Serve
<1>2. srv \in Servers /\ srv.offers \in SUBSET Capabilities
  BY ServerType DEF Servers
<1> DEFINE s == [srv EXCEPT !.capping = TRUE,
                            !.login = IF "sasl" \in srv.offers THEN "owed"
                                      ELSE @]
<1>3. PICK first \in SUBSET srv.offers :
        Reply(s, (IF first = {} THEN << >> ELSE <<Cap("LS*", first)>>)
                   \o <<Cap("LS", srv.offers \ first)>>)
  <2> DEFINE c == Head(up)
  <2>1. c.type = "LS"
    BY <1>1 DEF Cap
  <2>2. SrvCap(c)
    BY <2>1 DEF Serve
  <2> HIDE DEF c
  <2>3. QED
    BY <2>1, <2>2 DEF SrvCap
<1>4. s \in Servers /\ s.capping /\ s.offers = srv.offers /\ s.round = 0
      /\ ~s.welcomed /\ s.login = IF "sasl" \in srv.offers THEN "owed" ELSE "none"
  BY <1>2 DEF Servers, Opening
<1> HIDE DEF s
<1> DEFINE last == Cap("LS", srv.offers \ first)
           more == Cap("LS*", first)
<1>5. /\ last \in Messages /\ last \in LsEnds /\ last \in LsLines
      /\ last.caps = srv.offers \ first
      /\ more \in Messages /\ more \in LsLines /\ more.type = "LS*"
      /\ more.caps = first /\ more \notin LsEnds
      /\ \A S \in {Acks, SaslAcks, Challenges, Announced, Endings \cup Announced,
                   SaslAcks \cup Announced} : last \notin S /\ more \notin S
  BY <1>2, MessageTypes
  DEF Cap, LsLines, LsEnds, Acks, SaslAcks, Challenges, Announced, Endings
<1>6. \/ Reply(s, << >> \o <<last>>) /\ first = {}
      \/ Reply(s, <<more>> \o <<last>>)
  BY <1>3
<1> HIDE DEF last, more
<1>7. /\ << >> \o <<last>> = <<last>> /\ <<more>> \o <<last>> = <<more, last>>
      /\ <<last>> \in Seq(Messages) /\ <<more, last>> \in Seq(Messages)
      /\ \A S \in {Acks, SaslAcks, Challenges, Announced, Endings \cup Announced,
                   SaslAcks \cup Announced} :
           Lacks(<<last>>, S) /\ Lacks(<<more, last>>, S)
  <2>1. <<last>> \in Seq(Messages) /\ <<more>> \in Seq(Messages)
    BY <1>5, One
  <2>2. << >> \o <<last>> = <<last>>
    BY <2>1, ConcatEmptySeq
  <2>3. <<more>> \o <<last>> = <<more, last>> /\ <<more, last>> \in Seq(Messages)
    BY <1>5, Pair
  <2>4. ASSUME NEW S \in {Acks, SaslAcks, Challenges, Announced,
                          Endings \cup Announced, SaslAcks \cup Announced}
        PROVE  Lacks(<<last>>, S) /\ Lacks(<<more, last>>, S)
    BY <1>5, Short
  <2>5. QED
    BY <2>1, <2>2, <2>3, <2>4
<1>8. PICK messages \in Seq(Messages) :
        /\ Reply(s, messages)
        /\ (messages = <<last>> /\ first = {}) \/ messages = <<more, last>>
  BY <1>6, <1>7
<1>9. /\ srv'.login = s.login /\ srv'.capping /\ srv'.offers = srv.offers
      /\ srv'.round = 0 /\ ~srv'.welcomed
  BY <1>4, <1>8, Replied
<1>10. down' = messages
  <2>1. down' = (<< >> \o messages) \o << >>
    BY <1>1, <1>4, <1>8 DEF Reply
  <2>2. QED
    BY <2>1, ConcatEmptySeq
<1>11. /\ Lacks(down', Acks) /\ Lacks(down', SaslAcks \cup Announced)
       /\ Lacks(down', Challenges) /\ Lacks(down', Endings \cup Announced)
  BY <1>7, <1>8, <1>10
<1>12. /\ Nick(1) \in Commands /\ Nick(1) \notin LsCommands \cup Idle
  BY CommandKinds, RegistrationAssumption
<1>13. /\ Lacks(up', LsCommands) /\ Lacks(up', UpSteps) /\ Lacks(up', Mechanism)
       /\ Lacks(up', EndCommands) /\ Lacks(up', Answers) /\ Lacks(up', Requests)
  <2> DEFINE n == Nick(1)
  <2>1. up' = <<n>> /\ n \in Commands /\ n \notin LsCommands /\ n \notin UpSteps
        /\ n \notin Mechanism /\ n \notin EndCommands /\ n \notin Answers
        /\ n \notin Requests
    BY <1>1, <1>12 DEF Idle, UpSteps
  <2> HIDE DEF n
  <2>2. QED
    BY <2>1, One
<1>14. CASE "sasl" \in srv.offers
  <2>1. LsAhead'
    <3>1. CASE messages = <<last>> /\ first = {}
      <4>1. /\ down' # << >> /\ Head(down') = last /\ Tail(down') = << >>
        BY <1>5, <1>10, <3>1, Pair
      <4>2. Lacks(<< >>, LsLines)
        BY DEF Lacks
      <4>3. lsCaps' = {} /\ last.caps = srv.offers
        BY <1>1, <1>5, <3>1 DEF Opening
      <4>4. QED
        BY <1>5, <1>9, <1>14, <4>1, <4>2, <4>3 DEF LsAhead, Listed
    <3>2. CASE messages = <<more, last>>
      <4>1. /\ down' # << >> /\ Head(down') = more /\ Tail(down') = <<last>>
        BY <1>5, <1>10, <3>2, Pair
      <4>2. <<last>> # << >> /\ Head(<<last>>) = last /\ Tail(<<last>>) = << >>
        BY <1>5, Pair
      <4>3. Lacks(<< >>, LsLines)
        BY DEF Lacks
      <4>4. lsCaps' = {} /\ more.caps \cup last.caps = srv.offers
        BY <1>1, <1>5 DEF Opening
      <4>5. QED
        BY <1>5, <1>9, <1>14, <4>1, <4>2, <4>3, <4>4 DEF LsAhead, Listed
    <3>3. QED
      BY <1>8, <3>1, <3>2
  <2>2. OneStep'
    BY <1>9, <1>11, <1>13, LacksMore DEF OneStep
  <2>3. srv'.login = "owed"
    BY <1>4, <1>9, <1>14
  <2>4. Owed'
    BY <1>9, <1>11, <1>13, <2>1, <2>2, <2>3 DEF Owed, Lacks
  <2>5. QED
    BY <1>9, <1>13, <2>4 DEF Later
<1>15. CASE "sasl" \notin srv.offers
  <2>1. srv'.login = "none"
    BY <1>4, <1>9, <1>15
  <2>2. "sasl" \notin lsCaps'
    BY <1>1 DEF Opening
  <2>3. \A i \in 1 .. Len(down') :
          down'[i] \in LsLines => "sasl" \notin down'[i].caps
    BY <1>5, <1>8, <1>10, <1>15
  <2>4. Lacks(up', SaslRequests \cup Mechanism)
    BY <1>13 DEF Lacks, SaslRequests
  <2>5. Free'
    BY <1>1, <1>9, <1>11, <2>1, <2>2, <2>3, <2>4 DEF Free, Settled
  <2>6. QED
    BY <1>9, <1>13, <2>5 DEF Later
<1>16. QED
  BY <1>14, <1>15

\* After the welcome nothing touches the verdict.
LEMMA WelcomedStays ==
  ASSUME TypeOK, srv.welcomed,
         (Serve /\ Lacks(up, LsCommands)) \/ SrvGivesUp \/ SrvChangesCaps
  PROVE  srv'.login = srv.login /\ srv'.welcomed
<1> DEFINE Keeps(s) == s.login = srv.login /\ s.welcomed
<1>1. srv \in Servers
  BY ServerType
<1>2. \A verdict \in {"success", "failed", "aborted", "cut"} :
        Keeps(Concluded(verdict))
  BY <1>1 DEF Concluded, Servers
<1>3. \A s, messages : Reply(s, messages) => srv' = [s EXCEPT !.welcomed = @ \/
                          (s.nick /\ ~s.capping /\ ~s.welcomed)]
  BY DEF Reply
<1>4. CASE Serve /\ Lacks(up, LsCommands)
  <2> DEFINE c == Head(up)
  <2>1. /\ c \in Commands /\ c.type # "LS"
    BY <1>4, RestOfCommands DEF LsCommands
  <2>2. \/ SrvCap(c)
        \/ c.type = "AUTHENTICATE" /\ SrvAuthenticate(c.arg)
        \/ c.type = "NICK" /\ SrvNick(c.arg)
    BY <1>4 DEF Serve
  <2> HIDE DEF c
  <2>3. CASE SrvCap(c)
    <3>1. CASE c.type = "REQ"
      <4>1. [srv EXCEPT !.caps = @ \cup c.caps] \in Servers
        <5>1. c.caps \in SUBSET Capabilities
          BY <2>1, <3>1 DEF Commands
        <5>2. QED
          BY <1>1, <5>1 DEF Servers
      <4>2. PICK s \in {srv, [srv EXCEPT !.caps = @ \cup c.caps]} :
              \E messages : Reply(s, messages)
        BY <2>3, <3>1 DEF SrvCap
      <4>3. s \in Servers /\ Keeps(s)
        BY <1>1, <4>1, <4>2 DEF Servers
      <4>4. QED
        BY <4>2, <4>3 DEF Reply, Servers
    <3>2. CASE c.type = "END"
      <4>1. PICK s \in {srv, [srv EXCEPT !.capping = FALSE]} :
              \E messages : Reply(s, messages)
        BY <2>3, <3>2 DEF SrvCap
      <4>2. s \in Servers /\ Keeps(s)
        BY <1>1, <4>1 DEF Servers
      <4>3. QED
        BY <4>1, <4>2 DEF Reply, Servers
    <3>3. QED
      BY <2>1, <2>3, <3>1, <3>2 DEF SrvCap
  <2>4. CASE c.type = "AUTHENTICATE" /\ SrvAuthenticate(c.arg)
    <3>1. PICK s \in {srv, [srv EXCEPT !.round = 1],
                      [srv EXCEPT !.round = @ + 1], Concluded("failed"),
                      Concluded("aborted"), Concluded("success")} :
            \E messages : Reply(s, messages)
      BY <2>4 DEF SrvAuthenticate
    <3>2. Keeps(s) /\ DOMAIN s = DOMAIN srv
      BY <1>1, <1>2, <3>1 DEF Servers, Concluded
    <3>3. QED
      BY <1>1, <3>1, <3>2 DEF Reply, Servers
  <2>5. CASE c.type = "NICK" /\ SrvNick(c.arg)
    <3>1. PICK s \in {[srv EXCEPT !.nick = TRUE],
                      [srv EXCEPT !.refused = IF c.arg = 0 THEN @ + 1 ELSE @]} :
            \E messages : Reply(s, messages)
      BY <2>5 DEF SrvNick
    <3>2. Keeps(s) /\ DOMAIN s = DOMAIN srv
      BY <1>1, <3>1 DEF Servers
    <3>3. QED
      BY <1>1, <3>1, <3>2 DEF Reply, Servers
  <2>6. QED
    BY <2>2, <2>3, <2>4, <2>5
<1>5. CASE SrvGivesUp
  <2>1. Concluded("failed") \in Servers /\ Keeps(Concluded("failed"))
    BY <1>2, ConcludedType
  <2>2. Reply(Concluded("failed"), <<Code("904")>>)
    BY <1>5 DEF SrvGivesUp
  <2> DEFINE s == Concluded("failed")
  <2> HIDE DEF s
  <2>3. s \in Servers /\ Keeps(s) /\ Reply(s, <<Code("904")>>)
    BY <2>1, <2>2 DEF s
  <2>4. QED
    BY <2>3 DEF Reply, Servers
<1>6. CASE SrvChangesCaps
  <2> DEFINE r == [srv EXCEPT !.changes = @ + 1]
  <2>1. PICK c \in {"sasl", "away"} :
          \E messages :
            \/ Reply([r EXCEPT !.offers = @ \cup {c}], messages)
            \/ Reply([r EXCEPT !.offers = @ \ {c}, !.caps = @ \ {c}], messages)
    BY <1>6 DEF SrvChangesCaps
  <2>2. PICK s \in {[r EXCEPT !.offers = @ \cup {c}],
                    [r EXCEPT !.offers = @ \ {c}, !.caps = @ \ {c}]} :
          \E messages : Reply(s, messages)
    BY <2>1
  <2>3. Keeps(s) /\ DOMAIN s = DOMAIN srv
    BY <1>1, <2>2 DEF Servers
  <2>4. QED
    BY <1>1, <2>2, <2>3 DEF Reply, Servers
<1>7. QED
  BY <1>4, <1>5, <1>6

(***************************************************************************)
(* The theorem.                                                            *)
(***************************************************************************)
LEMMA NextLogin ==
  ASSUME TypeOK, Ordinary, LoginInv, [Next]_vars
  PROVE  LoginInv'
<1>1. CASE mech = "none"
  <2>1. mech' = mech
    BY DEF Next, vars, Receive, Serve, SrvGivesUp, SrvChangesCaps
  <2>2. QED
    BY <1>1, <2>1 DEF LoginInv
<1>2. CASE mech # "none" /\ Receive
  BY <1>2, ReceiveLogin
<1>3. CASE mech # "none" /\ Serve
  <2>1. EcdsaOnly' /\ mech' = mech
    BY <1>3 DEF LoginInv, EcdsaOnly, Serve
  <2>2. ASSUME Later
        PROVE  Later'
    <3>1. Lacks(up', LsCommands)
      BY <1>3, <2>2, RestOfCommands DEF Later
    <3>2. CASE srv.welcomed
      BY <1>3, <2>1, <2>2, <3>1, <3>2, WelcomedStays DEF Later, Settled
    <3>3. CASE ~srv.welcomed /\ Owed
      <4>1. Free' \/ (Owed' /\ ~srv'.welcomed)
        BY <1>3, <2>2, <3>3, ServeOwed DEF Later
      <4>2. QED
        BY <3>1, <4>1 DEF Later, Free
    <3>4. CASE ~srv.welcomed /\ Free
      <4>1. Free'
        BY <1>3, <2>2, <3>4, ServeFree DEF Later
      <4>2. QED
        BY <3>1, <4>1 DEF Later, Free
    <3>5. QED
      BY <2>2, <3>2, <3>3, <3>4 DEF Later
  <2>3. QED
    BY <1>3, <2>1, <2>2, ServeOpening DEF LoginInv
<1>4. CASE mech # "none" /\ SrvGivesUp
  <2>1. /\ srv.round > 0 /\ Reply(Concluded("failed"), <<Code("904")>>)
        /\ UNCHANGED <<mech, auth, lsCaps, up>>
    BY <1>4 DEF SrvGivesUp
  <2>2. Later /\ EcdsaOnly
    BY <1>4, <2>1 DEF LoginInv, Opening
  <2>3. CASE srv.welcomed
    BY <1>4, <2>1, <2>2, <2>3, WelcomedStays
    DEF LoginInv, Later, Settled, EcdsaOnly
  <2>4. CASE ~srv.welcomed
    <3>1. Owed
      BY <2>1, <2>2, <2>4 DEF Later, Free
    <3>2. Lacks(up', UpSteps) /\ Lacks(down, DownSteps)
      BY <2>1, <3>1 DEF Owed, OneStep
    <3>3. /\ Concluded("failed") \in Servers
          /\ Concluded("failed").round = 0 /\ Concluded("failed").login = "failed"
      BY <2>4, ServerType, ConcludedType DEF Concluded, Servers
    <3>4. <<Code("904")>> \in Seq(Messages)
          /\ \A S \in CodeKinds : Lacks(<<Code("904")>>, S)
      BY CodesLack
    <3>5. Free'
      BY <1>4, <2>1, <2>4, <3>1, <3>2, <3>3, <3>4, OwedConcludes
    <3>6. QED
      BY <2>1, <2>2, <3>5 DEF LoginInv, Later, Free, EcdsaOnly
  <2>5. QED
    BY <2>3, <2>4
<1>5. CASE mech # "none" /\ SrvChangesCaps
  <2>1. srv.welcomed /\ UNCHANGED <<mech, auth, up>>
    BY <1>5 DEF SrvChangesCaps, Ordinary
  <2>2. Later /\ EcdsaOnly
    BY <1>5, <2>1 DEF LoginInv, Opening
  <2>3. QED
    BY <1>5, <2>1, <2>2, WelcomedStays DEF LoginInv, Later, Settled, EcdsaOnly
<1>6. CASE UNCHANGED vars
  <2>1. UNCHANGED <<mech, auth, lsCaps, up, down, srv>>
    BY <1>6 DEF vars
  <2>2. QED
    BY <2>1 DEF LoginInv, EcdsaOnly, Opening, Later, Settled, Owed, Free,
       OneStep, LsAhead, Listed
<1>7. QED
  BY <1>1, <1>2, <1>3, <1>4, <1>5, <1>6 DEF Next

LEMMA InitLogin == Init => LoginInv
  BY DEF Init, LoginInv, EcdsaOnly, Opening

\* LoginSettled, for every set of mechanisms, whichever nicknames are refused,
\* however CAP LS is split and wherever the server ends the login.
THEOREM LoginIsSettled ==
  ASSUME Ordinary
  PROVE  Spec => []LoginSettled
<1>1. Init => TypeOK /\ LoginInv
  BY InitType, InitLogin
<1>2. TypeOK /\ LoginInv /\ [Next]_vars => TypeOK' /\ LoginInv'
  BY NextType, NextLogin
<1>3. LoginInv => LoginSettled
  BY DEF LoginInv, LoginSettled, Opening, Later, Settled
<1>4. QED
  BY <1>1, <1>2, <1>3, PTL DEF Spec
=============================================================================
