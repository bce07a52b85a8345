----------------------------- MODULE OtrProofs ------------------------------
(***************************************************************************)
(* Theorems about Otr for all names, keys and timer ids, and for every     *)
(* answer of libotr that Libotr allows.                                    *)
(***************************************************************************)
EXTENDS Otr, TLAPS

\* A context as libotr keeps it: a fingerprint is active exactly in a session,
\* known, and secrets are exchanged in a session only.
Sound(c) ==
  /\ c \in Contexts
  /\ c.state = "encrypted" <=> c.key # NoKey
  /\ c.key # NoKey => c.key \in c.known
  /\ c.smp # "none" => c.state = "encrypted"
  /\ c.trusted \subseteq c.known

\* Trust differs from before for the key of the session alone.
TrustFrom(c, d) ==
  d.trusted # c.trusted =>
    /\ c.key # NoKey /\ d.key = c.key
    /\ d.trusted \ {c.key} = c.trusted \ {c.key}

\* What the extension relies on in the context d and the calls that answer it:
\* the calls tell of what changed, and nobody leaves a session for plaintext.
Reliable(c, d, calls) ==
  /\ Sound(d)
  /\ Fingerprints(d) # Fingerprints(c) => "write_fingerprints" \in calls
  /\ d.commit # "none" => c.commit # "none" \/ "timer_control" \in calls
  /\ "timer_control" \in calls => d.commit # "none"
  /\ d.state = "plaintext" => c.state = "plaintext" /\ "gone_secure" \notin calls
  /\ TrustFrom(c, d)

\* The text is the user's to read as often as it is shown.
Readable(r, kind) ==
  /\ r.internal \in BOOLEAN /\ r.newmsg \in BOOLEAN
  /\ Count(~Drops(r)) + Count(r.newmsg /\ ~r.internal)
     + Count("text_event" \in r.calls)
     = Count(kind \in {"plain", "tagged"} \/ (kind = "text" /\ ~r.internal))

(***************************************************************************)
(* Lemmas about libotr's answers.                                          *)
(***************************************************************************)

\* The answer is reliable and has nothing to show.
Quietly(c, r) ==
  \E d, calls :
    /\ r = [context |-> d, internal |-> TRUE, newmsg |-> FALSE, calls |-> calls]
    /\ Reliable(c, d, calls) /\ "text_event" \notin calls

\* What is not internal is shown once, rewritten or as it came; beside a
\* warning that shows the text, nothing is.
LEMMA ShownReadable ==
  ASSUME NEW r, NEW kind \in {"plain", "tagged", "text"},
         r.internal = FALSE, r.newmsg \in BOOLEAN, "text_event" \notin r.calls
  PROVE  Readable(r, kind)
<1> DEFINE rewritten == Count(r.newmsg /\ ~r.internal)
           received == Count(~Drops(r))
           warned == Count("text_event" \in r.calls)
           meant == Count(kind \in {"plain", "tagged"}
                          \/ (kind = "text" /\ ~r.internal))
<1>1. meant = 1
  BY DEF Count
<1>2. received + rewritten = 1
  <2>1. CASE r.newmsg = TRUE
    BY <2>1 DEF Count, Drops
  <2>2. CASE r.newmsg = FALSE
    BY <2>2 DEF Count, Drops
  <2>3. QED BY <2>1, <2>2
<1>3. warned = 0
  BY DEF Count
<1>4. r.internal \in BOOLEAN /\ r.newmsg \in BOOLEAN
  OBVIOUS
<1> HIDE DEF rewritten, received, warned, meant
<1>5. received + rewritten + warned = meant
  BY <1>1, <1>2, <1>3
<1>6. QED
  BY <1>4, <1>5 DEF Readable, rewritten, received, warned, meant

LEMMA WarnedReadable ==
  ASSUME NEW r, NEW kind \in {"plain", "tagged"},
         r.internal = TRUE, r.newmsg = FALSE, "text_event" \in r.calls
  PROVE  Readable(r, kind)
<1> DEFINE rewritten == Count(r.newmsg /\ ~r.internal)
           received == Count(~Drops(r))
           warned == Count("text_event" \in r.calls)
           meant == Count(kind \in {"plain", "tagged"}
                          \/ (kind = "text" /\ ~r.internal))
<1>1. meant = 1
  BY DEF Count
<1>2. received = 0 /\ rewritten = 0
  BY DEF Count, Drops
<1>3. warned = 1
  BY DEF Count
<1>4. r.internal \in BOOLEAN /\ r.newmsg \in BOOLEAN
  OBVIOUS
<1> HIDE DEF rewritten, received, warned, meant
<1>5. received + rewritten + warned = meant
  BY <1>1, <1>2, <1>3
<1>6. QED
  BY <1>4, <1>5 DEF Readable, rewritten, received, warned, meant

LEMMA QuietReadable ==
  ASSUME NEW c, NEW r, Quietly(c, r), NEW kind, kind \notin {"plain", "tagged"}
  PROVE  Reliable(c, r.context, r.calls) /\ Readable(r, kind)
BY DEF Quietly, Readable, Drops, Count

\* What leaves the context alone is reliable.
LEMMA SameReliable ==
  ASSUME NEW c, Sound(c), NEW calls,
         "timer_control" \notin calls, "gone_secure" \notin calls
  PROVE  Reliable(c, c, calls)
BY DEF Reliable, TrustFrom

\* A proposal is reliable: it asks for the timer.
LEMMA ProposedReliable ==
  ASSUME NEW c, Sound(c), NEW calls,
         "timer_control" \in calls, "gone_secure" \notin calls
  PROVE  Reliable(c, Proposed(c), calls)
BY DEF Reliable, TrustFrom, Sound, Contexts, Commits, Proposed, Fingerprints

\* A key exchange that ends is reliable: a new fingerprint is written.
LEMMA SecuredReliable ==
  ASSUME NEW c, Sound(c), NEW x \in Keys, NEW m \in {c.commit, "none"}
  PROVE  Quietly(c, Secured(c, x, m))
<1> DEFINE d == [c EXCEPT !.state = "encrypted", !.key = x, !.commit = m,
                          !.known = @ \cup {x},
                          !.smp = IF c.state = "encrypted" THEN @ ELSE "none"]
           calls == (IF c.state = "encrypted" /\ c.key = x THEN {"still_secure"}
                     ELSE {"gone_secure"})
                    \cup (IF x \in c.known THEN {}
                          ELSE {"new_fingerprint", "write_fingerprints"})
<1>1. Secured(c, x, m) = [context |-> d, internal |-> TRUE, newmsg |-> FALSE,
                          calls |-> calls]
  BY DEF Secured, Internal, Received
<1>2. Sound(d)
  BY LibotrAssumption DEF Sound, Contexts, Commits, SmpStates
<1>3. x \in c.known => Fingerprints(d) = Fingerprints(c)
  BY DEF Sound, Contexts, Fingerprints
<1>4. "timer_control" \notin calls /\ "text_event" \notin calls
  OBVIOUS
<1>5. d.state = "encrypted" /\ d.trusted = c.trusted /\ d.commit = m
  BY DEF Sound, Contexts
<1>6. x \notin c.known => "write_fingerprints" \in calls
  OBVIOUS
<1>7. Reliable(c, d, calls)
  <2> HIDE DEF d, calls
  <2> QED BY <1>2, <1>3, <1>4, <1>5, <1>6 DEF Reliable, TrustFrom
<1> HIDE DEF d, calls
<1>8. QED
  BY <1>1, <1>4, <1>7 DEF Quietly

\* The end of an exchange of secrets is reliable: trust that changes is written.
LEMMA VerifiedReliable ==
  ASSUME NEW c, Sound(c), c.state = "encrypted", NEW success \in BOOLEAN
  PROVE  Quietly(c, Verified(c, success))
<1> DEFINE quiet == [c EXCEPT !.smp = "none"]
           d == [c EXCEPT !.smp = "none",
                          !.trusted = IF success THEN @ \cup {c.key}
                                      ELSE @ \ {c.key}]
<1>1. CASE c.smp = "question"
  <2>1. Verified(c, success) = [context |-> quiet, internal |-> TRUE,
                                newmsg |-> FALSE, calls |-> {"smp_event"}]
    BY <1>1 DEF Verified, Internal, Received
  <2>2. Reliable(c, quiet, {"smp_event"})
    BY DEF Reliable, TrustFrom, Sound, Contexts, SmpStates, Fingerprints
  <2> HIDE DEF quiet
  <2>3. QED BY <2>1, <2>2 DEF Quietly
<1>2. CASE c.smp # "question"
  <2> DEFINE calls == {"smp_event", "write_fingerprints"}
  <2>1. Verified(c, success) = [context |-> d, internal |-> TRUE,
                                newmsg |-> FALSE, calls |-> calls]
    BY <1>2 DEF Verified, Internal, Received
  <2>2. d.trusted = IF success THEN c.trusted \cup {c.key} ELSE c.trusted \ {c.key}
    BY DEF Sound, Contexts
  <2>3. /\ d.state = "encrypted" /\ d.key = c.key /\ d.commit = c.commit
        /\ d.known = c.known /\ d.smp = "none" /\ d \in Contexts
    BY DEF Sound, Contexts, SmpStates
  <2> HIDE DEF d
  <2>4. Reliable(c, d, calls)
    BY <2>2, <2>3 DEF Reliable, TrustFrom, Sound
  <2>5. QED BY <2>1, <2>4 DEF Quietly
<1>3. QED BY <1>1, <1>2

\* Whatever is inside the data messages of a session, the answer is reliable
\* and readable.
LEMMA InDataReliable ==
  ASSUME NEW c, Sound(c), c.state = "encrypted", NEW kind \in DataKinds,
         NEW r \in InData(c, kind)
  PROVE  Reliable(c, r.context, r.calls) /\ Readable(r, kind)
<1>1. ASSUME NEW s \in SmpStates, NEW calls \in {{"smp_event"}, {"smp_event", "inject"}}
      PROVE  Quietly(c, Internal([c EXCEPT !.smp = s], calls))
  <2>1. Reliable(c, [c EXCEPT !.smp = s], calls)
    BY <1>1 DEF Reliable, TrustFrom, Sound, Contexts, Fingerprints
  <2>2. QED BY <2>1 DEF Quietly, Internal, Received
<1>2. ASSUME NEW calls \in {{}, {"event"}, {"smp_event"}}
      PROVE  Quietly(c, Internal(c, calls))
  BY SameReliable DEF Quietly, Internal, Received
<1>3. CASE r = Received(c, FALSE, TRUE, {}) /\ kind = "text"
  <2>1. r = [context |-> c, internal |-> FALSE, newmsg |-> TRUE, calls |-> {}]
    BY <1>3 DEF Received
  <2>2. Reliable(c, r.context, r.calls)
    BY <2>1, SameReliable
  <2>3. Readable(r, kind)
    BY <1>3, <2>1, ShownReadable
  <2>4. QED BY <2>2, <2>3
<1>4. CASE kind = "text" /\ r # Received(c, FALSE, TRUE, {})
  <2>1. r = Internal(c, {"event"})
    BY <1>4 DEF InData
  <2>2. QED BY <1>2, <1>4, <2>1, QuietReadable
<1>5. CASE kind = "heartbeat"
  <2>1. r = Internal(c, {})
    BY <1>5 DEF InData
  <2>2. QED BY <1>2, <1>5, <2>1, QuietReadable
<1>6. CASE kind = "bye"
  <2> DEFINE d == Forced(c, "finished")
  <2>1. r = Internal(d, {})
    BY <1>6 DEF InData
  <2>2. Reliable(c, d, {})
    BY LibotrAssumption
       DEF Forced, Reliable, TrustFrom, Sound, Contexts, SmpStates, Fingerprints
  <2> HIDE DEF d
  <2>3. Quietly(c, r)
    BY <2>1, <2>2 DEF Quietly, Internal, Received
  <2>4. QED BY <1>6, <2>3, QuietReadable
<1>7. CASE kind = "smp_ask"
  <2>1. \E s \in SmpStates, calls \in {{"smp_event"}, {"smp_event", "inject"}} :
          r = Internal([c EXCEPT !.smp = s], calls)
    <3>1. CASE c.smp = "none"
      BY <1>7, <3>1 DEF InData, SmpStates
    <3>2. CASE c.smp # "none"
      <4>1. r = Internal([c EXCEPT !.smp = "none"], {"smp_event", "inject"})
        BY <1>7, <3>2 DEF InData
      <4>2. QED BY <4>1 DEF SmpStates
    <3>3. QED BY <3>1, <3>2
  <2>2. Quietly(c, r)
    BY <1>1, <2>1
  <2>3. QED BY <1>7, <2>2, QuietReadable
<1>8. CASE kind = "smp_end"
  <2>1. \/ r = Internal(c, {"smp_event"})
        \/ r = Internal([c EXCEPT !.smp = "none"], {"smp_event"})
        \/ \E success \in BOOLEAN : r = Verified(c, success)
    BY <1>8 DEF InData
  <2>2. Quietly(c, r)
    <3>1. Quietly(c, Internal([c EXCEPT !.smp = "none"], {"smp_event"}))
      BY <1>1 DEF SmpStates
    <3>2. QED BY <1>2, <2>1, <3>1, VerifiedReliable
  <2>3. QED BY <1>8, <2>2, QuietReadable
<1>9. QED
  BY <1>3, <1>4, <1>5, <1>6, <1>7, <1>8 DEF DataKinds

\* So is every answer of otrl_message_receiving.
LEMMA ReceivingReliable ==
  ASSUME NEW c, Sound(c), NEW kind \in Kinds, NEW r \in Receiving(c, kind)
  PROVE  Reliable(c, r.context, r.calls) /\ Readable(r, kind)
<1>1. ASSUME NEW calls \in {{}, {"event"}, {"inject"}}
      PROVE  Quietly(c, Internal(c, calls))
  BY SameReliable DEF Quietly, Internal, Received
<1>2. ASSUME NEW calls \in {Proposal, Proposal \cup {"event"}}
      PROVE  Quietly(c, Internal(Proposed(c), calls))
  <2>1. Reliable(c, Proposed(c), calls)
    BY ProposedReliable DEF Proposal
  <2>2. "text_event" \notin calls
    BY DEF Proposal
  <2>3. QED BY <2>1, <2>2 DEF Quietly, Internal, Received
<1>3. CASE kind \in {"plain", "tagged"}
  <2> DEFINE Shown(d, calls) ==
               r \in {[context |-> d, internal |-> FALSE, newmsg |-> new,
                       calls |-> calls] : new \in BOOLEAN}
             Warned(d, calls) ==
               r = [context |-> d, internal |-> TRUE, newmsg |-> FALSE,
                    calls |-> calls]
  <2>1. \/ Shown(c, {}) \/ Shown(Proposed(c), Proposal)
        \/ Warned(c, {"text_event"})
        \/ Warned(Proposed(c), Proposal \cup {"text_event"})
    <3>1. CASE kind = "plain"
      BY <3>1 DEF Receiving, DataKinds, Received, Internal
    <3>2. CASE kind = "tagged"
      BY <3>2 DEF Receiving, DataKinds, Received, Internal
    <3>3. QED BY <1>3, <3>1, <3>2
  <2>2. Reliable(c, c, {}) /\ Reliable(c, c, {"text_event"})
    BY SameReliable
  <2>3. /\ Reliable(c, Proposed(c), Proposal)
        /\ Reliable(c, Proposed(c), Proposal \cup {"text_event"})
    BY ProposedReliable DEF Proposal
  <2>4. Reliable(c, r.context, r.calls)
    BY <2>1, <2>2, <2>3
  <2>5. Readable(r, kind)
    <3>1. CASE Shown(c, {}) \/ Shown(Proposed(c), Proposal)
      BY <1>3, <3>1, ShownReadable DEF Proposal
    <3>2. CASE \/ Warned(c, {"text_event"})
               \/ Warned(Proposed(c), Proposal \cup {"text_event"})
      BY <1>3, <3>2, WarnedReadable
    <3>3. QED BY <2>1, <3>1, <3>2
  <2>6. QED BY <2>4, <2>5
<1>4. CASE kind \in {"query", "error", "part"}
  <2>1. \/ \E calls \in {{}, {"event"}} : r = Internal(c, calls)
        \/ \E calls \in {Proposal, Proposal \cup {"event"}} :
             r = Internal(Proposed(c), calls)
    <3>1. CASE kind = "query"
      BY <3>1 DEF Receiving, DataKinds
    <3>2. CASE kind = "error"
      BY <3>2 DEF Receiving, DataKinds
    <3>3. CASE kind = "part"
      BY <3>3 DEF Receiving, DataKinds
    <3>4. QED BY <1>4, <3>1, <3>2, <3>3
  <2>2. QED BY <1>1, <1>2, <1>4, <2>1, QuietReadable
<1>5. CASE kind = "ake"
  <2>1. \/ r = Internal(c, {"inject"})
        \/ \E x \in Keys, m \in {c.commit, "none"} : r = Secured(c, x, m)
    BY <1>5 DEF Receiving, DataKinds
  <2>2. Quietly(c, r)
    BY <1>1, <2>1, SecuredReliable
  <2>3. QED BY <1>5, <2>2, QuietReadable
<1>6. CASE kind \in DataKinds /\ c.state = "encrypted"
  <2>1. r \in InData(c, kind)
    BY <1>6 DEF Receiving, DataKinds
  <2>2. QED BY <1>6, <2>1, InDataReliable
<1>7. CASE kind \in DataKinds /\ c.state # "encrypted"
  <2>1. r = Internal(c, {"event"})
    BY <1>7 DEF Receiving, DataKinds
  <2>2. QED BY <1>1, <1>7, <2>1, QuietReadable DEF DataKinds
<1>8. QED
  BY <1>3, <1>4, <1>5, <1>6, <1>7 DEF Kinds

(***************************************************************************)
(* Lemmas about names and the timer.                                       *)
(***************************************************************************)

\* A context the extension uses: both names as normalizeCase makes them.
Folded == {k \in ContextIds : k.account.folded = TRUE /\ k.user.folded = TRUE}

\* However a conversation is spelled, the extension uses one context for it.
LEMMA OneContextPerPair ==
  ASSUME NEW k \in Folded, NEW l \in Folded, Pair(k) = Pair(l)
  PROVE  k = l
<1>1. \A name \in Mine \cup Peers : name = [nick |-> name.nick, folded |-> name.folded]
  BY OtrAssumption
<1>2. /\ k = [account |-> k.account, user |-> k.user]
      /\ l = [account |-> l.account, user |-> l.user]
      /\ {k.account, l.account} \subseteq Mine /\ {k.user, l.user} \subseteq Peers
  BY DEF Folded, ContextIds
<1>3. k.account.nick = l.account.nick /\ k.user.nick = l.user.nick
  BY DEF Pair
<1>4. QED
  BY <1>1, <1>2, <1>3 DEF Folded

LEMMA NormalizedFolded ==
  ASSUME NEW account \in Mine, NEW user \in Peers
  PROVE  LET k == ContextId(NormalizeCase(account), NormalizeCase(user))
         IN /\ k \in Folded
            /\ Pair(k) = [mine |-> account.nick, peer |-> user.nick]
<1>1. /\ account = [nick |-> account.nick, folded |-> account.folded]
      /\ user = [nick |-> user.nick, folded |-> user.folded]
      /\ NormalizeCase(account) \in Mine /\ NormalizeCase(user) \in Peers
  BY OtrAssumption
<1>2. /\ NormalizeCase(account) = [nick |-> account.nick, folded |-> TRUE]
      /\ NormalizeCase(user) = [nick |-> user.nick, folded |-> TRUE]
  BY DEF NormalizeCase
<1>3. ContextId(NormalizeCase(account), NormalizeCase(user)) \in Folded
  BY <1>1, <1>2 DEF ContextId, ContextIds, Folded
<1>4. QED
  BY <1>2, <1>3 DEF ContextId, Pair

Timers == [active : BOOLEAN, interval : BOOLEAN, id : TimerIds,
           pending : SUBSET TimerIds]

\* The client holds the timer we know and no other.
OneTimer(t) ==
  t \in Timers /\ t.pending = IF t.active THEN {t.id} ELSE {}

\* schedule_timer leaves one timer, if an interval is set, and none otherwise.
LEMMA ScheduledOnce ==
  ASSUME NEW t, OneTimer(t)
  PROVE  LET u == ScheduleTimer(t)
         IN OneTimer(u) /\ u.interval = t.interval /\ u.active = t.interval
<1> DEFINE left == IF t.active THEN t.pending \ {t.id} ELSE t.pending
           i == CHOOSE i \in TimerIds \ (t.pending \cup {t.id}) : TRUE
<1>1. left = {}
  BY DEF OneTimer, Timers
<1>2. TimerIds \ (t.pending \cup {t.id}) # {}
  BY OtrAssumption DEF OneTimer, Timers
<1>3. i \in TimerIds
  BY <1>2
<1>4. ScheduleTimer(t) =
        IF t.interval
        THEN [t EXCEPT !.active = TRUE, !.id = i, !.pending = left \cup {i}]
        ELSE [t EXCEPT !.active = FALSE, !.pending = left]
  BY DEF ScheduleTimer
<1> HIDE DEF left, i
<1>5. CASE t.interval = TRUE
  <2>1. ScheduleTimer(t) = [t EXCEPT !.active = TRUE, !.id = i, !.pending = {i}]
    BY <1>1, <1>4, <1>5
  <2>2. LET u == [t EXCEPT !.active = TRUE, !.id = i, !.pending = {i}]
        IN /\ u \in Timers /\ u.active = TRUE /\ u.interval = TRUE
           /\ u.id = i /\ u.pending = {i}
    BY <1>3, <1>5 DEF OneTimer, Timers
  <2>3. QED
    BY <1>5, <2>1, <2>2 DEF OneTimer
<1>6. CASE t.interval = FALSE
  <2>1. ScheduleTimer(t) = [t EXCEPT !.active = FALSE, !.pending = {}]
    BY <1>1, <1>4, <1>6
  <2>2. LET u == [t EXCEPT !.active = FALSE, !.pending = {}]
        IN /\ u \in Timers /\ u.active = FALSE /\ u.interval = FALSE
           /\ u.pending = {}
    BY <1>6 DEF OneTimer, Timers
  <2>3. QED
    BY <1>6, <2>1, <2>2 DEF OneTimer
<1>7. QED
  BY <1>5, <1>6 DEF OneTimer, Timers

LEMMA ControlledOnce ==
  ASSUME NEW t, OneTimer(t), NEW interval \in BOOLEAN
  PROVE  LET u == TimerControl(t, interval)
         IN OneTimer(u) /\ u.interval = interval /\ u.active = interval
<1>1. OneTimer([t EXCEPT !.interval = interval])
  BY DEF OneTimer, Timers
<1>2. [t EXCEPT !.interval = interval].interval = interval
  BY DEF OneTimer, Timers
<1>3. QED
  BY <1>1, <1>2, ScheduledOnce DEF TimerControl

(***************************************************************************)
(* The inductive invariant.                                                *)
(***************************************************************************)

\* libotr's contexts, and the file, which holds their fingerprints.
ContextInv ==
  /\ ctx \in [ContextIds -> Contexts]
  /\ \A k \in ContextIds : Sound(ctx[k])
  /\ file = [k \in ContextIds |-> Fingerprints(ctx[k])]

\* The timer runs while it has an interval, which is while libotr polls.
TimerInv ==
  /\ polling \in BOOLEAN /\ OneTimer(timers)
  /\ timers.interval = polling /\ timers.active = polling
  /\ ~polling => \A k \in ContextIds : ctx[k].commit = "none"

\* A conversation announced as secured is in a session, or the peer ended it.
ToldInv ==
  /\ me \in Mine \cup {NoNick}
  /\ told \in [Pairs -> {"nothing", "secured", "ended", "reloaded"}]
  /\ \A k \in Folded :
       told[Pair(k)] = "secured" => ctx[k].state # "plaintext"

LastInv ==
  /\ last \in [what : {"other", "received", "chat"}, human : BOOLEAN,
               shown : 0 .. 3, sent : SUBSET {"clear", "injected"},
               noticed : BOOLEAN, secured : BOOLEAN]
  /\ NoClearAfterSecured /\ DeliveredOnce

StateInv == ContextInv /\ TimerInv /\ ToldInv

Inv == StateInv /\ LastInv

TrustStep ==
  \A k \in ContextIds :
    ctx'[k].trusted # ctx[k].trusted =>
      /\ ctx[k].key # NoKey /\ ctx'[k].key = ctx[k].key
      /\ ctx'[k].trusted \ {ctx[k].key} = ctx[k].trusted \ {ctx[k].key}

\* What libotr calls back with after a reliable answer keeps the invariant.
LEMMA CallsKeep ==
  ASSUME StateInv, NEW k \in ContextIds, NEW d, NEW calls,
         k \in Folded \/ "gone_secure" \notin calls, Reliable(ctx[k], d, calls), ctx' = [ctx EXCEPT ![k] = d],
         Calls(k, calls), UNCHANGED me
  PROVE  StateInv' /\ TrustStep
<1>1. /\ k \in ContextIds /\ Pair(k) \in Pairs
      /\ \A l \in Folded : l \in ContextIds /\ Pair(l) \in Pairs
  BY DEF Folded, Pairs
<1>2. Sound(d) /\ d \in Contexts
  BY DEF Reliable, Sound
<1>3. /\ ctx' \in [ContextIds -> Contexts] /\ ctx'[k] = d
      /\ \A l \in ContextIds \ {k} : ctx'[l] = ctx[l]
  BY <1>1, <1>2 DEF StateInv, ContextInv
<1>4. ContextInv'
  <2>1. \A l \in ContextIds : Sound(ctx'[l])
    BY <1>2, <1>3 DEF StateInv, ContextInv
  <2>2. file' = [l \in ContextIds |-> Fingerprints(ctx'[l])]
    <3>1. CASE "write_fingerprints" \in calls
      BY <3>1 DEF Calls, WriteFingerprints
    <3>2. CASE "write_fingerprints" \notin calls
      <4>1. Fingerprints(d) = Fingerprints(ctx[k]) /\ file' = file
        BY <3>2 DEF Calls, Reliable
      <4>2. \A l \in ContextIds : Fingerprints(ctx'[l]) = Fingerprints(ctx[l])
        BY <1>3, <4>1
      <4>3. QED BY <4>1, <4>2 DEF StateInv, ContextInv
    <3>3. QED BY <3>1, <3>2
  <2>3. QED BY <1>3, <2>1, <2>2 DEF ContextInv
<1>5. TimerInv'
  <2>1. CASE "timer_control" \in calls /\ ~polling
    <3>1. polling' = TRUE /\ timers' = TimerControl(timers, TRUE)
      BY <2>1 DEF Calls
    <3>2. OneTimer(timers') /\ timers'.interval = TRUE /\ timers'.active = TRUE
      BY <3>1, ControlledOnce DEF StateInv, TimerInv
    <3>3. QED BY <3>1, <3>2 DEF TimerInv, OneTimer, Timers
  <2>2. CASE ~("timer_control" \in calls /\ ~polling)
    <3>1. polling' = polling /\ timers' = timers
      BY <2>2 DEF Calls
    <3>2. ~polling => \A l \in ContextIds : ctx'[l].commit = "none"
      <4>1. ~polling => ctx[k].commit = "none" /\ "timer_control" \notin calls
        BY <1>1, <2>2 DEF StateInv, TimerInv
      <4>2. ~polling => d.commit = "none"
        BY <4>1 DEF Reliable
      <4>3. QED BY <1>3, <4>2 DEF StateInv, TimerInv
    <3>3. QED BY <3>1, <3>2 DEF StateInv, TimerInv, OneTimer, Timers
  <2>3. QED BY <2>1, <2>2
<1>6. ToldInv'
  <2>1. told' \in [Pairs -> {"nothing", "secured", "ended", "reloaded"}]
    BY <1>1 DEF Calls, StateInv, ToldInv
  <2>2. ASSUME NEW l \in Folded, told'[Pair(l)] = "secured"
        PROVE  ctx'[l].state # "plaintext"
    <3>1. CASE l = k
      <4>1. CASE "gone_secure" \in calls
        BY <1>3, <3>1, <4>1 DEF Reliable
      <4>2. CASE "gone_secure" \notin calls
        BY <1>3, <2>2, <3>1, <4>2 DEF Calls, Reliable, StateInv, ToldInv
      <4>3. QED BY <4>1, <4>2
    <3>2. CASE l # k
      <4>1. Pair(l) # Pair(k) \/ "gone_secure" \notin calls
        BY <3>2, OneContextPerPair
      <4>2. told'[Pair(l)] = told[Pair(l)]
        BY <1>1, <4>1 DEF Calls, StateInv, ToldInv
      <4>3. QED BY <1>1, <1>3, <2>2, <3>2, <4>2 DEF StateInv, ToldInv
    <3>3. QED BY <3>1, <3>2
  <2>3. QED BY <2>1, <2>2 DEF StateInv, ToldInv
<1>7. TrustStep
  BY <1>3 DEF TrustStep, Reliable, TrustFrom
<1>8. QED
  BY <1>4, <1>5, <1>6, <1>7 DEF StateInv

LEMMA UnchangedKeeps ==
  ASSUME StateInv, UNCHANGED <<ctx, polling, timers, file, me, told>>
  PROVE  StateInv' /\ TrustStep
BY DEF StateInv, ContextInv, TimerInv, ToldInv, OneTimer, TrustStep

\* What is not about a line shows and sends nothing.
LEMMA NothingLast ==
  ASSUME last' = Nothing
  PROVE  LastInv'
BY DEF LastInv, Nothing, NoClearAfterSecured, DeliveredOnce, Count

LEMMA ShowingLast ==
  ASSUME NEW human \in BOOLEAN, NEW shown, shown = Count(human),
         Showing(human, shown)
  PROVE  LastInv'
<1>1. shown \in 0 .. 3
  BY DEF Count
<1>2. last' = [what |-> "received", human |-> human, shown |-> shown,
               sent |-> {}, noticed |-> FALSE, secured |-> FALSE]
  BY DEF Showing, Nothing
<1>3. QED
  BY <1>1, <1>2 DEF LastInv, NoClearAfterSecured, DeliveredOnce

LEMMA InvInit == Init => Inv
<1> SUFFICES ASSUME Init PROVE Inv
  OBVIOUS
<1>1. ContextInv
  BY DEF Init, ContextInv, Restored, Fingerprints, Sound, Contexts, Commits,
         SmpStates
<1>2. TimerInv
  <2>1. (CHOOSE i \in TimerIds : TRUE) \in TimerIds
    BY OtrAssumption
  <2>2. QED
    BY <2>1 DEF Init, NoTimers, TimerInv, OneTimer, Timers, Restored
<1>3. ToldInv
  BY DEF Init, ToldInv, Folded, Pairs
<1>4. LastInv
  BY DEF Init, LastInv, Nothing, NoClearAfterSecured, DeliveredOnce, Count
<1>5. QED
  BY <1>1, <1>2, <1>3, <1>4 DEF Inv, StateInv

(***************************************************************************)
(* One lemma per kind of step.                                             *)
(***************************************************************************)

LEMMA ProcessPrivmsgKeeps ==
  ASSUME Inv, NEW target \in Mine, NEW sender \in Peers, NEW kind \in Kinds,
         ProcessPrivmsg(target, sender, kind)
  PROVE  Inv' /\ TrustStep
<1> DEFINE k == ContextId(NormalizeCase(target), NormalizeCase(sender))
<1>1. k \in Folded /\ k \in ContextIds
  BY NormalizedFolded DEF Folded
<1> HIDE DEF k
<1>2. PICK r \in Receiving(ctx[k], kind) :
        /\ ctx' = [ctx EXCEPT ![k] = r.context]
        /\ Calls(k, r.calls)
        /\ Showing(kind \in {"plain", "tagged"} \/ (kind = "text" /\ ~r.internal),
                   Count(~Drops(r)) + Count(r.newmsg /\ ~r.internal)
                   + Count("text_event" \in r.calls))
        /\ UNCHANGED me
  BY DEF ProcessPrivmsg, k
<1>3. Reliable(ctx[k], r.context, r.calls) /\ Readable(r, kind)
  BY <1>1, ReceivingReliable DEF Inv, StateInv, ContextInv
<1>4. StateInv' /\ TrustStep
  BY <1>1, <1>2, <1>3, CallsKeep DEF Inv
<1>5. LastInv'
  <2> DEFINE human == kind \in {"plain", "tagged"} \/ (kind = "text" /\ ~r.internal)
             shown == Count(~Drops(r)) + Count(r.newmsg /\ ~r.internal)
                      + Count("text_event" \in r.calls)
  <2>1. human \in BOOLEAN
    OBVIOUS
  <2>2. shown = Count(human)
    BY <1>3 DEF Readable
  <2>3. Showing(human, shown)
    BY <1>2
  <2> HIDE DEF human, shown
  <2>4. QED BY <2>1, <2>2, <2>3, ShowingLast
<1>6. QED
  BY <1>4, <1>5 DEF Inv

LEMMA ChatKeeps ==
  ASSUME Inv, NEW target \in Peers, NEW query \in BOOLEAN, Chat(target, query)
  PROVE  Inv' /\ TrustStep
<1> DEFINE k == ContextId(NormalizeCase(me), NormalizeCase(target))
<1>1. k \in Folded /\ k \in ContextIds
  BY NormalizedFolded DEF Folded, Chat, Inv, StateInv, ToldInv
<1> HIDE DEF k
<1>2. PICK s \in Sending(ctx[k], query) :
        /\ last' = [what |-> "chat", human |-> ~query, shown |-> 0,
                    sent |-> (IF Allows(s) THEN {"clear"} ELSE {})
                             \cup (IF "inject" \in s.calls THEN {"injected"}
                                   ELSE {}),
                    noticed |-> "event" \in s.calls \/ s.err,
                    secured |-> told[Pair(k)] = "secured"]
        /\ Calls(k, s.calls)
  BY DEF Chat, k
<1>3. \/ s = [err |-> FALSE, newmsg |-> TRUE, calls |-> {"inject"}]
      \/ /\ ctx[k].state = "plaintext"
         /\ s = [err |-> FALSE, newmsg |-> FALSE, calls |-> {}]
      \/ s = [err |-> TRUE, newmsg |-> FALSE, calls |-> {"event"}]
      \/ s = [err |-> FALSE, newmsg |-> TRUE, calls |-> {"event"}]
  <2>1. ctx[k].state \in {"plaintext", "encrypted", "finished"}
    BY <1>1 DEF Inv, StateInv, ContextInv, Contexts
  <2>2. CASE query
    BY <2>2 DEF Sending, Sent
  <2>3. CASE ~query /\ ctx[k].state = "plaintext"
    BY <2>3 DEF Sending, Sent
  <2>4. CASE ~query /\ ctx[k].state = "encrypted"
    BY <2>4 DEF Sending, Sent
  <2>5. CASE ~query /\ ctx[k].state = "finished"
    BY <2>5 DEF Sending, Sent
  <2>6. QED BY <2>1, <2>2, <2>3, <2>4, <2>5
<1>4. Reliable(ctx[k], ctx[k], s.calls)
  BY <1>1, <1>3, SameReliable DEF Inv, StateInv, ContextInv
<1>5. ctx' = [ctx EXCEPT ![k] = ctx[k]] /\ UNCHANGED me
  BY <1>1 DEF Chat, Inv, StateInv, ContextInv
<1>6. StateInv' /\ TrustStep
  BY <1>1, <1>2, <1>4, <1>5, CallsKeep DEF Inv
<1>7. LastInv'
  <2>1. told[Pair(k)] = "secured" => ctx[k].state # "plaintext"
    BY <1>1 DEF Inv, StateInv, ToldInv
  <2>2. \/ last'.sent = {"injected"}
        \/ last'.sent = {"clear"} /\ ~last'.secured
        \/ last'.sent = {} /\ last'.noticed
    <3>1. CASE s = [err |-> FALSE, newmsg |-> TRUE, calls |-> {"inject"}]
      BY <1>2, <3>1 DEF Allows
    <3>2. CASE /\ ctx[k].state = "plaintext"
               /\ s = [err |-> FALSE, newmsg |-> FALSE, calls |-> {}]
      BY <1>2, <2>1, <3>2 DEF Allows
    <3>3. CASE s = [err |-> TRUE, newmsg |-> FALSE, calls |-> {"event"}]
      BY <1>2, <3>3 DEF Allows
    <3>4. CASE s = [err |-> FALSE, newmsg |-> TRUE, calls |-> {"event"}]
      BY <1>2, <3>4 DEF Allows
    <3>5. QED BY <1>3, <3>1, <3>2, <3>3, <3>4
  <2>3. s.err = TRUE \/ s.err = FALSE
    BY <1>3
  <2>4. /\ last'.what = "chat" /\ last'.shown = 0
        /\ last' \in [what : {"other", "received", "chat"}, human : BOOLEAN,
                      shown : 0 .. 3, sent : SUBSET {"clear", "injected"},
                      noticed : BOOLEAN, secured : BOOLEAN]
    <3> DEFINE sent == (IF Allows(s) THEN {"clear"} ELSE {})
                       \cup (IF "inject" \in s.calls THEN {"injected"} ELSE {})
               noticed == "event" \in s.calls \/ s.err
               secured == told[Pair(k)] = "secured"
    <3>1. sent \in SUBSET {"clear", "injected"}
      OBVIOUS
    <3>2. noticed \in BOOLEAN /\ secured \in BOOLEAN
      BY <2>3
    <3>3. last' = [what |-> "chat", human |-> ~query, shown |-> 0, sent |-> sent,
                   noticed |-> noticed, secured |-> secured]
      BY <1>2
    <3> HIDE DEF sent, noticed, secured
    <3>4. QED BY <3>1, <3>2, <3>3
  <2>5. NoClearAfterSecured'
    BY <2>2 DEF NoClearAfterSecured
  <2>6. DeliveredOnce'
    BY <2>2, <2>4 DEF DeliveredOnce
  <2>7. QED BY <2>4, <2>5, <2>6 DEF LastInv
<1>8. QED
  BY <1>6, <1>7 DEF Inv

LEMMA CommandKeeps ==
  ASSUME Inv, NEW target \in Peers, Command(target)
  PROVE  Inv' /\ TrustStep
<1> DEFINE k == ContextId(NormalizeCase(me), NormalizeCase(target))
<1>1. me # NoNick => k \in Folded /\ k \in ContextIds
  BY NormalizedFolded DEF Folded, Inv, StateInv, ToldInv
<1>2. CurrentContext(target) = k
  BY DEF CurrentContext
<1> HIDE DEF k
<1>3. k \in ContextIds => Sound(ctx[k])
  BY DEF Inv, StateInv, ContextInv
<1>4. CASE CmdEnd(target)
  <2> DEFINE d == Forced(ctx[k], "plaintext")
  <2>1. /\ k \in Folded /\ k \in ContextIds /\ Pair(k) \in Pairs
        /\ ctx' = [ctx EXCEPT ![k] = d]
        /\ told' = [told EXCEPT ![Pair(k)] = "ended"]
        /\ last' = Nothing /\ UNCHANGED <<polling, timers, me, file>>
    BY <1>1, <1>4 DEF CmdEnd, InContext, k, Pairs
  <2>2. /\ Sound(d) /\ Fingerprints(d) = Fingerprints(ctx[k])
        /\ d.commit = ctx[k].commit /\ d.trusted = ctx[k].trusted
    BY <1>3, <2>1, LibotrAssumption
       DEF Forced, Sound, Contexts, SmpStates, Fingerprints
  <2> HIDE DEF d
  <2>3. /\ ctx'[k] = d
        /\ \A l \in ContextIds \ {k} : ctx'[l] = ctx[l]
        /\ ctx' \in [ContextIds -> Contexts]
    BY <2>1, <2>2 DEF Inv, StateInv, ContextInv, Sound
  <2>4. ContextInv'
    <3>1. \A l \in ContextIds : Sound(ctx'[l])
      BY <2>2, <2>3 DEF Inv, StateInv, ContextInv
    <3>2. \A l \in ContextIds : Fingerprints(ctx'[l]) = Fingerprints(ctx[l])
      BY <2>2, <2>3
    <3>3. QED BY <2>1, <2>3, <3>1, <3>2 DEF Inv, StateInv, ContextInv
  <2>5. TimerInv'
    BY <2>1, <2>2, <2>3 DEF Inv, StateInv, TimerInv, OneTimer, Timers
  <2>6. ToldInv'
    <3>1. told' \in [Pairs -> {"nothing", "secured", "ended", "reloaded"}]
      BY <2>1 DEF Inv, StateInv, ToldInv
    <3>2. ASSUME NEW l \in Folded, told'[Pair(l)] = "secured"
          PROVE  ctx'[l].state # "plaintext"
      <4>1. l \in ContextIds /\ Pair(l) \in Pairs
        BY DEF Folded, Pairs
      <4>2. Pair(l) # Pair(k)
        BY <2>1, <3>2, <4>1 DEF Inv, StateInv, ToldInv
      <4>3. told[Pair(l)] = "secured"
        BY <2>1, <3>2, <4>1, <4>2 DEF Inv, StateInv, ToldInv
      <4>4. l # k
        BY <4>2
      <4>5. QED BY <2>3, <4>1, <4>3, <4>4 DEF Inv, StateInv, ToldInv
    <3>3. QED BY <2>1, <3>1, <3>2 DEF Inv, StateInv, ToldInv
  <2>7. TrustStep
    BY <2>2, <2>3 DEF TrustStep
  <2>8. QED BY <2>1, <2>4, <2>5, <2>6, <2>7, NothingLast DEF Inv, StateInv
<1>5. CASE CmdAsk(target)
  <2> DEFINE d == [ctx[k] EXCEPT !.smp = "exchange"]
  <2>1. /\ k \in Folded /\ k \in ContextIds
        /\ ctx[k].state = "encrypted" /\ ctx' = [ctx EXCEPT ![k] = d]
        /\ last' = Nothing /\ UNCHANGED <<polling, timers, me, file, told>>
    BY <1>1, <1>2, <1>5 DEF CmdAsk, InContext
  <2>2. Reliable(ctx[k], d, {})
    BY <1>3, <2>1 DEF Reliable, TrustFrom, Sound, Contexts, SmpStates, Fingerprints
  <2>3. Calls(k, {})
    BY <2>1 DEF Calls
  <2> HIDE DEF d
  <2>4. StateInv' /\ TrustStep
    BY <2>1, <2>2, <2>3, CallsKeep DEF Inv
  <2>5. QED BY <2>1, <2>4, NothingLast DEF Inv
<1>6. CASE CmdWithoutEffect
  BY <1>6, UnchangedKeeps, NothingLast DEF CmdWithoutEffect, Inv
<1>7. CASE CmdTrust(target) \/ CmdUntrust(target)
  <2>1. PICK trusted \in {ctx[k].trusted \cup {ctx[k].key},
                          ctx[k].trusted \ {ctx[k].key}} :
          /\ k \in Folded /\ k \in ContextIds /\ ctx[k].key # NoKey
          /\ ctx' = [ctx EXCEPT ![k] = [ctx[k] EXCEPT !.trusted = trusted]]
          /\ WriteFingerprints
          /\ last' = Nothing /\ UNCHANGED <<polling, timers, me, told>>
    BY <1>1, <1>2, <1>7 DEF CmdTrust, CmdUntrust, InContext
  <2> DEFINE d == [ctx[k] EXCEPT !.trusted = trusted]
  <2>2. Reliable(ctx[k], d, {"write_fingerprints"})
    BY <1>3, <2>1 DEF Reliable, TrustFrom, Sound, Contexts
  <2>3. Calls(k, {"write_fingerprints"})
    BY <2>1 DEF Calls
  <2> HIDE DEF d
  <2>4. StateInv' /\ TrustStep
    BY <2>1, <2>2, <2>3, CallsKeep DEF Inv, d
  <2>5. QED BY <2>1, <2>4, NothingLast DEF Inv
<1>8. QED
  BY <1>4, <1>5, <1>6, <1>7 DEF Command

LEMMA TimerEntrypointKeeps ==
  ASSUME Inv, NEW fired \in timers.pending, TimerEntrypoint(fired)
  PROVE  Inv' /\ TrustStep
<1> DEFINE ended == TimerFinished(timers, fired)
           waiting == \E k \in ContextIds : Polled(ctx[k]).commit # "none"
<1>1. /\ timers.active = TRUE /\ timers.interval = TRUE /\ polling = TRUE
      /\ fired = timers.id /\ timers.pending = {timers.id}
  BY DEF Inv, StateInv, TimerInv, OneTimer, Timers
<1>2. OneTimer(ended) /\ ended.interval = TRUE
  BY <1>1 DEF TimerFinished, Inv, StateInv, TimerInv, OneTimer, Timers
<1>3. \A k \in ContextIds :
        LET d == Polled(ctx[k])
        IN /\ Sound(d) /\ Fingerprints(d) = Fingerprints(ctx[k])
           /\ d.trusted = ctx[k].trusted /\ d.state = ctx[k].state
  BY DEF Polled, Sound, Contexts, Commits, Fingerprints, Inv, StateInv, ContextInv
<1>4. /\ ctx' = [k \in ContextIds |-> Polled(ctx[k])]
      /\ polling' = (polling /\ waiting)
      /\ timers' = Rescheduled(IF waiting THEN ended
                               ELSE TimerControl(ended, FALSE))
      /\ last' = Nothing /\ UNCHANGED <<file, me, told>>
  BY DEF TimerEntrypoint
<1> HIDE DEF ended
<1>5. ContextInv'
  <2>1. ctx' \in [ContextIds -> Contexts]
    BY <1>3, <1>4 DEF Sound
  <2>2. \A k \in ContextIds : Sound(ctx'[k])
    BY <1>3, <1>4
  <2>3. \A k \in ContextIds : Fingerprints(ctx'[k]) = Fingerprints(ctx[k])
    BY <1>3, <1>4
  <2>4. QED BY <1>4, <2>1, <2>2, <2>3 DEF Inv, StateInv, ContextInv
<1>6. TimerInv'
  <2>1. CASE waiting
    <3>1. polling' = TRUE /\ timers' = ScheduleTimer(ended)
      BY <1>1, <1>4, <2>1 DEF Rescheduled
    <3>2. OneTimer(timers') /\ timers'.interval = TRUE /\ timers'.active = TRUE
      BY <1>2, <3>1, ScheduledOnce
    <3>3. QED BY <3>1, <3>2 DEF TimerInv, OneTimer, Timers
  <2>2. CASE ~waiting
    <3>1. polling' = FALSE /\ timers' = ScheduleTimer(TimerControl(ended, FALSE))
      BY <1>4, <2>2 DEF Rescheduled
    <3>2. /\ OneTimer(TimerControl(ended, FALSE))
          /\ TimerControl(ended, FALSE).interval = FALSE
      BY <1>2, ControlledOnce
    <3>3. OneTimer(timers') /\ timers'.interval = FALSE /\ timers'.active = FALSE
      BY <3>1, <3>2, ScheduledOnce
    <3>4. \A k \in ContextIds : ctx'[k].commit = "none"
      BY <1>4, <2>2
    <3>5. QED BY <3>1, <3>3, <3>4 DEF TimerInv, OneTimer, Timers
  <2>3. QED BY <2>1, <2>2
<1>7. ToldInv'
  BY <1>3, <1>4 DEF Folded, Inv, StateInv, ToldInv
<1>8. TrustStep
  BY <1>3, <1>4 DEF TrustStep
<1>9. QED
  BY <1>4, <1>5, <1>6, <1>7, <1>8, NothingLast DEF Inv, StateInv

LEMMA ReloadKeeps ==
  ASSUME Inv, Reload
  PROVE  Inv' /\ TrustStep
<1>1. /\ ctx' = [k \in ContextIds |-> Restored(file[k])]
      /\ polling' = FALSE /\ timers' = NoTimers
      /\ told' = [p \in Pairs |-> IF told[p] = "secured" THEN "reloaded"
                                   ELSE told[p]]
      /\ last' = Nothing /\ UNCHANGED <<file, me>>
  BY DEF Reload
<1>2. \A k \in ContextIds :
        LET d == Restored(file[k])
        IN /\ Sound(d) /\ Fingerprints(d) = Fingerprints(ctx[k])
           /\ d.trusted = ctx[k].trusted /\ d.commit = "none"
  BY DEF Restored, Fingerprints, Sound, Contexts, Commits, SmpStates, Inv,
         StateInv, ContextInv
<1>3. ContextInv'
  <2>1. ctx' \in [ContextIds -> Contexts]
    BY <1>1, <1>2 DEF Sound
  <2>2. \A k \in ContextIds : Sound(ctx'[k])
    BY <1>1, <1>2
  <2>3. \A k \in ContextIds : Fingerprints(ctx'[k]) = Fingerprints(ctx[k])
    BY <1>1, <1>2
  <2>4. QED BY <1>1, <2>1, <2>2, <2>3 DEF Inv, StateInv, ContextInv
<1>4. TimerInv'
  <2>1. (CHOOSE i \in TimerIds : TRUE) \in TimerIds
    BY OtrAssumption
  <2>2. QED
    BY <1>1, <1>2, <2>1 DEF NoTimers, TimerInv, OneTimer, Timers
<1>5. ToldInv'
  <2>1. \A p \in Pairs : told'[p] \in {"nothing", "ended", "reloaded"}
    BY <1>1 DEF ToldInv, Inv, StateInv
  <2>2. \A k \in Folded : Pair(k) \in Pairs
    BY DEF Folded, Pairs
  <2>3. QED
    BY <1>1, <2>1, <2>2 DEF ToldInv, Inv, StateInv
<1>6. TrustStep
  BY <1>1, <1>2 DEF TrustStep
<1>7. QED
  BY <1>1, <1>3, <1>4, <1>5, <1>6, NothingLast DEF Inv, StateInv

LEMMA AgeKeeps ==
  ASSUME Inv, NEW k \in ContextIds, Age(k)
  PROVE  Inv' /\ TrustStep
<1> DEFINE d == [ctx[k] EXCEPT !.commit = "old"]
<1>1. /\ ctx[k].commit = "fresh" /\ ctx' = [ctx EXCEPT ![k] = d]
      /\ last' = Nothing /\ UNCHANGED <<polling, timers, file, me, told>>
  BY DEF Age, Inv, StateInv, ContextInv
<1>2. Reliable(ctx[k], d, {})
  BY <1>1 DEF Reliable, TrustFrom, Sound, Contexts, Commits, Fingerprints, Inv,
              StateInv, ContextInv
<1>3. Calls(k, {})
  BY <1>1 DEF Calls
<1> HIDE DEF d
<1>4. StateInv' /\ TrustStep
  BY <1>1, <1>2, <1>3, CallsKeep DEF Inv
<1>5. QED
  BY <1>1, <1>4, NothingLast DEF Inv

LEMMA RenamedKeeps ==
  ASSUME Inv, NEW nick \in Mine \cup {NoNick}, Renamed(nick)
  PROVE  Inv' /\ TrustStep
BY NothingLast
   DEF Renamed, Inv, StateInv, ContextInv, TimerInv, ToldInv, OneTimer, TrustStep

LEMMA InvNext == Inv /\ [Next]_vars => Inv' /\ TrustStep
<1> SUFFICES ASSUME Inv, [Next]_vars
             PROVE  Inv' /\ TrustStep
  OBVIOUS
<1>1. CASE PassedOver
  <2>1. Showing(TRUE, 1) \/ Showing(FALSE, 0)
    BY <1>1 DEF PassedOver
  <2>2. LastInv'
    BY <2>1, ShowingLast DEF Count
  <2>3. QED BY <1>1, <2>2, UnchangedKeeps DEF PassedOver, Inv
<1>2. CASE \E target \in Mine, sender \in Peers, kind \in Kinds :
             /\ me # NoNick /\ target.nick = me.nick
             /\ ProcessPrivmsg(target, sender, kind)
  BY <1>2, ProcessPrivmsgKeeps
<1>3. CASE \E target \in Peers, query \in BOOLEAN : Chat(target, query)
  BY <1>3, ChatKeeps
<1>4. CASE \E target \in Peers : Command(target)
  BY <1>4, CommandKeeps
<1>5. CASE \E fired \in timers.pending : TimerEntrypoint(fired)
  BY <1>5, TimerEntrypointKeeps
<1>6. CASE Reload
  BY <1>6, ReloadKeeps
<1>7. CASE \E k \in ContextIds : Age(k)
  BY <1>7, AgeKeeps
<1>8. CASE \E nick \in Mine \cup {NoNick} : Renamed(nick)
  BY <1>8, RenamedKeeps
<1>9. CASE UNCHANGED vars
  <2>1. LastInv'
    BY <1>9 DEF vars, Inv, LastInv, NoClearAfterSecured, DeliveredOnce
  <2>2. QED BY <1>9, <2>1, UnchangedKeeps DEF vars, Inv
<1>10. QED
  BY <1>1, <1>2, <1>3, <1>4, <1>5, <1>6, <1>7, <1>8, <1>9 DEF Next

LEMMA InvAlways == Spec => []Inv
BY InvInit, InvNext, PTL DEF Spec

(***************************************************************************)
(* Theorems.                                                               *)
(***************************************************************************)

\* The extension's variables keep their types, for all names, keys and ids.
THEOREM TypeCorrect == Spec => []TypeOK
<1>1. Inv => TypeOK
  <2> SUFFICES ASSUME Inv PROVE TypeOK
    OBVIOUS
  <2>1. file \in [ContextIds -> [known : SUBSET Keys, trusted : SUBSET Keys]]
    BY DEF Inv, StateInv, ContextInv, Fingerprints, Contexts
  <2>2. QED
    BY <2>1 DEF Inv, StateInv, ContextInv, TimerInv, OneTimer, Timers, ToldInv,
                LastInv, TypeOK
<1>2. QED
  BY <1>1, InvAlways, PTL

\* schedule_timer keeps one timer while libotr has keys to wipe, and none else.
THEOREM TimerIsKept == Spec => []TimerKept
<1>1. Inv => TimerKept
  BY DEF Inv, StateInv, TimerInv, OneTimer, TimerKept
<1>2. QED
  BY <1>1, InvAlways, PTL

\* No line leaves in the clear from a conversation announced as secured, before
\* the user ends it or reloads the extension.
THEOREM NothingClearAfterSecured == Spec => []NoClearAfterSecured
<1>1. Inv => NoClearAfterSecured
  BY DEF Inv, LastInv
<1>2. QED
  BY <1>1, InvAlways, PTL

\* Every text is read once and every line leaves once or is reported.
THEOREM EveryTextOnce == Spec => []DeliveredOnce
<1>1. Inv => DeliveredOnce
  BY DEF Inv, LastInv
<1>2. QED
  BY <1>1, InvAlways, PTL

\* Trust changes in a session with the holder of the key only, also over a
\* reload.
THEOREM TrustIsKept == Spec => TrustKept
<1>1. Inv /\ [Next]_vars =>
        [\A k \in ContextIds :
           ctx'[k].trusted # ctx[k].trusted =>
             /\ ctx[k].key # NoKey /\ ctx'[k].key = ctx[k].key
             /\ ctx'[k].trusted \ {ctx[k].key} = ctx[k].trusted \ {ctx[k].key}
        ]_vars
  BY InvNext DEF TrustStep
<1>2. QED
  BY <1>1, InvAlways, PTL DEF Spec, TrustKept
=============================================================================
