-------------------------------- MODULE Otr ---------------------------------
(***************************************************************************)
(* The OTR extension (otr-extension/glirc-otr.cpp and OTR.cpp) between the *)
(* client, which calls its entry points one at a time, and libotr          *)
(* (Libotr), which calls the functions of its table ops.  One network; the *)
(* fingerprint file can be written.                                        *)
(*                                                                         *)
(* A name is a nick and whether it is spelled as normalizeCase would.      *)
(* The client's timer ids are only compared, so any unused one is new.     *)
(***************************************************************************)
EXTENDS Libotr

CONSTANTS
  Mine,      \* names we may have: [nick, folded]
  Peers,     \* names others may have
  NoNick,    \* glirc_my_nick without a connection
  TimerIds   \* what glirc_set_timer returns

\* normalizeCase
NormalizeCase(name) == [nick |-> name.nick, folded |-> TRUE]

ASSUME OtrAssumption ==
  /\ \A name \in Mine \cup Peers :
       name = [nick |-> name.nick, folded |-> name.folded]
  /\ \A name \in Mine : NormalizeCase(name) \in Mine
  /\ \A name \in Peers : NormalizeCase(name) \in Peers
  /\ NoNick \notin Mine
  /\ TimerIds # {}
  /\ \A i, j \in TimerIds : TimerIds \ {i, j} # {}

VARIABLES
  ctx,      \* libotr's contexts, by account and user name
  polling,  \* libotr asked for timer_control and did not end it
  timers,   \* OpData's timer fields, and the client's pending timers
  file,     \* fingerprints on disk, by account and user name
  me,       \* our nick as the client knows it
  told,     \* history: what the user last read about each conversation, and
            \* whether the extension was reloaded since
  last      \* the last entry point: what it let through and showed

vars == <<ctx, polling, timers, file, me, told, last>>

ContextIds == [account : Mine, user : Peers]

ContextId(account, user) == [account |-> account, user |-> user]

\* The conversation of two people, however they are spelled.
Pair(k) == [mine |-> k.account.nick, peer |-> k.user.nick]
Pairs == {Pair(k) : k \in ContextIds}

Nothing == [what |-> "other", human |-> FALSE, shown |-> 0, sent |-> {},
            noticed |-> FALSE, secured |-> FALSE]

NoTimers == [active |-> FALSE, interval |-> FALSE,
             id |-> CHOOSE i \in TimerIds : TRUE, pending |-> {}]

\* start_entrypoint with an empty fingerprint file.
Init ==
  /\ file = [k \in ContextIds |-> [known |-> {}, trusted |-> {}]]
  /\ ctx = [k \in ContextIds |-> Restored(file[k])]
  /\ polling = FALSE /\ timers = NoTimers
  /\ me = NoNick
  /\ told = [p \in Pairs |-> "nothing"]
  /\ last = Nothing

(***************************************************************************)
(* OpData's timer.                                                         *)
(***************************************************************************)

\* schedule_timer
ScheduleTimer(t) ==
  LET left == IF t.active THEN t.pending \ {t.id} ELSE t.pending
      i == CHOOSE i \in TimerIds \ (t.pending \cup {t.id}) : TRUE
  IN IF t.interval
     THEN [t EXCEPT !.active = TRUE, !.id = i, !.pending = left \cup {i}]
     ELSE [t EXCEPT !.active = FALSE, !.pending = left]

\* Mutant of TimerControl: an interval of zero is ignored.
TimerControlStarts(t, interval) ==
  IF interval THEN ScheduleTimer([t EXCEPT !.interval = TRUE]) ELSE t

\* timer_control
TimerControl(t, interval) == ScheduleTimer([t EXCEPT !.interval = interval])

\* timer_finished, of a timer the client has taken from its queue
TimerFinished(t, fired) == [t EXCEPT !.active = FALSE, !.pending = @ \ {fired}]

\* Mutant of Rescheduled: the poll is not followed by another.
NotRescheduled(t) == t

\* The end of timer_entrypoint.
Rescheduled(t) == ScheduleTimer(t)

(***************************************************************************)
(* The functions libotr calls while it works on context k: what the user   *)
(* is told (gone_secure), the file (write_fingerprints) and the timer,     *)
(* which libotr asks for once.                                             *)
(***************************************************************************)

\* write_fingerprints, and the commands that write them.
WriteFingerprints == file' = [k \in ContextIds |-> Fingerprints(ctx'[k])]

Calls(k, calls) ==
  /\ told' = IF "gone_secure" \in calls
             THEN [told EXCEPT ![Pair(k)] = "secured"] ELSE told
  /\ IF "write_fingerprints" \in calls THEN WriteFingerprints
     ELSE UNCHANGED file
  /\ IF "timer_control" \in calls /\ ~polling
     THEN polling' = TRUE /\ timers' = TimerControl(timers, TRUE)
     ELSE UNCHANGED <<polling, timers>>

(***************************************************************************)
(* message_entrypoint                                                      *)
(***************************************************************************)

\* Is there a text for the user in it?  Shown: how often the user reads it.
Showing(human, shown) ==
  last' = [Nothing EXCEPT !.what = "received", !.human = human,
                          !.shown = shown]

\* Not a PRIVMSG of two parameters, or one to a channel: the client shows it.
\* In a batch only what is not OTR's is shown.
PassedOver ==
  /\ Showing(TRUE, 1) \/ Showing(FALSE, 0)
  /\ UNCHANGED <<ctx, polling, timers, file, me, told>>

\* Mutant of Drops: what libotr rewrote is shown beside what was received.
DropsInternal(r) == r.internal

\* DROP_MESSAGE
Drops(r) == r.internal \/ r.newmsg

Count(b) == IF b THEN 1 ELSE 0

\* process_privmsg: a line from sender to us, as the server spells both.
ProcessPrivmsg(target, sender, kind) ==
  LET k == ContextId(NormalizeCase(target), NormalizeCase(sender))
  IN \E r \in Receiving(ctx[k], kind) :
       /\ ctx' = [ctx EXCEPT ![k] = r.context]
       /\ Calls(k, r.calls)
       /\ Showing(kind \in {"plain", "tagged"} \/ (kind = "text" /\ ~r.internal),
                  Count(~Drops(r)) + Count(r.newmsg /\ ~r.internal)
                  + Count("text_event" \in r.calls))
       /\ UNCHANGED me

(***************************************************************************)
(* chat_entrypoint: the client sends the line itself if it may pass.       *)
(***************************************************************************)

\* Mutant of Allows: an encryption error is not looked at.
AllowsErrors(s) == ~s.newmsg

\* PASS_MESSAGE
Allows(s) == ~(s.err \/ s.newmsg)

Chat(target, query) ==
  /\ me # NoNick
  /\ LET k == ContextId(NormalizeCase(me), NormalizeCase(target))
     IN \E s \in Sending(ctx[k], query) :
          /\ last' = [what |-> "chat", human |-> ~query, shown |-> 0,
                      sent |-> (IF Allows(s) THEN {"clear"} ELSE {})
                               \cup (IF "inject" \in s.calls THEN {"injected"}
                                     ELSE {}),
                      noticed |-> "event" \in s.calls \/ s.err,
                      secured |-> told[Pair(k)] = "secured"]
          /\ Calls(k, s.calls)
  /\ UNCHANGED <<ctx, me>>

(***************************************************************************)
(* command_entrypoint, in the window of target.                            *)
(***************************************************************************)

\* get_current_context
CurrentContext(target) == ContextId(NormalizeCase(me), NormalizeCase(target))

\* A command that changes context k; what it writes or says comes with it.
InContext(k, c) ==
  /\ ctx' = [ctx EXCEPT ![k] = c]
  /\ last' = Nothing
  /\ UNCHANGED <<polling, timers, me>>

\* cmd_end
CmdEnd(target) ==
  /\ me # NoNick
  /\ LET k == ContextId(NormalizeCase(me), NormalizeCase(target))
     IN /\ InContext(k, Forced(ctx[k], "plaintext"))
        /\ told' = [told EXCEPT ![Pair(k)] = "ended"]
  /\ UNCHANGED file

\* cmd_ask: only in a session
CmdAsk(target) ==
  /\ me # NoNick
  /\ LET k == CurrentContext(target)
     IN /\ ctx[k].state = "encrypted"
        /\ InContext(k, [ctx[k] EXCEPT !.smp = "exchange"])
  /\ UNCHANGED <<file, told>>

\* cmd_start, cmd_secret (only once an exchange has made the secret's place)
\* and what only prints: libotr's contexts stay as they are.
CmdWithoutEffect ==
  /\ last' = Nothing
  /\ UNCHANGED <<ctx, polling, timers, file, me, told>>

\* cmd_trust
CmdTrust(target) ==
  /\ me # NoNick
  /\ LET k == CurrentContext(target)
     IN /\ ctx[k].key # NoKey
        /\ InContext(k, [ctx[k] EXCEPT !.trusted = @ \cup {ctx[k].key}])
        /\ WriteFingerprints
  /\ UNCHANGED told

\* Mutant of CmdUntrust: the file is not written.
CmdUntrustInMemory(target) ==
  /\ me # NoNick
  /\ LET k == CurrentContext(target)
     IN /\ ctx[k].key # NoKey
        /\ InContext(k, [ctx[k] EXCEPT !.trusted = @ \ {ctx[k].key}])
  /\ UNCHANGED <<file, told>>

\* cmd_untrust
CmdUntrust(target) ==
  /\ me # NoNick
  /\ LET k == CurrentContext(target)
     IN /\ ctx[k].key # NoKey
        /\ InContext(k, [ctx[k] EXCEPT !.trusted = @ \ {ctx[k].key}])
        /\ WriteFingerprints
  /\ UNCHANGED told

Command(target) ==
  \/ CmdEnd(target) \/ CmdAsk(target) \/ CmdWithoutEffect
  \/ CmdTrust(target) \/ CmdUntrust(target)

(***************************************************************************)
(* timer_entrypoint, reload, and the world.                                *)
(***************************************************************************)

TimerEntrypoint(fired) ==
  LET ended == TimerFinished(timers, fired)
      waiting == \E k \in ContextIds : Polled(ctx[k]).commit # "none"
  IN /\ fired \in timers.pending
     /\ ctx' = [k \in ContextIds |-> Polled(ctx[k])]
     /\ polling' = (polling /\ waiting)
     /\ timers' = Rescheduled(IF waiting THEN ended
                              ELSE TimerControl(ended, FALSE))
     /\ last' = Nothing
     /\ UNCHANGED <<file, me, told>>

\* stop_entrypoint and start_entrypoint: the client forgets the extension's
\* timers and libotr its contexts.  Neither the peers nor the user are told:
\* what the user read last is still that the conversation is secured.
Reload ==
  /\ ctx' = [k \in ContextIds |-> Restored(file[k])]
  /\ polling' = FALSE /\ timers' = NoTimers
  /\ told' = [p \in Pairs |-> IF told[p] = "secured" THEN "reloaded" ELSE told[p]]
  /\ last' = Nothing
  /\ UNCHANGED <<file, me>>

\* A commit has waited longer than libotr keeps its key.
Age(k) ==
  /\ ctx[k].commit = "fresh"
  /\ ctx' = [ctx EXCEPT ![k].commit = "old"]
  /\ last' = Nothing
  /\ UNCHANGED <<polling, timers, file, me, told>>

\* We connect, are renamed or disconnect.
Renamed(nick) ==
  /\ nick # me
  /\ me' = nick
  /\ last' = Nothing
  /\ UNCHANGED <<ctx, polling, timers, file, told>>

Next ==
  \/ PassedOver
  \/ \E target \in Mine, sender \in Peers, kind \in Kinds :
       /\ me # NoNick /\ target.nick = me.nick
       /\ ProcessPrivmsg(target, sender, kind)
  \/ \E target \in Peers, query \in BOOLEAN : Chat(target, query)
  \/ \E target \in Peers : Command(target)
  \/ \E fired \in timers.pending : TimerEntrypoint(fired)
  \/ Reload
  \/ \E k \in ContextIds : Age(k)
  \/ \E nick \in Mine \cup {NoNick} : Renamed(nick)

Spec == Init /\ [][Next]_vars

\* The client calls a timer that is due.
FairSpec ==
  Spec /\ WF_vars(\E fired \in timers.pending : TimerEntrypoint(fired))

(***************************************************************************)
(* Properties.                                                             *)
(***************************************************************************)

TypeOK ==
  /\ ctx \in [ContextIds -> Contexts]
  /\ polling \in BOOLEAN
  /\ timers \in [active : BOOLEAN, interval : BOOLEAN, id : TimerIds,
                 pending : SUBSET TimerIds]
  /\ file \in [ContextIds -> [known : SUBSET Keys, trusted : SUBSET Keys]]
  /\ me \in Mine \cup {NoNick}
  /\ told \in [Pairs -> {"nothing", "secured", "ended", "reloaded"}]
  /\ last \in [what : {"other", "received", "chat"}, human : BOOLEAN,
               shown : 0 .. 3, sent : SUBSET {"clear", "injected"},
               noticed : BOOLEAN, secured : BOOLEAN]

\* A private key that waits for its answer has a poll coming, nothing is polled
\* otherwise, and the client never holds a timer of ours we do not know:
\* schedule_timer, the poll inside the timer's own callback and libotr's
\* requests neither lose the timer nor leave a second one.
TimerKept ==
  /\ (\E k \in ContextIds : ctx[k].commit # "none") => polling
  /\ polling = timers.active
  /\ timers.pending = IF timers.active THEN {timers.id} ELSE {}

AnyOld == \E k \in ContextIds : ctx[k].commit = "old"

\* The keys of proposals nobody answered are wiped in time, all of them.
KeysWiped == AnyOld ~> ~AnyOld

\* Trust in a fingerprint is given and taken in a session with its holder,
\* and a reload brings back what it was: nothing revoked returns.
TrustKept ==
  [][\A k \in ContextIds :
       ctx'[k].trusted # ctx[k].trusted =>
         /\ ctx[k].key # NoKey /\ ctx'[k].key = ctx[k].key
         /\ ctx'[k].trusted \ {ctx[k].key} = ctx[k].trusted \ {ctx[k].key}
    ]_vars

\* Once the user reads that a conversation is secured, no line leaves in the
\* clear until the user has ended it or reloaded the extension: not after the
\* peer hung up, not after an encryption error, however the names are spelled.
\* After a reload lines do leave in the clear, though nothing new was read.
NoClearAfterSecured == last.secured => "clear" \notin last.sent

\* Every text is delivered once: one received is read once and protocol
\* messages are not read at all; a line typed leaves once, or the user is told
\* that it did not.
DeliveredOnce ==
  /\ last.what = "received" => last.shown = Count(last.human)
  /\ last.what = "chat" =>
       \/ \E how \in {"clear", "injected"} : last.sent = {how}
       \/ last.sent = {} /\ last.noticed
=============================================================================
