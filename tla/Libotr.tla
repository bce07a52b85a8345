------------------------------ MODULE Libotr --------------------------------
(***************************************************************************)
(* What libotr promises the OTR extension: how one context (a conversation *)
(* of one of our names with one of a peer's) answers the calls the         *)
(* extension makes.  libotr is not part of the repository; each operator   *)
(* is the set of results a call may have, and the cryptography decides     *)
(* which.  A result names the functions of OtrlMessageAppOps libotr calls. *)
(***************************************************************************)
EXTENDS Integers

CONSTANTS
  Keys,   \* peers' public keys (fingerprints)
  NoKey   \* no fingerprint is active

ASSUME LibotrAssumption == NoKey \notin Keys

Commits == {"none", "fresh", "old"}

\* An exchange of secrets: one we started or were asked for, or the peer's
\* question to which we only answer.
SmpStates == {"none", "exchange", "question"}

\* commit: the D-H commit we wait for an answer to, and whether it is older
\* than libotr keeps its private key; key: active_fingerprint.
Contexts ==
  [state : {"plaintext", "encrypted", "finished"}, commit : Commits,
   smp : SmpStates, key : Keys \cup {NoKey},
   known : SUBSET Keys, trusted : SUBSET Keys]

Ops == {"inject", "event", "text_event", "smp_event", "gone_secure",
        "still_secure", "new_fingerprint", "write_fingerprints",
        "timer_control"}

\* otrl_privkey_read_fingerprints into an empty context.
Restored(f) ==
  [state |-> "plaintext", commit |-> "none", smp |-> "none", key |-> NoKey,
   known |-> f.known, trusted |-> f.trusted]

Fingerprints(c) == [known |-> c.known, trusted |-> c.trusted]

\* A D-H commit is sent to the peer.
Proposed(c) == [c EXCEPT !.commit = "fresh"]
Proposal == {"inject", "timer_control"}

\* otrl_context_force_plaintext, otrl_context_force_finished
Forced(c, state) == [c EXCEPT !.state = state, !.smp = "none", !.key = NoKey]

(***************************************************************************)
(* otrl_message_receiving: "internal" has nothing to show, "newmsg"        *)
(* replaces what was received.                                             *)
(***************************************************************************)
Received(c, internal, newmsg, calls) ==
  [context |-> c, internal |-> internal, newmsg |-> newmsg, calls |-> calls]

Internal(c, calls) == Received(c, TRUE, FALSE, calls)

\* The key exchange ends with a peer that holds key x.
Secured(c, x, commit) ==
  Internal([c EXCEPT !.state = "encrypted", !.key = x, !.commit = commit,
                     !.known = @ \cup {x},
                     !.smp = IF c.state = "encrypted" THEN @ ELSE "none"],
           (IF c.state = "encrypted" /\ c.key = x THEN {"still_secure"}
            ELSE {"gone_secure"})
           \cup (IF x \in c.known THEN {}
                 ELSE {"new_fingerprint", "write_fingerprints"}))

\* The exchange of secrets ends.  The peer alone asks itself a question.
Verified(c, success) ==
  IF c.smp = "question"
  THEN Internal([c EXCEPT !.smp = "none"], {"smp_event"})
  ELSE Internal([c EXCEPT !.smp = "none",
                          !.trusted = IF success THEN @ \cup {c.key}
                                      ELSE @ \ {c.key}],
                {"smp_event", "write_fingerprints"})

\* What is inside the data messages of a session.
InData(c, kind) ==
  CASE kind = "text" -> {Received(c, FALSE, TRUE, {}), Internal(c, {"event"})}
    [] kind = "heartbeat" -> {Internal(c, {})}
    [] kind = "bye" -> {Internal(Forced(c, "finished"), {})}
    [] kind = "smp_ask" ->
         IF c.smp = "none"
         THEN {Internal([c EXCEPT !.smp = how], {"smp_event"}) :
                 how \in {"exchange", "question"}}
         ELSE {Internal([c EXCEPT !.smp = "none"], {"smp_event", "inject"})}
    [] kind = "smp_end" ->
         IF c.smp = "none" THEN {Internal(c, {"smp_event"})}
         ELSE {Verified(c, success) : success \in BOOLEAN}
              \cup {Internal([c EXCEPT !.smp = "none"], {"smp_event"})}

DataKinds == {"text", "heartbeat", "bye", "smp_ask", "smp_end"}
Kinds == DataKinds \cup {"plain", "tagged", "query", "error", "ake", "part"}

Receiving(c, kind) ==
  CASE kind = "plain" ->
         IF c.state = "plaintext" THEN {Received(c, FALSE, FALSE, {})}
         ELSE {Internal(c, {"text_event"})}
    [] kind = "tagged" ->
         IF c.state = "plaintext"
         THEN {Received(c, FALSE, TRUE, {}),
               Received(Proposed(c), FALSE, TRUE, Proposal)}
         ELSE {Internal(c, {"text_event"}),
               Internal(Proposed(c), Proposal \cup {"text_event"})}
    [] kind = "query" -> {Internal(c, {}), Internal(Proposed(c), Proposal)}
    [] kind = "error" -> {Internal(c, {"event"}),
                          Internal(Proposed(c), Proposal \cup {"event"})}
    [] kind = "ake" -> {Internal(c, {"inject"})}
                       \cup UNION {{Secured(c, x, c.commit),
                                    Secured(c, x, "none")} : x \in Keys}
    [] kind = "part" -> {Internal(c, {})}
    [] kind \in DataKinds ->
         IF c.state = "encrypted" THEN InData(c, kind)
         ELSE {Internal(c, {"event"})}

(***************************************************************************)
(* otrl_message_sending                                                    *)
(***************************************************************************)
Sent(err, newmsg, calls) == [err |-> err, newmsg |-> newmsg, calls |-> calls]

Sending(c, query) ==
  IF query THEN {Sent(FALSE, TRUE, {"inject"})}
  ELSE CASE c.state = "plaintext" -> {Sent(FALSE, FALSE, {})}
         [] c.state = "encrypted" -> {Sent(FALSE, TRUE, {"inject"}),
                                      Sent(TRUE, FALSE, {"event"})}
         [] c.state = "finished" -> {Sent(FALSE, TRUE, {"event"})}

\* otrl_message_poll, for one context: keys waited for too long are wiped.
Polled(c) == IF c.commit = "old" THEN [c EXCEPT !.commit = "none"] ELSE c
=============================================================================
