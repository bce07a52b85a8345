--------------------------- MODULE HappyEyeballs ----------------------------
(***************************************************************************)
(* Hookup.Concurrent: concurrentAttempts as openSocket' calls it.  The     *)
(* addresses are tried in order, a new one whenever the delay has passed   *)
(* or nothing is running; the first success is the answer, and a forked    *)
(* cleanup thread cancels the other attempts and closes what they opened.  *)
(* The caller runs masked: an exception (an aborted connection) reaches it *)
(* only while it is blocked in waitForEvent.                               *)
(***************************************************************************)
EXTENDS Naturals

CONSTANT N   \* addresses to try

ASSUME NAssumption == N \in Nat

VARIABLES
  started,     \* how many attempts have been started
  attempt,     \* what each attempt's thread has come to
  threads,     \* the attempts whose result is still awaited
  timer,       \* readySTM: "retry", "running" or "ready"
  answer,      \* what concurrentAttempts returned, or how it ended
  chosen,      \* the attempt whose socket it returned, 0 before
  cancelling,  \* attempts the cleanup thread has yet to cancel
  releasing,   \* attempts it waits for, to release their sockets
  released     \* sockets closed by it

loopVars    == <<started, threads, timer, answer, chosen>>
cleanupVars == <<cancelling, releasing, released>>
dialVars == <<loopVars, attempt, cleanupVars>>

Attempts == 1 .. N

DialTypeOK ==
  /\ started \in 0 .. N
  /\ attempt \in [Attempts -> {"waiting", "connecting", "succeeded", "failed"}]
  /\ \A k \in Attempts : attempt[k] = "waiting" <=> k > started
  /\ threads \subseteq 1 .. started
  /\ timer \in {"retry", "running", "ready"}
  /\ answer \in {"pending", "socket", "errors", "aborted"} /\ chosen \in 0 .. N
  /\ cancelling \subseteq releasing /\ releasing \subseteq Attempts
  /\ released \subseteq {k \in Attempts : attempt[k] = "succeeded"}

DialInit ==
  /\ started = 0 /\ attempt = [k \in Attempts |-> "waiting"] /\ threads = {}
  /\ timer = "retry" /\ answer = "pending" /\ chosen = 0
  /\ cancelling = {} /\ releasing = {} /\ released = {}

Ended(k) == attempt[k] \in {"succeeded", "failed"}

(***************************************************************************)
(* The attempts: connectToAddrInfo closes its socket when it fails.        *)
(***************************************************************************)
Connects(k) ==
  /\ attempt[k] = "connecting"
  /\ attempt' = [attempt EXCEPT ![k] = "succeeded"]
  /\ UNCHANGED <<loopVars, cleanupVars>>

Fails(k) ==
  /\ attempt[k] = "connecting"
  /\ attempt' = [attempt EXCEPT ![k] = "failed"]
  /\ UNCHANGED <<loopVars, cleanupVars>>

TimerFires ==
  /\ timer = "running"
  /\ timer' = "ready"
  /\ UNCHANGED <<started, threads, answer, chosen, attempt, cleanupVars>>

(***************************************************************************)
(* The loop.                                                               *)
(***************************************************************************)
\* Mutant of Start: no timer is started.
StartUntimed ==
  /\ started' = started + 1
  /\ attempt' = [attempt EXCEPT ![started'] = "connecting"]
  /\ threads' = threads \cup {started'}
  /\ timer' = "retry"
  /\ UNCHANGED <<answer, chosen, cleanupVars>>

\* start: the last attempt needs no timer.
Start ==
  /\ started' = started + 1
  /\ attempt' = [attempt EXCEPT ![started'] = "connecting"]
  /\ threads' = threads \cup {started'}
  /\ timer' = IF started' = N THEN "retry" ELSE "running"
  /\ UNCHANGED <<answer, chosen, cleanupVars>>

NothingRunning ==
  /\ answer = "pending" /\ threads = {}
  /\ \/ started < N /\ Start
     \/ /\ started = N /\ answer' = "errors"
        /\ UNCHANGED <<started, threads, timer, chosen, attempt, cleanupVars>>

\* Mutant of Cleanup: the answer's own socket is released too.
CleanupOfAll(others) ==
  cancelling' = others /\ releasing' = 1 .. started /\ UNCHANGED released

\* Mutant of Cleanup: the attempts are not waited for.
CleanupCancelsOnly(others) == cancelling' = others /\ UNCHANGED <<releasing, released>>

Cleanup(others) ==
  cancelling' = others /\ releasing' = others /\ UNCHANGED released

\* Mutant of Finish1: with an attempt failed the whole connection has.
Finish1GivesUp(k) ==
  /\ answer = "pending" /\ k \in threads /\ Ended(k)
  /\ threads' = threads \ {k}
  /\ answer' = IF attempt[k] = "succeeded" THEN "socket" ELSE "errors"
  /\ chosen' = IF attempt[k] = "succeeded" THEN k ELSE 0
  /\ Cleanup(threads')
  /\ UNCHANGED <<started, timer, attempt>>

Finish1(k) ==
  /\ answer = "pending" /\ k \in threads /\ Ended(k)
  /\ threads' = threads \ {k}
  /\ \/ /\ attempt[k] = "succeeded"
        /\ answer' = "socket" /\ chosen' = k /\ Cleanup(threads')
     \/ /\ attempt[k] = "failed"
        /\ UNCHANGED <<answer, chosen, cleanupVars>>
  /\ UNCHANGED <<started, timer, attempt>>

\* An attempt that ended goes before the timer.
WaitingForEvent == answer = "pending" /\ threads # {} /\ \A k \in threads : ~Ended(k)

Fresh == WaitingForEvent /\ timer = "ready" /\ started < N /\ Start

\* An exception interrupts the blocked transaction.
Interrupted ==
  /\ WaitingForEvent /\ ~(timer = "ready" /\ started < N)
  /\ answer' = "aborted" /\ Cleanup(threads)
  /\ UNCHANGED <<started, threads, timer, chosen, attempt>>

(***************************************************************************)
(* The cleanup thread: throwTo every attempt, then waitCatch and release.  *)
(***************************************************************************)
Cancel(k) ==
  /\ k \in cancelling
  /\ cancelling' = cancelling \ {k}
  /\ attempt' = IF Ended(k) THEN attempt ELSE [attempt EXCEPT ![k] = "failed"]
  /\ UNCHANGED <<loopVars, releasing, released>>

Release(k) ==
  /\ cancelling = {} /\ k \in releasing /\ Ended(k)
  /\ releasing' = releasing \ {k}
  /\ released' = IF attempt[k] = "succeeded" THEN released \cup {k} ELSE released
  /\ UNCHANGED <<loopVars, attempt, cancelling>>

Loop == NothingRunning \/ Fresh \/ \E k \in Attempts : Finish1(k)
CleanupThread == \E k \in Attempts : Cancel(k) \/ Release(k)

DialNext ==
  \/ Loop \/ TimerFires \/ Interrupted \/ CleanupThread
  \/ \E k \in Attempts : Connects(k) \/ Fails(k)

DialSpec == DialInit /\ [][DialNext]_dialVars

\* Runnable threads run and timers expire; a connection attempt may hang.
DialFairSpec ==
  /\ DialSpec
  /\ WF_dialVars(Loop) /\ WF_dialVars(TimerFires)
  /\ \A k \in Attempts : WF_dialVars(Cancel(k)) /\ WF_dialVars(Release(k))

(***************************************************************************)
(* Properties.                                                             *)
(***************************************************************************)
Open(k) == attempt[k] = "connecting" \/ (attempt[k] = "succeeded" /\ k \notin released)

\* The socket handed to the caller is one that connected, and stays open
\* whatever the cleanup thread does.
AnswerIsOpen == answer = "socket" => attempt[chosen] = "succeeded" /\ Open(chosen)

\* "Concurrently run actions until one succeeds or all fail": the errors are
\* returned only when every address was tried and none has a socket left.
ErrorsComplete == answer = "errors" => \A k \in Attempts : attempt[k] = "failed"

\* Once the cleanup thread is done, no socket but the one returned is left open
\* and no attempt runs on to open one: nothing is leaked by the answer, the
\* failure or the abort.
NothingLeaks ==
  answer # "pending" /\ releasing = {} => \A k \in Attempts : Open(k) => k = chosen

\* "release unneeded success": once the caller has its answer or was aborted,
\* every other socket is closed, also one that connected as it was cancelled.
OthersClosed ==
  answer # "pending" ~> \A k \in Attempts : Open(k) => k = chosen

\* An address that neither answers nor fails does not keep the others from
\* being tried, nor a connection that was made from ending the wait.
EveryAddressTried ==
  \A k \in Attempts :
    /\ <>(attempt[k] # "waiting" \/ answer # "pending")
    /\ attempt[k] = "succeeded" ~> answer # "pending"
=============================================================================
