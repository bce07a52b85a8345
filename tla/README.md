# Verification of glirc

TLA+ models of glirc (this repository: the IRC client in `src/Client`, its
socket library `hookup`, its protocol library `lib`, the Lua and OTR extensions
in `lua-extension` and `otr-extension`), TLC configurations that
check them on small instances, and TLAPS proofs for every instance. Paths below
are relative to the repository root.

| abbreviation | file |
|---|---|
| Async | `src/Client/Network/Async.hs` |
| EL | `src/Client/EventLoop.hs` |
| ELN | `src/Client/EventLoop/Network.hs` |
| State | `src/Client/State.hs` |
| NS | `src/Client/State/Network.hs` |
| Hookup, HC | `hookup/src/Hookup.hs`, `hookup/src/Hookup/Concurrent.hs` |
| Ext, CApi | `src/Client/State/Extensions.hs`, `src/Client/CApi.hs` and `src/Client/CApi/Exports.hs` |
| Lua | `lua-extension/glirc-lua.c`, `glirc-lib.c`, `glirc-thread.c` |
| OTR | `otr-extension/glirc-otr.cpp`, `OTR.cpp` |

## 1. Inventory

glirc is one event-loop thread that owns the whole client state, plus a few
threads per connection that talk to it through STM queues.

| component | state it keeps | operations | hard behaviour | what makes it correct |
|---|---|---|---|---|
| network connection (Async) | supervisor, receive and send loops, reporter; `connInQueue`, `connOutQueue`, `connUpgrade` | create, send, recv, upgrade, abort | the owner's calls against every step of the supervisor; children that outlive it; STARTTLS | nothing secret in the clear, one last event, an abort is answered, upgrade returns |
| event loop (EL) | the batch being folded, the network's restriction in `csPingStatus` | getEvent, doNetworkOpen/TLS/Line/Close/Error | events tagged with a name, handled after the name was given away; lines from before the handshake | every event meets its own connection; no plaintext line in a TLS session |
| network table (State, ELN) | `clientConnections`, STS policies | addConnection, removeNetwork, abortNetwork, STS upgrade, reconnect-error, connect-cmds, reconnection | replacement in the middle of a batch, retry counts that survive the connection | no missing network, no orphan, bounded rows of reconnections |
| ping timer (NS, EL) | `csNextPingTime`, `csPingStatus`, `csLastReceived` | nextPingAction, applyTimedAction, doPong, doWelcome | timer against queued lines, late PONGs, a busy loop | silence is detected, no false timeout |
| session (NS, `State/Channel.hs`) | `csNick`, `csChannels`, `csUsers`, `csTransaction` | applyMessage for every message and reply | replies to queries overlap with joins, parts, nicks; one transaction slot | the client's view is the server's once everything was read |
| connection establishment (HC) | running attempts, timer, cleanup thread | start, finish, time out, cancel, release | several attempts succeed, cancellation races success | one socket returned, every other one closed, no address starved |
| registration and SASL (NS, ELN, `Authentication/*`) | `csAuthenticationState`, the CAP LS transaction, the nickname tried | CAP LS/ACK/NAK/NEW/DEL, AUTHENTICATE, 43x, 90x, the ecdsatool process | answers split, late or garbled; `CAP END` sent by several handlers; SASL after the welcome | nobody is welcomed while his login is open; every negotiation and login ends |
| windows and focus (State, `State/Window.hs`, `Commands/Window.hs`) | `clientWindows`, focus, subfocus, previous focus, splits, the place M-a returns to | record line, change focus, jump, rename, close, split, hide, letters | counters cleared by the redraw, not by the focus change; batches between redraws; names reused | activity announced is activity missed; M-a visits it and comes back; no line or focus is lost |
| redraw cycle (EL, `Log.hs`) | log queue, notifications, bell | clientTick, flush, resume after a signal | the loop resumes with the state of before the tick | each line logged once |
| extensions (Ext, CApi) | `esActive`, the client state parked in `esMVar`, timers, thread counts, `clientThreadJoins` | start, stop, reload, callbacks, entry points, timers, joins | foreign code re-enters the client; a reload while threads run | no callback to what was freed; the table and the extension agree |
| Lua extension (Lua) | one interpreter per script, registry of callbacks | start, stop, hooks, `set_timer`, `cancel_timer`, `system`, windows and focus | callbacks held for the client in a registry that a reload destroys; errors in mid-callback | registry and client agree; interpreters neither lost nor closed early |
| OTR extension (OTR) | libotr's contexts, the poll timer, fingerprint file | privmsg and chat hooks, `/extension OTR` commands, libotr's `OtrlMessageAppOps` | libotr calls back from inside every call, the poll included | nothing in the clear after "secured"; each text once; old keys wiped; trust as the user left it |
| rate limiter (`Irc/RateLimit.hs`) | time stamp of the limiter | tickRateLimit | clock, threshold arithmetic | bounded burst, bounded wait |
| edit box (`State/EditBox*`) | content, history, yank buffer | about forty editing operations | long sequences of legal edits | cursor inside the text, history unchanged |
| commands, hooks, images, views, configuration, codecs | - | parse or render one value | - | pure functions; `PROJECT.json` says of each why it is left out or planned |

Interactions: the terminal, the timers and the connections' queues meet in
`getEvent`, which waits on all of them in one STM transaction and returns the
first that is ready (terminal input, then timers, then network events). Handlers
run to their end before the next event is taken. They call the extensions, with the
client state parked where the extensions' own calls find it, and back into the
connection (`send`, `upgrade`, `abortConnection`), the last two of which may
block the whole loop on another thread. The connection's threads never touch the
client state.

Everything in this code that is hard to test is in the `hazards` of
`PROJECT.json`, each at its line, with the properties that watch it.

## 2. Modules

**ConnectionEvents**: what a connection promises its owner: `Open` at most
once, `TLS` only after it and only when configured, no plaintext line after
`TLS`, one `Close` or `Error` and nothing behind it.

**Connection** (Async, and the parts of Hookup it calls): one connection.
`sup` is the position of the supervisor thread in `createConnection` /
`startConnection` / `presend`; each of its blocking points is a state of its
own, so the owner's calls and the loops interleave with all of them. `pre` is the
STARTTLS pre-receiver, `loops` the receiver and sender inside `race_`, `holding`
the message a sender has taken and not written (the rate limiter's delay),
`buf` the bytes read and not yet framed, which `upgradeTls` drops. `unwind` and
`close` are the bracket's release, during which the supervisor is masked. The
owner's `owner` is the call it is inside: `upgrade` is `swapMVar` (which waits for a
full MVar) and then `cancel`; `abortConnection` is `cancelWith`, which returns
when the supervisor is done. The module refines ConnectionEvents
(`EventGrammar`), with the stage computed from the events written.

**TlsGate** EXTENDS Connection with the event loop as owner: batches, the
restriction of `doNetworkLine` and `startTLSLine`, `/disconnect`, the ping
timeout and `removeNetwork`. Lines are the four kinds that code tells apart.

**EventLoop** (EL, ELN, State, `Commands/Connection.hs`): many networks, their
table and their connections. A connection is reduced to the events it may
produce; a batch is what `getEvent` flushed for each network NAME, and `source`
remembers which connection it came from. `Features` switches on what the
configuration and the servers may do in the middle of a batch: STS upgrade,
`reconnect-error`, a `/disconnect` or `/reconnect` among the connect-cmds (a
reload of the configuration may change those from one connection to the next).
`AddConnection` may also fail to load its secrets. `inARow` is a history: the automatic
reconnections of a network since anything else connected, welcomed or removed it. `None` in the place of a
connection is a missing entry of `clientConnections`, `crashed` a call of
`error`.

**PingTimer** (NS, EL): the timer of one registered connection in ticks of 30
seconds. `getEvent` looks at the timer before the queue, so `NetworkEvents` is
disabled while the timer is due.

**Session** (NS, `State/Channel.hs`, `Commands/Channel.hs`): the client's view
of nicknames, channels, sigils, accounts, ban lists and the moderation queued
until ChanServ gives op. The server is external and modelled by what the client
relies on: it answers commands one at a time, in order and each in one burst, and
tells the client of the users it shares a channel with and of the bans that anybody
sets or lifts there. `members` and `srvBans` are its truth, `chanUsers` and `chanBans`
the client's copy; a ban list holds one mask or none.

**HappyEyeballs** (HC): `concurrentAttempts` as `openSocket'` calls it, its
attempts as threads that connect, fail or hang, and the forked cleanup thread.

**Registration** (NS, ELN): the client from its first `CAP LS` to the welcome, and
the logins of a registered client to which SASL is announced later. `up` and `down`
are the two directions of the connection; the server (`srv`) is external, takes one
command at a time, may split CAP LS, refuse a nickname, fail or garble a login at any
step, and announce or withdraw capabilities. `Habits` and `Extra` switch on what the
client does not cope with (section 3).

**ExtensionHost** (Ext, CApi, EL) is the client's half of its extensions. There is
one thread, so a handler is the set of calls it still makes (`todo`, taken in the
order of the ids, then `starts` extensions to start) and `call` is the callback that
runs now: while there is one the client state is parked for that extension.
`/reload` and `/exit` stop what has no threads and disable the rest, which the join
of its last thread stops. **LuaExtension** EXTENDS it with the interpreters
(`interp`), the registry's roots and the interpreter each thread state belongs to
(`home`); a script may register, cancel, return or raise in any callback. `Habits`
names what ordinary scripts do not do: fail after registering a callback, register
one in the stop callback.

**Windows** holds the client's windows and focus as operators on the client's state,
one per function of State and `State/Window.hs`. Each line carries, as history, whether the
user had it on the screen. **LuaLibrary** adds the Lua functions on windows and focus
with their argument checks (missing, nil, "" and wrong types). **Screen** is the event
loop around them: a key or a command is redrawn at once; lines, timers, threads and
scripts come in batches of any length before a redraw. Of all a network sends,
ERR_LINKCHANNEL alone moves the focus: `ForwardLine`.

**Libotr** is external: what libotr may answer to each call, one operator per call,
as a set of results and of the callbacks it makes. **Otr** is the extension: its entry
points, the functions libotr calls, the poll timer, the fingerprint file, and what
the user last read about each conversation and whether he reloaded the extension since
(`told`). A name is a nick and whether it
is spelled as `normalizeCase` would.

**ConnectionProofs** (also about TlsGate and HappyEyeballs), **EventLoopProofs**,
**PingTimerProofs**, **SessionProofs**, **ScreenProofs**, **RegistrationProofs**,
**OtrProofs**, **LuaExtensionProofs**: the theorems about those modules (section 5).

The `MC*` modules give TLC the symmetry sets and nothing else; configurations only
give constants their values. Definitions headed "Mutant of ..." are plausible
bugs: with one in the place of the definition it names, the property listed with
it in `PROJECT.json` fails.

## 3. Runs

| run | asks | bounds |
|---|---|---|
| `tls_gate` | can a secret leave, or a plaintext line reach the session, in any interleaving of supervisor, loops, reporter and owner; is the last event last; is an abort answered | 2 lines, 1 message, all TLS settings, all fingerprints: a 670 with one line before or behind it in the same chunk, batch or queue |
| `event_loop` | do events meet their own connection when nothing replaces it inside a batch | 2 networks (one with TLS), 2 connections at a time, 1 retry |
| `event_loop_sts` | does a plaintext line reach a TLS session after an STS upgrade, a `/disconnect` or a `/reconnect` in one batch | 1 network, 2 connections, 2 lines queued (the STS line and one behind it), no retries |
| `event_loop_features` | is every row of automatic reconnections bounded, and is every failure noticed, also of connections that reconnect-error or a `/reconnect` among the connect-cmds replaced inside a batch | 1 network, 2 connections, 1 line queued plus the open, TLS and last events, which are not bounded |
| `session` | is the view right once all messages are read; is queued moderation sent | 2 nicknames, 2 channels (one a ChanServ channel), 2 accounts, 1 mask a list, 1 burst and 1 command in flight when the next is issued |
| `ping_timer` | is silence detected, is no live connection timed out | a loop busy for up to 2 ticks, 3 lines queued, dropped lines, late PONGs |
| `happy_eyeballs` | is the answer open, everything else closed, every address tried | 4 addresses: a winner, a loser, one hanging and one not started |
| `registration` | is a login settled before the welcome; does every negotiation and login end | all six SASL settings, 2 nicknames, 1 refused random nickname, 2 capability changes, ordinary habits |
| `lua_extension` | do the client, the registries and the interpreters agree in any interleaving of reloads, hooks, timers and threads | 2 scripts, 3 interpreters (two generations), 2 callbacks outstanding, 3 events, ids up to 3, ordinary habits |
| `otr` | what leaves in the clear, what is read, what becomes of timer, keys and trust, whatever libotr answers | 2 nicks of ours (one with a second spelling), 1 peer with two spellings, 1 key, 3 timer ids |
| `windows` | are letters, counters, M-a, renames, splits and the scripts' focus right together | 1 network with a channel and two nicks, 1 letter, 2 lines, 1 split, 4 events |

A connection's identifier is reused once nothing refers to it (`Collect`), so
`Conns` bounds how many exist at a time, never how many a behaviour creates. The
bounds of Session (`MaxPending`, `MaxCommands`) limit who may *add* to a non-empty
queue; a burst enters as a whole, so a reply can still be overtaken by commands
and followed by a change. With two nicknames a rename needs a free one, so two
users who swap names are not covered. In `lua_extension` a reload can follow a
reload while a thread of the first generation still runs, and three interpreters
let both generations meet; a start that finds none free stands for a failed
allocation. Thread states are not reused, so the two callbacks bound what a behaviour
registers. In `otr` nothing counts: contexts, texts and timers come round again, and
the second spelling and the second nick make the three ways two contexts of one
conversation can differ. Four events in `windows` are a line, a change of focus or
layout, another line and a rename or jump, between any of which the screen may or may
not have been redrawn; `JumpReturns` then looks a whole chain of M-a ahead from each state.

`CHECK_DEADLOCK FALSE` is set where the system really stops: a finished
connection, an idle client, an aborted session.

Fairness. Safety runs need none. Where a run checks liveness, it is weak fairness
of threads the GHC runtime keeps runnable: the supervisor's own steps, the
reporter, a delivered exception, the event loop's next event and its handler, an
expired timer, the cleanup thread. `lua_extension` adds that scripts return from
their callbacks and system commands end, `otr` that the client calls a timer that is due,
`registration` that the client reads, the server answers and ecdsatool ends. Peers,
users, connection attempts and TLS
handshakes owe nothing: an attempt or a handshake may hang for ever.

A module's type invariant is proved rather than checked; that of Screen is part of
`WindowsSound`, which is both.

### Where the code and its words differ

| run | disagreement |
|---|---|
| `upgrade_blocks` | `upgrade` is documented as a no-op outside STARTTLS, but waits for an MVar that an abort before `putMVar` leaves empty: the event loop hangs (Async:75) |

The others were met in behaviours that a run of the project excludes, each by a
constant. Setting the constant and checking the property named shows them.

| run with | property | what happens |
|---|---|---|
| MCEventLoop, 1 plain network, 2 connections, `MaxQueue = 2`, `Features = {"cmdDisconnect"}`, `Sends = {"line", "welcome"}` | `NoMissingNetwork` | a `/disconnect` among the connect-cmds removes the network whose batch is being handled; its next event calls `error` (ELN:46, EL:299) |
| the same with `Features = {"reconnectError"}`, `Sends = {"line", "welcome", "error"}` | `RemovesWhatEnded` | the old connection's last event, in the same batch, removes the new connection and leaves its threads running unread (ELN:72) |
| the same with `Features = {"sts"}`, `Sends = {"line", "welcome", "sts"}` | `RestrictedLineIsOwn` | a line behind the STS capability in the same batch is held against the new connection, which is aborted as a failed STARTTLS (ELN:99) |
| `event_loop_features` | `AttemptsAsConfigured` | reconnect-attempts is the "number of reconnections to attempt on error" (README.md:213, `Configuration/ServerSettings.hs:158`), but the one after a session does not count and the last is made at the bound: one more is made, and one even with 0 (EL:270, EL:281) |
| `session` with `"names"` in `Queries` | `LoggedOnSharesChannel` | NAMES of a channel the client is not on records its users, which then count as sharing a channel (NS:1006; `CApi/Exports.hs:695` says otherwise) |
| `lua_extension` with `Habits = {"failsLate"}` | `CallbackAlive` | a script that registers a timer or command and then fails leaves it with the client; it is called into a closed interpreter (`glirc-lua.c:155`) |
| the same with `"lateTimer"` or `"lateThread"` | `CallbackAlive` | `set_timer` in the stop callback of an extension that already left the table calls `error` (`CApi/Exports.hs:745`); `system` there leaves a join that does (Ext:199) |
| `windows` | `Alive` | `glirc_inject_chat` to a network that is not connected answers 0 and calls `error` when the client goes on (State:371; `CApi/Exports.hs:258`, `glirc-lib.c:65`) |
| `registration` with `Habits = {"splitAck"}`, `{"earlyNew"}`, or `Extra = {"extra"}` | `LoginSettled` | every ACK without `sasl`, NAK or unknown CAP answers `CAP END`, also while SASL runs (NS:991) |
| `registration` with `Habits = {"tooLong"}` | `NegotiationEnds` | 902 and 905 end a login but not the negotiation (NS:404) |

Smaller ones, noted with their hazards: ChangeLog.md:14 promises no ping timeout while packets arrive, but packets that
an extension or hook drops do not count (EL:318), and a busy loop decides the timeout
before it reads the queue (EL:87); `NoFalseTimeout` states what holds. The C API says
NULL, and Lua nil, for no network or target; both are "" (`glirc-lib.c:390`,
`CApi/Exports.hs:612`). "Start extensions after ensuring existing ones are stopped"
(Ext:42) is not so while a thread runs. `/extension Lua` reaches the first script
only, since all have that name (Ext:152). `/extension OTR end` reports the end of a
session that need not have existed (`glirc-otr.cpp:647`), and a reload forgets sessions
without telling the peer or the user: the last thing he read is still "secured", and
his next line leaves in the clear (`glirc-otr.cpp:494`). `/clear net *` can leave the focus on a
deleted window (`Commands/Window.hs:466`), a change of focus out of a subfocus marks lines
never shown as read (State:1097), `/setname` without a letter never takes the window's
own (`Commands/Window.hs:265`), and an important line behind a subfocus is not
notified (State:660).

## 4. What the properties mean

*Connection and TlsGate.* `SentSecurely`: with TLS configured nothing but the
STARTTLS command is written on a plain socket, and nothing at all to a peer with
the wrong fingerprint. `FinalEventLast`: when the reporter writes the last event
no thread is left that could write another. `AbortReported`: an abort ends with
that event and returns, wherever the supervisor was. `OnlySecureApplied`: the
session sees encrypted lines only, because the restriction falls with the
connection's own `NetworkTLS` event and with nothing else (`RestrictionHonest`,
which is proved). `EventGrammar`: Connection implements ConnectionEvents.

*EventLoop.* `BatchCurrent`: the events left in a batch come from the connection
their name is mapped to. `NoMissingNetwork`: no handler calls `error`. `NoOrphan`:
a running connection is always in the table. `TlsSessionPure`: even a stale
plaintext line finds the new connection's restriction in its way.
`RetriesBounded`: between two outside causes (a welcome, a command, an STS upgrade, an
ERROR that `reconnect-error` matches) a network is reconnected at most
`reconnect-attempts` + 1 times, whatever becomes of the connections in between. That is
not to give up: the ERROR restarts the count (ELN:72), so a server that sends it to every
connection is reconnected without end. `FailureNoticed`: a dead connection does not keep
its name.

*PingTimer.* `SilenceDetected`: two minutes is the limit for a loop that is
never busy, and each of the three deadlines adds what the loop was late.
`NoFalseTimeout`: see above.

*Session.* `ChannelsMirrored`, `AccountsCurrent`, `BansMirrored`: with nothing
left to read, channels, sigils, accounts and loaded ban lists are the server's, with the
bans that others set and lifted, also while the list was read.
`LoggedOnSharesChannel`: `csUsers` holds nobody who shares no channel.
`ModerationSent`: nothing stays queued while the client has op.

*HappyEyeballs.* `AnswerIsOpen`, `NothingLeaks`, `OthersClosed`: exactly the socket
returned stays open. `ErrorsComplete`: failure means that every address failed.
`EveryAddressTried`: a hanging address delays the others by the timer alone, and
a connection that was made ends the wait.

*Registration.* `LoginSettled`: a client that is configured to log in is not welcomed
before the login the server offered was answered, however CAP LS is split.
`NegotiationEnds`: client and server never wait for each other, in the negotiation or
in a login after it; ecdsatool failing after the welcome is the exception, when
`CAP END` ends nothing.

*LuaExtension.* `CallbackAlive`: no callback meets a freed thread state or a closed
interpreter, no join an extension that is gone. `RegistrationsHeld`: the client counts
exactly the threads not joined, and a live interpreter's registry holds exactly what
the client will call. `InterpretersOwned`: no interpreter is left open without an
extension or closed under one. `DelayedStop`, `CallbackSettled`: a disabled extension is
unloaded, a registered callback is called, cancelled or unloaded.

*Otr.* `NoClearAfterSecured`: after the user read that a conversation is secured
nothing leaves in the clear until he ends it or reloads the extension. `DeliveredOnce`: a text is read or leaves
once, or the user is told. `TimerKept`, `KeysWiped`: the poll timer is neither lost
nor doubled, so unanswered keys are wiped. `TrustKept`: trust changes by the user, for
the key of the session, and survives a reload.

*Windows and Screen.* `ActivityShown`: what a window announces is what its user has not
had on the screen. `JumpReturns`: a chain of M-a visits all of it and comes back.
`ViewKept`: what a network sends loses no line, renames and forwards included, and
leaves the user where he reads, except that a forward to another channel takes him there,
within its network. `FocusRestored`: a script that saves, moves and restores the focus
does. `WindowsSound`: no two windows answer to one letter, and every marker lies inside its
window.

## 5. Proofs

The proofs assume what the modules assume of their constants: some line exists and
the bounds are naturals (Connection), the lines are the four kinds (TlsGate),
`N` is a natural (HappyEyeballs), `None` is neither a network nor a connection and
the bounds are naturals (EventLoop), null pointers, no-keys and no-nicks are none of
the values they are missing for (LuaExtension, Otr), a third timer id exists for
any two (Otr), and the user's queries and moderation commands are the kinds that
Session models, while the marks for a missing account are no account. For Screen, a
network or target occurs once in its order, and no name is the empty text, with which the
Lua library says that there is none.

**ConnectionProofs**, under any owner and for every set of lines, every number of
lines and every number of messages:

- `TypeCorrect`, `NothingSecretInTheClear` (`SentSecurely`), `TheFinalEventIsLast`
  (`FinalEventLast`);
- `EventsFollowTheGrammar`: `Spec => EventGrammar`, Connection implements
  ConnectionEvents. Each step maps to a step of the grammar or to a stutter.

`SentSecurely` is not inductive: that a message leaves encrypted depends on which
handle the sender finds, and the sender outlives the supervisor's `race_` until
the unwinding stops it. The invariant says where the supervisor can be while each
child runs (`ControlInv`), which handle is installed there (`HandleInv`), what has
been announced by then (`StageInv`) and that the buffered lines were read from the
handle as it is now (`BufInv`). `BufInv` is what `upgradeTls` buys by dropping
the buffer: the lines behind `NetworkTLS` are encrypted because of it.

In the same module, about TlsGate and for the same bounds: `EventLoopIsAnOwner` (`GateSpec => Spec`, so all
of the above holds in glirc, `TheGateSendsSecurely` among it), `GateTypeCorrect`,
`NothingPlainIsApplied` (`OnlySecureApplied`), `TheRestrictionIsHonest`. The invariant
adds that a batch is the end of what was flushed (`BatchInv`), that in the stream
every line behind `TLS` is encrypted (`OrderInv`), and that a lifted restriction on
a TLS connection means its `TLS` event is among those handled (`LiftedInv`): the
line at the head of the batch is then behind `TLS`.

About HappyEyeballs, for every number of addresses:
`DialTypeCorrect`, `SocketStaysOpen` (`AnswerIsOpen`), `ErrorsAreComplete`
(`ErrorsComplete`) and `UnneededSuccessReleased` (`NothingLeaks`). Every attempt that
was started is awaited or has failed while the answer is pending (`DialPendingInv`), the
cleanup thread is never given the winner (`DialChosenInv`), and it waits for every other
attempt that may hold a socket (`DialReleaseInv`).

**EventLoopProofs**, for every set of networks and connections, every bound
and every `Sends`:

- `TypeCorrect`: `Spec => []TypeOK`, with all features;
- `NoPlainLineInTlsSession` (`TlsSessionPure`) and `RowsAreBounded`
  (`RetriesBounded`), with all features as well. The first follows from what a queue can
  hold by the mode of the connection it came from (`TlsInv`): a TLS connection that has
  not announced its handshake is still restricted, whoever's line arrives. In the second
  the row belongs to the network and the count that ends it to a connection: while a
  network has one, the row is no longer than the count that connection carries (`RowInv`),
  which every replacement must hand on;
- `EventsReachTheirConnection`, `NetworksAreFound`, `NoConnectionIsOrphaned`:
  `BatchCurrent`, `NoMissingNetwork` and `NoOrphan` when `Features = {}`. The behaviours
  of section 3 show an STS upgrade, a reconnect-error and a `/disconnect` among the
  connect-cmds deliver an event to the wrong connection or to none; a `/reconnect`
  there replaces the connection in the same way. The theorem says that nothing
  else does.

None of these three is inductive: that a handler finds its connection mapped
depends on where that connection is in its life and on what is still queued. The
invariant `Inv` adds that the table maps no connection twice and only connections
that exist (`MapInv`), that a queue holds a last event only at its end and only
if its connection has been reported (`QueueInv`), that a batch with a last event
ends with it and comes from a reported connection whose queue is empty
(`BatchInv`), and that commands and timers find every batch handled
(`TurnInv`). `QueueInv` and `BatchInv` are why a network is removed exactly once: the
last event is the last of its batch, and nothing of that connection follows in a
later one. The proof has one step per
action of `Next`; the lemmas before it state what `AddConnection`, `Advance`,
flushing and the queue operations preserve.

**PingTimerProofs**, for every `MaxStall`, `Drops` and `MaxQueue`: `TypeCorrect`,
`SilenceIsDetected` (`SilenceDetected`) and `NoTimeoutIsFalse` (`NoFalseTimeout`). `SilenceInv`
gives, for each state of the timer, how long the server can have been silent: each of
the three deadlines adds what the loop may be late. `HeardInv` says that a handled line
is remembered until the next PING.

**RegistrationProofs**, for every set of mechanisms, number of nicknames and bound:
`TypeCorrect` with every habit, and `LoginIsSettled` (`LoginSettled`) when the server has
ordinary habits and no capability is asked for beyond the client's own. The invariant
`LoginInv` is about both queues at once: either nothing was answered yet (`Opening`),
or the login is owed and exactly one step towards it is under way, in one of the two
queues, in front of everything that could make the client say `CAP END` (`Owed`), or
the client is free to end (`Free`). `LsAhead` keeps the answer to CAP LS first.

**SessionProofs**, for every set of nicknames, channels and accounts, every bound on
what is under way, and every set of queries: `TypeCorrect`, `RosterMirrored`
(`ChannelsMirrored`), `AccountsMirrored` (`AccountsCurrent`), `BanListMirrored`
(`BansMirrored`), `ModerationNotForgotten` (`ModerationSent`), and, if the user never
asks for the NAMES of a channel (section 3 shows why), `LoggedOnMirrored`
(`LoggedOnSharesChannel`).

All of these speak of the moment when nothing is under way, and say nothing of how the
client gets there. The inductive invariant is about what is under way. `Knowing` gathers
the client's variables into one value, `Read(x, m)` is `applyMessage` on such values, and
`Runs(v)` says that reading the queued messages one by one takes the client's view `v[0]`,
through `v[1]`, `v[2]`, ..., to a view that agrees with the server (`Agrees`: roster,
accounts, ban lists, and no transaction left open). The proof then has two parts. A
handler of `applyMessage` moves from `v[0]` to `v[1]` and drops the first step. An act of
the server adds messages behind the others, so that only the last view matters: one
lemma per act shows that a view that agreed with the server before agrees with it after
it has read what the act tells, and one per reply follows the reading of NAMES, WHO or a
ban list item by item to its end. So the single transaction slot does no harm because
the server sends a reply as one burst; and a reply about a channel that the client has
left by the time it reads it is harmless because the PART or KICK is then behind
it or before it in the same order as at the server.

Moderation needs one more condition on the same steps. A view in which the client has op
while commands wait is legal only if something is still to come that sends or drops them
(`Awaits`: the MODE that the client asks for when it reads its own JOIN, in either queue,
or the end of its stay on the channel). `Gains` says that a step at which the client
gains op is a mode change, which flushes, or belongs to a JOIN still under way, or has
such a thing behind it; `Held` says that what is queued where the client has op now has
one to come. This is where the hazard at NS:759 ends: op learned from NAMES flushes
nothing, and the modes asked for at the JOIN before it are why that does not matter.

**ScreenProofs**, for every set of networks, targets, letters and filters, and every
number of lines, splits and events: `WindowsAreSound`, `ActivityIsShown`,
`FocusIsRestored`, `JumpsReturn` and the action property `ViewIsKept`, that is every
property its run checks. The inductive invariant is a set of client states (`Clients`): each
window is `Good` (its marker lies inside it and its activity is that of the lines not
seen), and letters are unique. Each operator of Windows and LuaLibrary has a lemma that
it maps this set to itself; those that pass through a state outside it (a rename, a
redraw, `/setname`) are proved as one assignment. Two results are about sequences of
any length. A sequence of steps on a set stays in it and extends without end (`AllSteps`,
`NumberInduction`, by the least counterexample), which gives `/clear` of a
network, one window after the other (`ClearsAll`), and the chain of M-a: a press shows
a window with activity, so that fewer are left (`PressAdvances`), because an important
line is a counted one (`ImportantCounts`); with none left the next press goes home
(`ChainAdvances`).

**OtrProofs**, for every set of names, keys and timer ids and whatever libotr answers:
`TypeCorrect`, `TimerIsKept`, `NothingClearAfterSecured`, `EveryTextOnce`, `TrustIsKept`.
The invariant ties what the user was told to the state of every context of that
conversation (`ToldInv`, also over a reload), the timer's fields to the client's (`TimerInv`), and contexts
to what libotr can have left them in (`ContextInv`).

**LuaExtensionProofs**, for every number of scripts, ids, events, timers and threads,
with `Habits = {}`: `TypeCorrect`, `CallbacksStayAlive` (`CallbackAlive`),
`RegistrationsAreHeld` (`RegistrationsHeld`), `InterpretersAreOwned`
(`InterpretersOwned`). That nothing dangles is not inductive: it depends on who holds
what. The invariant `Invariant` proves says that a thread is in one place and its
extension waits for it (`ThreadsInv`, which is why removing an extension without threads
leaves no join behind), that a registry holds what is due plus the one callback just
entered (`HeldInv`), that an open interpreter has one owner, an extension or a stop
callback (`OwnedInv`), and which callbacks can still follow the one that runs
(`CallInv`, `TodoInv`).

Model-checked only: liveness (`FailureNoticed`, `AbortReported`, `OthersClosed`,
`EveryAddressTried`, `NegotiationEnds`, `DelayedStop`, `CallbackSettled`, `KeysWiped`) and
everything else that needs ENABLED, which the prover does not support; of `OthersClosed` the safety half, `NothingLeaks`, is proved.
Every invariant and
every action property a run checks is proved. Where a proof needs induction it argues
from the least counterexample, since the library's induction rules take an operator, which
the installed provers cannot instantiate.

## 6. Not modelled

Rendering, images, views, key tables, argument parsing, text codecs, cryptography
and the terminal: pure functions or I/O without state of their own. In the modelled
parts:

- the reconnection delay and the 30-second clock of PingTimer abstract real time; the
  latency of a PONG, which is measured from the last PING (NS:1209), is left out;
- the order in which a batch's networks come is any order, a superset of the `HashMap`
  order; `EventLoop` has no STARTTLS mode (TlsGate has);
- Session's server sends a reply as a whole: replies spread over other traffic, which the
  single `csTransaction` would lose (NS:584), are outside. Session leaves out topics, other modes and lists, WHOX and ISUPPORT, and moderation of a
  ChanServ channel the client is not on, which is dropped silently (NS:1253);
- Registration leaves out PASS and USER, the 400-byte chunks of a payload (one command
  here), and duplicate entries of `nicks`, on which NS:469 would try one nickname
  for ever; the mechanisms' cryptography is "good" or "bad";
- Windows leaves out window-hints and reserved letters, scrolling, `/grep` and the metadata
  toggle; Screen the connect-cmds, which run with the network focused and give the focus
  back (ELN:46), the log queue, notifications and the bell, an `inject_chat` with an
  empty target;
- of the extensions: entry points that only read the client (lists, `my_nick`), their
  marshalling, `dlopen` and its error text, callbacks on coroutines, the line kept by
  `doNetworkLine` across the hooks (EL:316); `glirc-warn.c` is called by nothing; the
  notification, certificate and sample extensions only wrap a library call;
- Otr leaves out a fingerprint file that cannot be written (the failure is ignored,
  `glirc-otr.cpp:419`), instance tags and private key generation.

## 7. Plan

1. **Redraw cycle**: log lines, notifications and bell across batches, resumes and exits,
   beside Screen. Two disagreements it would show: EL:158 resumes with the state of before
   the tick, so that the notifications "to send next draw" (State:202) go out twice; and
   EL:513 ends the loop for an `/exit` bound to a key without the "actions to be run when
   exiting the client" (EL:532), so that no extension is stopped.
2. **doNetworkLine with hooks**: ExtensionHost composed with EventLoop, since EL:316 keeps
   the network state it read before the callbacks.
3. **RateLimit**, **EditBox** and the pure algorithms (`splitModes`, recognizer, word
   completion, SOCKS5 framing) as operators against reference definitions.
4. **Proofs**: what the modules above will state.

The order follows the damage: what the user is shown and what an extension is given
first, then the pure parts.
