# Quava in TLA+

Quava connects an Android phone with a Linux desktop. A daemon written in Go
(`src/daemon/quavad`, on the library `src/daemon/libquava`) pairs with phones,
finds them with mDNS, keeps one encrypted session to each phone and routes
clipboard, notifications, media control, remote input, call state, SSH and
status over it. The phone side is an Android service
(`src/android/app/src/main/java/com/dhibaid/quava`). A command-line client and
a GTK application talk to the daemon over a control socket.

This directory holds the specifications of that system, the TLC instances that
check them and the TLAPS proofs about them.

| File | Contents |
|---|---|
| `InputLease.tla` | what the daemon promises about remote input: one owner at a time |
| `SessionLifecycle.tla` | sessions, retry loop, remote input, SSH, IPC commands, shutdown |
| `MCSessionLifecycle.tla` | its instances; `SessionLease.cfg`, `SessionEnd.cfg`, `SshOutlivesSession.cfg` |
| `SessionLifecycleProofs.tla` | types, the session table, the lease, what is taken back, held keys, shutdown |
| `SessionDispatch.tla` | reader, workers, queues, requests, heartbeat, frames, phone |
| `MCSessionDispatch.tla` | its scenarios; `SessionDispatch.cfg`, `SessionDispatchEnd.cfg`, `DeadlineIgnored.cfg`, `CounterGap.cfg` |
| `SessionDispatchProofs.tla` | types, pending requests, order of frames, meaning of success |
| `SessionOrderProofs.tla` | the phone's messages: acted on in order, acknowledged once, none forgotten |
| `ConfigStore.tla` | the configuration file: memory, temporary file, rename, several Stores, validation |
| `Pairing.tla` | the exchange of both sides over the store, with crashes and lost connections |
| `MCPairing.tla` | its instance; `Pairing.cfg` |
| `PairingProofs.tla`, `PairingTrustProofs.tla` | types, the file, confirmations; the daemon's copy, shared trust |
| `Mpris.tla` | the cache of media players, the active player, the position ticker |
| `MediaRelay.tla` | how a session keeps the phone's media screen up to date |
| `CallMute.tla` | muting the host during calls |
| `ClipboardSync.tla` | echo protection and the workers of the clipboard |
| `Discovery.tla` | the mDNS watcher, its collector and the sessions that wait for a phone |
| `MCHostServices.tla` | these five side by side; `HostServices.cfg` |
| `HostServicesProofs.tla` | wake-ups, restored mutes, players and their cache, the phone's view, the clipboard |
| `Notifications.tla`, `MCNotifications.tla` | both directions of notifications; `Notifications.cfg` |
| `NotificationsProofs.tla` | no echo, the mirror on the phone, the bridge's maps, dismissals |
| `PhoneServer.tla`, `MCPhoneServer.tla` | the phone's server over several connections; `PhoneServer.cfg`, `OldCleanup.cfg` |
| `PhoneServerProofs.tla` | one connection, forgotten hosts, the order of remote input |
| `PROJECT.json` | components, runs, mutations, source lines of every definition, hazards, theorems |

To check an instance: `tlc -config SessionLease.cfg MCSessionLifecycle.tla`.
To check the proofs: `tlapm SessionLifecycleProofs.tla`, and so on.

## The system

State, operations, what is hard, and what makes the component correct. "Phone"
is the Android side. `PROJECT.json` lists the source files of each component.

**Session manager of quavad** (`daemon_lifecycle.go`, `daemon_ipc.go`,
`main.go`). Keeps, under `Daemon.mu`, the map `sessions` from phone to running
session, the `Active` connection of each, `inputOwner` and `inputEnabled`. One
goroutine `runSession` per phone; one goroutine per IPC command; callbacks from
the session. Hard: locks are dropped between reading and acting, entries
outlive their cancellation, cleanup runs in parallel with new commands and with
the shutdown. Correct: one run per phone, an entry until its run ends, connected
only while there is a connection, everything taken back before a retry and at
shutdown.

**Session retry loop** (`session.go`, `RunWithCallbacks`). Dial, handshake,
publish, heartbeat, close, take back, back off. Correct: it ends when cancelled
and retries when not.

**Session message dispatcher** (`session.go`, `inputs.go`, `media.go` and the
handlers in `libquava/session`). Keeps `pending` (transaction id to response
channel), `inputQueue` (128), `eventQueue` (64), `pingMutex`, a token bucket. One
reader, one input worker, one event worker, one multimedia goroutine, one
heartbeat and any number of callers write to one connection. Hard: answers race
timeouts, the reader writes refusals itself, queues overflow, movements are
coalesced. Correct: answers reach their callers, messages are acted on in order
and acknowledged once, everything stops with the connection.

**Secure transport and handshake** (`protocol/secure.go`, `message.go`,
`SecureStreams.kt`, `crypto`). A frame counter per direction. Correct: counters
follow the order on the wire and both ends agree on the keys.

**Remote input** (`inputs/keyboard.go`, `applyRemoteInput`). One emulator with
the keys held by each phone. Correct: no key stays down after its phone lost the
right to press it.

**SSH service** (`ssh/setup.go`). A listener and a set of allowed addresses,
opened and closed by sessions. Correct: the allowed phones are the connected ones.

**Configuration store** (`config/config.go`). Devices and settings in memory,
saved by temporary file and rename. Hard: a second `Store` is opened by pairing,
`Save` can fail, the daemon can crash. Correct: what was acknowledged is on disk,
no writer undoes another.

**Pairing** (`pairing/pairing.go`, `PairingProtocol.kt`). Key exchange, a code
compared by the user, trust stored on both sides. Hard: rejection, loss and
timeout between the two stores. Correct: trust only after both confirmed.

**Phone server** (`PairingServer.kt`, `QuavaService.kt`). One active socket, the
jobs that belong to it. Hard: a new connection replaces an old one that is still
cleaning up. Correct: jobs of the live session are not stopped by a dead one.

**Discovery** (`discovery/`). The set of announced phones, waiters, DNS packets.
Hard: `Forget` against a fresh announcement. Correct: a waiter wakes up.

**Call mute** (`applyCallMute`, `session/callstate.go`). One flag for the host's
output. Hard: two phones, failures, a session lost during a call. Correct: muted
only during a call and unmuted after it.

**Notification bridge and host notification watcher** (`notifications/`). Maps
between Android keys and D-Bus ids. Hard: a close signal before the reply of
`Notify`, own notifications coming back. Correct: no loop, no stale id.

**Media players** (`media/mpris.go`, `session/media.go`). Snapshots and signals of
MPRIS players, the active player. Hard: an old snapshot over a newer signal.

**Clipboard synchronisation** (`clipboard/sync.go`). The last content received.
Hard: echo suppression, a push that never returns. 

**Not concurrent or not stateful**: the terminal emulator of the phone, the
command-line client, the GTK application, the phone's screens, device status and
ringing, uinput devices, icons and profiling.

**Interaction.** IPC commands and phone messages change the session manager. Its
runs call the dispatcher and install the callbacks through which the dispatcher
reaches remote input, call mute, the notification bridge and unpairing. Clipboard,
notification watcher and IPC commands call `sendRequest` on the active sessions.
The store is shared by the session manager and by pairing.

## SessionLifecycle

One step is what the code does between two points where another goroutine can
get in: a critical section of `Daemon.mu`, a `cancel()`, a call into the SSH
service, a hold of `inputDispatchMu`.

| State | Code |
|---|---|
| `paired`, `autoConnect`, `inputAuto` | the daemon's `Store` in memory |
| `sessions`, `active` | `d.sessions`, and which entries have `Active` |
| `inputOwner`, `inputEnabled` | the fields of the same name |
| `runPc`, `runPeer`, `cancelled`, `stale`, `wasOwner` | each `runSession`: place, phone, cancelled context, replaced credential, local flag |
| `inputJob`, `held` | the event a session's worker has in hand, keys down per phone |
| `sshAllowed`, `sshRunning` | `SSHService.allowed`, `listener` |
| `op` | what is left of an IPC command or an unpair message after its first critical section |
| `boot`, `daemon` | phones `startAutoConnect` has still to start; how far a shutdown has come |

A run goes `begin, loop, dial, allow, publish, serve, listen, beat, closing, drop,
disallow, check, stopSSH, reset, backoff`, and leaves through `clear` and
`clearReset`; each arrow is an action. `Start` of the SSH service is two of them:
it looks at the daemon's context (`serve`) and listens under its own lock after
that (`listen`), and a shutdown may come in between. The event of a run's phone is checked
(`CheckInput`, under `d.mu`), then applied (`BeginApply`, `EndApply`, under
`inputDispatchMu`), which are two steps because the code drops the first lock.
`Commands` selects what users, phones and the system do in an instance; the
actions are those of every command that changes this state. Init allows every
configuration that an earlier daemon could have saved.

Bounds: `Run` is a set of goroutine slots that are reused after an exit, so runs
are not counted; two slots let an old run of a phone overlap a new one. Nothing
else is bounded.

| Run | Instance | Question |
|---|---|---|
| `session_lease` | 2 phones, 2 runs, 1 handler, symmetric | do two phones that compete for input keep table, lease and emulator consistent? Does the daemon implement `InputLease`? |
| `session_end` | 1 phone, 1 run, remaining commands, fair | do cancelled runs end and lost runs retry; is a stopped daemon quiet, and does it stop serving SSH? |
| `ssh_outlives_session` | connect, disconnect | does an allowed address have a session? It does not. |

Two phones are enough to see one take what belongs to the other, two runs for an
old and a new one; a third would only repeat either role. `session_end` has one
run so that liveness stays small; what it asks concerns each run by itself.

Fairness (`FairSpec`). Goroutines that can run do run. A dial or a heartbeat is
only assumed to end when the run's context has ended, since no phone has to
answer; the heartbeat's part of this is what `BrokenSessionStops` of
`SessionDispatch` examines from the inside. The resets wait for
`inputDispatchMu`, which others can take again and again: strong fairness, because
`sync.Mutex` hands over to a waiter that has starved. The goroutine that `Start`
leaves behind to stop a listener with the daemon's context runs as well
(`StopSSHOnContext`): `ShutdownEndsSSH` depends on it, since `shutdown` itself calls
`Stop` only once and a run may listen after it. Users and phones promise
nothing. Deadlock is not checked in any instance: a stopped daemon, a closed
session and an idle system without further commands really stop.

Left out: a `Save` that fails, the call mute, status commands, single key codes,
the SSH protocol, the dials of `Connect` (one step).

## SessionDispatch

One connection from `startDispatcher` to `Close`. `pc` has a place for the reader,
the input and event workers, the multimedia goroutine, the heartbeat and each
caller of `sendRequest`. `pingMutex` is taken by `Lock`, which also seals the
frame and so uses a counter, and given back by `Unlock` or `WriteFails`; in
between the goroutine may block on a full socket for as long as it likes. A write
gives up when its context ends or the connection is gone; then nothing, or the
beginning of a frame, is on the wire. Either way the phone does not get the
frame, and the model counts it as missing.

| State | Code |
|---|---|
| `pending`, `slot`, `result`, `ended` | `s.pending`; a response channel that is full; what `sendRequest` returned; whether the caller's context has ended |
| `sendCtr`, `recvCtr`, `refused` | the `frameCipher` counters of this direction; a frame the phone could not open |
| `toPhone`, `toHost`, `broken` | the socket buffers and whether the connection is gone |
| `inputQueue`, `inputJobs`, `inputNext`, `inputOk` | the queue, `jobs`, `pending` and `applyErr` of `runInputWorker` |
| `eventQueue`, `eventJob`, `eventOk`, `dropped` | the queue, the worker's job, its outcome; the message the reader is refusing |
| `sent`, `handled`, `phonePc`, `phoneTx` | the phone: messages it has started, requests it handled, `runSession` |
| `applied`, `acks` | what the host has acted on and how it was acknowledged |
| `runPc`, `sessionDone`, `readDone` | `RunWithCallbacks`, `sessionCtx`, `readDone` |

Payloads are reduced to the kind of a message: what the dispatcher and the
handlers tell apart (movement or other input; refused, dropped or never
acknowledged; acknowledged before or after it is acted on). The handler of a
message succeeds or fails by choice. The token bucket is a choice between room
and none, because a scenario is the tail of a longer stream. Transaction ids are
random in the code and never repeat in the model. The second direction's frame
counter is not modelled: its writers hold one lock on the phone and do not give
up half-way.

Bounds: `MaxBeats`, `MaxEvents`, `MaxStates` stop the ticker, the phone and the
player; `InputCap`, `EventCap`, `NetCap` are the capacities of queues and sockets
and are small so that three messages fill them. `MCSessionDispatch` adds
scenarios: who calls and what the phone sends, in that order. Each is a pair or
triple of actors that share state (two requests; a request and a heartbeat; a
request and a multimedia state; a request and an event of each worker; three
messages over a queue that holds one or two; unpair after a clear). Everything
else, the end of the connection and of contexts included, is left to `Next`.

| Run | Question |
|---|---|
| `session_dispatch` | answers, frames, queues and acknowledgements in every interleaving of ten scenarios (about 1.3 million states) |
| `session_dispatch_end` | does everything stop once the connection is lost, under fairness of the host alone? |
| `deadline_ignored` | does a caller return when its context ends, with a phone that always reads and answers? It does not. |
| `counter_gap` | can the phone open every frame of an honest host? It cannot. |

Fairness (`HostFairness`): goroutines that can run do run, contexts with a
deadline end, and a starved waiter gets `pingMutex`. `ResponsivePhone` adds a
phone that reads on and answers; only `deadline_ignored` uses it, so that its
counterexample is not the fault of the phone.

Left out: payloads that do not parse (no acknowledgement at all for clipboard,
notifications and call state), the state pushed after some media commands, icon and
position frames, the effect of unpair on the session beyond `Cancel`.

## ConfigStore and Pairing

`ConfigStore` has one file, what of it survives a loss of power, and the Stores
that were opened on it: the daemon's, and one per pairing attempt.

| State | Code |
|---|---|
| `file`, `stable`, `temp` | `config.yaml`; what is on the medium; the temporary file of a `Save` |
| `store` | `Store.data` of each Store |
| `saving`, `diverged` | the daemon is between the setter and the rename; its data may differ from the file |
| `pc`, `peer`, `key` | `Initiate` and the handler of `pair` around it; its phone; its identity |
| `toPhone`, `toHost`, `open` | frames in flight and open connections of the exchange |
| `phonePc`, `socket`, `verdict`, `trust` | `PairingServer.handlePairing`; `activeSocket`; the answer of the phone's user; `TrustedPeerStore` |
| `confirmed`, `lapsed` | history: who has confirmed an exchange; phones that were killed or forgot |

A `Save` is three steps (temporary file, sync and rename, end), because the daemon
may be killed or the power may fail between them. The host's handler goes
`identity, saveIdentity, request, challenge, ask, complete, trust, saveTrust,
refresh, assign, paired`; `Initiate` opens the file twice, once for the identity
and once for the trust, and the daemon reopens it after it. Secrets are named by
the exchange they come from, which is what the hash over nonces, transaction and
X25519 secret establishes; the primitives are not modelled.

`Pairing.cfg`: one phone and two attempts, so that one attempt meets what another
left behind on the phone, in the file and in the daemon; one setting, which names
phones and is validated; three events out of nine (a changed setting, a failed
`Save`, a cut connection, a kill of the daemon or of the app, a loss of power,
either side forgetting). Two phones share nothing but the file, which the two
attempts share as well. About 274 000 states.

Fairness: the phone's coroutine runs on, because its socket has a read timeout
(`PAIRING_TIMEOUT_MS`); what users, host and network do is up to them.
`PhoneFreedOrAsking` cannot be stronger: the phone waits for its own user without
a timeout.

Left out: migration of old files, values of notification filters, fields and
signatures of the messages, the code that users compare.

## The services of the host

Each module keeps the state of one service, with what surrounds it (players,
desktop, phone, bus) as actions of its own.

| Module | State and code | Steps between which others get in |
|---|---|---|
| `Mpris` | `s.players`, `activePlayer`, `pinnedPlayer`, the ticker; the bus and its queued signals | `ListNames` (which may fail), each `GetAll`, the replacement of the cache, a signal and the fetch it needs, `Stop` |
| `MediaRelay` | a subscription's channel; the relay goroutine and the event worker, which both read a state in three steps and queue for the connection | changing and publishing, reading the player, the list and the pin, writing |
| `CallMute` | `audioAutoMuted`, `audioWasMutedBefore`; outputs, users, reports on their way | the flags under `d.mu` and the call of the tool after it |
| `ClipboardSync` | `c.Clipboard`, `c.done`, workers, channels, copies on their way | remembering and writing, receiving and pushing, starting and the deferred close |
| `Discovery` | `Watcher.seen`, `changed` (as generations), the collector's maps, finders | assembling, remembering, broadcasting, looking, dialling, forgetting |
| `Notifications` | pending calls and closings of the monitor, the bridge's maps, the phone's copies, the server's ids | every message on the bus, each request to the phone, the reply of `Notify` and the entries made from it |

Five of them share no state, so that `MCHostServices` runs them side by side: a
behaviour is one of a single service, and the instance is the sum of the five, not
their product. What they do share in the program, the connection of a session,
is in `SessionDispatch`.
`Notifications` composes the two notification components, which do interact
through the server, and has a run of its own because it is as large as all the
others.

Bounds. Two players, one of them not controllable, and four changes: a player
that appears, changes, leaves and comes back with another owner. A channel for
two events and three versions. Two phones and two outputs with six calls and
actions of the user: two overlapping calls with a change between. Three starts of
the clipboard (the old worker, its successor, the one that takes the channel
over) and three copies. Two finders, seven records (the four that make a device
known, a repetition and an address), three addresses. One notification key with three calls of
`Notify`, shared by applications and the bridge, and a monitor that holds three
messages: a call, its reply, and one that gets lost. Larger keys repeat; no map relates two keys.

None of these runs states liveness: the services have no promise to answer when a
player, a tool or the phone never does. `CacheCatchesUp`, `PhoneViewCurrent`,
`PhoneMirrorsHost` and `DismissalArrives` say instead that at any moment what is
missing is still on its way, or was lost for a named reason. The reasons are
variables of the models: `missed` (players that did not answer when the monitor asked,
or came, left or changed hands before a listing that failed), `starved` and
`overtaken` (an event the channel had no room for, a newer frame written before an
older one), `missing` and `kept` (messages the monitor or the phone did not get),
`early` and `reused` (signals of a closing that overtake the entries of `Show`, or come
after an id was given again). `announced` is the last version that `MPRISService` told
its subscribers of or that this phone made; `PhoneViewCurrent` speaks of that version.

The server is free in one thing: the id of a notification that has been closed may
be given to the next `Notify` that names it (`Assigned`, `ServerAnswers`). The bridge
compares the id it gets with the one it named (`android.go:184`), so it expects either.

Left out: positions and artwork of players, `Seeked`, icons and filters, the text
of notifications, action buttons other than a reply, parsing of `wpctl` and `pactl`
output and of DNS packets, the phone's advertiser.

## PhoneServer

`Pairing` treats one exchange; `PhoneServer` treats what one connection of the phone
leaves to the next, because nobody waits for a job or a handler that was
cancelled.

| State | Code |
|---|---|
| `handler` | where `handle` and `handleSession` of a connection are, with their two `finally` blocks |
| `open`, `broken` | sockets the phone has not closed; those the host or the network has ended |
| `activeSocket`, `activeSession` | the fields of the same name |
| `trust`, `trusts`, `credential` | the trusted peer, pairings so far, the peer a handler has loaded |
| `dropped` | history: the credentials that `forgetHost` has dropped |
| `forgetting`, `taken` | `forgetHost`, called by the user's unpair or by the handler of the host's UNPAIR |
| `statusJob`, `job`, `collector`, `callWatcher` | the status job, its place, the collector all jobs share, the call watcher |
| `queue`, `typed`, `received` | the channel of `RemoteInputDispatcher`; history of what was typed and written |

A handler goes `reading, authenticating, begun, waiting, reporting, serving,
cleaning, clearing, releasing, closing`, or `unpairing` on the way. `forgetHost` is
three steps (drop the trust; under the lock take session and socket; close what
was taken), because only the second is under the lock.

`PhoneServer.cfg` has three connections and two pairings: an old session, a pairing
that replaces its trust, and a session after it, with a user or a host that ends
the trust at any moment. Remote input, two events per session, is only explored
with two connections, since the queue relates a session to the one after it;
`MCPhoneServer` restricts nothing but choices from outside: these, and that nobody
ends the trust of the new pairing once the third connection is there. About
1 025 000 states. Fairness: the phone's coroutines run on, and reads of a socket that is
closed or broken return; one condition for all of them is enough, since each has
only finitely many steps between two events from outside.

Left out: the state shown to the user, `stop()` at the end of the service, media
state, the cryptography of the session handshake.

| Run | Question |
|---|---|
| `pairing` | does the file always open, does trust need both users, does the host trust only phones that know it, and is the phone's socket freed? |
| `host_services` | do caches catch up with the bus, is nothing echoed, does nobody sleep through an announcement, are mutes restored? |
| `notifications` | does nothing come back to where it came from, and does each side show what the other has unless something was lost (about 12 million states, the largest run)? `MCNotifications` has at most two losses at a time (`Losses`: one notification swept, one that its echo cancels); each only excuses what follows from it. |
| `phone_server` | is a forgotten host gone, is one connection served at a time, do inputs arrive in order, and is the server freed after every connection? |
| `old_cleanup` | does the end of an old session leave its successor alone? It does not. |

## Where code and words disagree

- `isAllowed` reports "whether the peer address belongs to an authenticated Quava
  session" (`ssh/setup.go:200`). A cancelled run returns before `onDisconnect`
  (`session.go:269`), the only place that removes the address. (`ssh_outlives_session`)
- "The caller owns the timeout through ctx" (`ping.go:11`). `sendRequest` waits for
  `pingMutex` without looking at it; when the reader is blocked in a refusal while
  the phone is blocked in an answer, the wait never ends. (`deadline_ignored`)
- A frame that does not authenticate means "the peer is not speaking the encrypted
  protocol, or someone tampered with the stream" (`secure.go:22`). A request given
  up after sealing leaves a gap in the counters of an honest host. (`counter_gap`)
- "A replacement connection may already be active when an older session finishes.
  Do not let the old cleanup erase it." (`PairingServer.kt:286`). Only the active
  session is compared; the status job and the call watcher are ended whosever they
  are. (`old_cleanup`)

The models take some more steps that surprise; no run is spent on them, and the
properties say where they make an exception:

- After a manual `input-disable` an event that was checked before it is applied
  after the reset, and its key stays down: the exception of `HeldReleased`. For
  every other way to lose the right, the proof of `NothingStaysHeld` shows that
  this cannot happen.
- Pairing a known phone again starts no session while the entry of an old run is
  there, and that run keeps the old credential (`Pair`, `stale`).
- The collector of discovery keeps the first address of a device (`AddDevice`), so
  the address that `Forget` has dropped can come back with the phone's next TXT
  record.
- Each report of a call state is written by a coroutine of its own
  (`CallChanges`); the end of a short call can overtake its beginning, and the
  host stays muted until the next report. `RestoresMute` then still holds: the
  daemon owes the unmute.
- The status job of an ended session stops the collector that all jobs share
  (`JobEnds`), also for the session after it.
- A clear for an id the phone does not show cancels all notifications there
  (`Cancelled`): the exception `missing` of `PhoneMirrorsHost`.
- A pin that the control socket or another phone changes without changing the active
  player is not announced (`OnlyPinChanges`), although the pin is part of the phone's
  media state: `PhoneViewCurrent` speaks of announced changes.
- The monitor drops the error of a refresh (`ListFails`) and keeps its cache until the
  next player comes or goes: the exception `missed` of `CacheCatchesUp`.
- The signal that a notification was closed may reach `watch` after `Show` has got the
  same id again: it deletes the entries of the notification on the screen and
  dismisses it on the phone. The exception `reused` of `BridgeMapsAgree`.
- A run can listen for SSH after `shutdown` has stopped it (`StartListening`), until
  the goroutine of `Start` notices the context. `ShutdownEndsSSH` says that it does.
- A `Save` that overtakes the refresh of a pairing makes the daemon's Store differ
  from the file (`diverged`): the exception of `DaemonSeesFile`.

## What is proved

All theorems hold for every set of phones, runs, handlers and callers and all
bounds. The assumptions are those of the modules (`ConstantsAssumption`,
`DispatchAssumption` and so on: names that stand for nobody are not names, bounds
are numbers), which TLC evaluates in every run. Every safety property of the passing
runs has a theorem.

`SessionLifecycleProofs`. `TypeCorrect` needs `RunHasPeer` beside `TypeOK`: `op`
and `sessions` are written from the phone of a run. `EntriesAreRuns` is inductive
on top of types. `ImplementsLease` maps `active` and `owner`; every action is a
`Join`, `Grant`, `Revoke` or `Leave` or leaves both alone. `ActiveIsConnected`
needs the entries: taking an entry away must be the end of the one run whose
connection is active. `OwnerIsLive` is made inductive by `inputAuto \subseteq
paired`, without which a phone that is forgotten could be granted input when it
connects. `RetryIsClean` needs `TakenBack`, which says it from the first step of the
cleanup on. `ConnectedMayUseSSH` needs that the address is allowed at the pcs
before and during the connection.

That a held key belongs to the owner or to a pending reset is
not inductive: an event in flight may press a key later. `HeldInv` adds what holds
for an event that was checked (its run is connected and, unless the run's context
has ended, its phone still owns input or is about to be cancelled and reset) and
for one that is being applied (its phone owns input or a reset is to come).
`input-disable` breaks exactly the first of these, and the property excludes it. `ShutdownIsQuiet`
follows the three steps of the shutdown with the context already ended: what was
checked comes to nothing, what is being applied is waited for. It says nothing of
SSH, which may be started once more (`ShutdownEndsSSH`).

`SessionDispatchProofs`. The steps that neither request nor write are treated once
(`Quiet`). `PendingHolds` rests on `TxInjective`: no two callers share a
transaction id. `WireOrdered` is made inductive by mutual exclusion (`Serial`) and by
`NextOnWire`, the smallest counter that may still reach the wire: the one being
written, or the next to be sealed. `SuccessIsHandled` follows an answer
backwards from the result over the channel and the socket to the phone
(`AnswerInv`). `AnswersReach` is a step from `PendingHolds`: the map still has the
request whose answer is read. `DispatchTyped` adds `InHand` to `TypeOK`: a worker that is
busy has a message, without which the acknowledgement of nothing could be sent.

`SessionOrderProofs` regards the messages of the phone as numbers that move
through stages: the socket, the queue of a worker, the message it has taken, the jobs
in its hand. `Order` says that each stage is increasing and before the one behind it,
that inputs and other messages are kept apart, and that no event is set aside
while movements are still coalesced (`Drained`). Only four steps move an input and five move other
messages (`InputsMove`, `EventsMove`). `AppliesOrdered` adds `AppliedInv`: what was
acted on is before all that the worker still has to act on. `AcknowledgedOnce` and
`NothingIsForgotten` count a message as `Open` until a goroutine has settled it and as
`Acked` from the write to that moment; every step leaves these sets alone, opens a new
message, settles one or acknowledges one (`Settles`). The refusal of the reader,
written while a worker writes as well, needs `DroppedInv`: no worker has that message.

`PairingProofs`. `PairingInv` is `TypeOK` with three parts: `HostSide` (what a place of
the handler says about messages and confirmations), `PhoneSide` (the same for the
phone) and `StoreSide` (every Store, temporary file and file on disk is data that
`validateConfig` accepts, for a user-confirmed secret only). `FileAlwaysOpens` and
`BothAlwaysConfirmed` follow; neither is inductive alone, because a Save copies
what a Store has held for many steps.

`PairingTrustProofs`. `DaemonInv` ties the temporary file of a daemon's `Save` to its
Store. `HostTrustAlwaysShared` needs that attempts and connections agree on
identities (`KeyInv`), that everything after `PAIR_COMPLETE` comes from a phone which
has stored its side or is storing it (`ShareInv`), and where a secret on the host
can come from (`Provenance`).

`HostServicesProofs`. `WakeInv`: a waiting session's channel belongs to the present
generation only while the phone is unknown or a broadcast is due. `MuteInv`: the two
flags and the pending call of the tool determine which outputs may differ from
the user's wish. `MprisInv`: every replacement of the cache settles pin, active
player and ticker together; the six candidates of `ActiveAfter` are compared one
by one. `CacheInv` (`CacheIsTheBus`): the last queued signal of a player leads to its
state on the bus (`Announced`); then either a new listing is due, or what was
collected so far, or the cache, is right but for queued signals (`Collected`, `Kept`).
It depends on the bus never using a unique name twice (`OwnersAreNew`), or an old
signal could speak for a new owner. A listing that fails leaves the cache right for
every player whose owner is still the one it was cached with; the others are `missed`. `RelayInv` (`PhoneIsKeptCurrent`): an announced change still
makes a sender read the state, or a frame with it is in the making or on the phone
(`Reaches`), or an older frame was written over it. That the frames of two
senders cannot both be older than what is shown is `OneIsRecent`. `EchoInv`: a copy is
fresh only while it is the remembered content, and all that changes the memory ends
the freshness of the rest. `QuietInv`: a closed channel was closed by a worker that has
ended, so the deferred close of one never hits the channel of its successor.

`PhoneServerProofs`. `OneConnectionServed` needs `CallerInv` (only a handler at the
host's UNPAIR is inside `forgetHost`) and that a taken socket is held only until it
is closed (`SocketInv`). `ForgottenHostGone` speaks of the history
`dropped`, because a pairing may set another trust at once, and the present value of
`trust` then says nothing about what `forgetHost` did; `DroppedInv` says of each open session with a dropped credential that some
`forgetHost` has yet to look at the active socket or holds this one, or that the session is
in its last steps. `InputsStayInOrder` rests on `QueueInv`: the queue holds in order what
was typed, and for the active session exactly what it has not yet received.

`NotificationsProofs`. One invariant, `NoteInv`, since the four properties need each other.
- `Numbering` counts: ids assigned and calls unanswered are together no more than the
  calls made. So an id exists for every answer, without a bound of its own.
- `Messages`, `Ids`, `InOrder`: what the monitor holds names calls and ids that exist, a
  call before its answer.
- `EchoFree`: a reply that carries an id of the bridge belongs to no call that the watcher
  holds, or the bridge's own notification would be pushed back (`NothingComesBack`).
- `Ending`: since ids are given again, this is about the last message of an id. Behind
  each reply with an id that is off the screen its end is to be heard, and behind each
  closing of an id that is on the screen a reply (`Follows`, `Ends`, `Begins`), or the
  message was lost (`PhoneMirrors`).
- `Maps`: `byKey` and `byLinux` are inverse, and no two keys meet at an id, neither in the
  maps nor in a call that replaces (`MapsAgree`). An id of the bridge on the screen
  without an entry was `Retaken`: `Show` has still to record it, or recorded it while the
  signal of its earlier end was queued.
- `Dismissal`: an id that `Show` is about to record is on the screen, or its closing
  is queued or was noted as early (`DismissalsArrive`).

Actions on the bus are reduced to what they do to the monitor's queue (`Adds`, `Takes`)
and to calls and ids of the past (`CallsPast`, `IdsPast`: no call is made anew, and an
id stays one of the bridge's or one of an application's for good); each part
is then shown for these few kinds of steps. The theorem is about `NoteSpec`; the
instance restricts it further by `Losses`, so that it holds there as well.

`Pairing!TypeOK`, `TickerFollowsActive` and `ConnectedIsAllowed` are proved for every
value of the constants and are not spent a run on.

Only model-checked: liveness (`CancelledRunsEnd`, `LostRunsRetry`, `ShutdownEndsSSH`,
`BrokenSessionStops`, `PhoneFreedOrAsking`, `ServerFreed`), which needs `ENABLED` and fairness and is out of
reach of TLAPS, and the four properties that runs show to be violated.

## Not modelled

- Parsing: DNS packets, `wpctl` and `pactl` output, key codes, the fields of messages.
  Values, whose errors are local and easily tested.
- Cryptography: keys, hashes, signatures and ciphers are represented by the secret
  of an exchange and by frame counters.
- The terminal emulator of the phone: a long table of escape sequences over a grid,
  without concurrency; no property of the system depends on it.
- Command-line client, GTK application and the phone's screens: one request, one
  answer, and what is shown.
- Device readings, ringing, uinput, icons, profiling: I/O without protocol state.

## Plan

What is modelled covers the components with protocol state, and every safety property
has its theorem. Left, in this order:

1. An abstract store whose acknowledged settings survive, implemented by
   `ConfigStore`; an abstract pairing agreement implemented by `Pairing`.
2. The clamp of coalesced movements and the token bucket as functions.
