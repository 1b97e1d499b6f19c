# Specifications of the BTicino Classe 100X integration

TLA+ modules, TLC configurations and TLAPS proofs for `custom_components/bticino_c100x`,
the Home Assistant integration that places monitoring calls to a Classe 100X intercom.
Paths below are relative to that directory unless they start with `README.md`, `docs/` or
`tests/`, which are relative to the repository.

`PROJECT.json` is the machine-readable side of this file: the components, the runs, a
mutant for every property, the source lines of every definition, the disagreements
between code and documentation, the hazards and the theorems.

## 1. Inventory

Everything runs in one asyncio event loop, so the code between two `await`s is atomic and
every `await` is a place where other tasks run. Only three objects have a lock of their
own: the session, the uplink and the WebRTC bridge. The runtime, the SIP client's dialog
and the manager have none.

| component | state | operations | talks to | what is hard, and what makes it correct |
|---|---|---|---|---|
| **Media runtime** `media_runtime.py` | negotiated call, FFmpeg child, audio leg with its own microphone flag, `_ending`, watchdog and stderr tasks | `start_monitoring`, `set_microphone`, `_watchdog`, `_teardown` behind `end_session`, `close`, `remote_ended` | SIP client (calls), session (events) | no lock: four kinds of task can tear down, one can start; each suspends up to three times. One teardown at a time; mute before everything else; nothing left behind; no FFmpeg without a supervisor |
| **Media session** `media_session.py` | state, device, microphone flag, viewer count, clean-up timer; a lock | `start`, `end`, `set_microphone`, `handle_event`, `add_viewer`, `remove_viewer` | runtime (calls), manager (notify) | events and viewers bypass the lock. The state on show must agree with the call; an error must stay visible; an abandoned call must end |
| **SIP client** `sip.py` | connection, pending requests, dialog, read and refresh tasks, send lock | `connect`, `register`, `start_monitoring`, `end_monitoring`, `release_door`, `close`; incoming INVITE, BYE | gateway, runtime (`on_call_end`), manager (`on_ring`) | the read loop awaits its handlers and reads nothing meanwhile; answers and BYEs may come late, early or never |
| **Manager** `manager.py` | current client, runtime, session and uplink, supervisor task, ring timer, seen Call-IDs, store | `async_start`, `async_stop`, commands, `_supervise`, `_media_event`, `_async_ring`, provisioning | all of the above | reconnects replace objects that suspended tasks still hold; cancellation in the middle of a connect; crash between registering, writing and saving |
| **Microphone uplink** `uplink.py` | owner, peer, forwarding task; a lock | `negotiate`, `close` | session, browser | one owner at a time; mute before capture stops; a peer's late "closed" event |
| **Card** `frontend/bticino-c100x-card.js` | peer, capture tracks, stream generation | start, end, microphone, retries | websocket commands | capture stops only after the server has muted |
| **WebRTC bridge, camera** `webrtc.py`, `camera.py` | peers, queued candidates, shared player, grace timer; a lock | `prepare`, `answer`, `add_candidate`, `close`, player clean-up | session (viewer count), manager | browsers that leave before they are answered; a player reused for the next call |
| **Websocket, buttons** `websocket.py`, `button.py` | none | one command each | manager | the unit of concurrency: each is a task |
| **Tokens, API** `auth.py`, `api.py` | tokens, expiry; a lock | `access_token`, `_refresh`, `_request` | cloud | rotation against restart, retries |
| **Provisioning** `manager.py`, `certificate.py` | account, key, certificate, stored client id | prepare at every start | cloud, disk | crash at every line |
| **SDP, framer, digest, topology** `sdp.py`, `sip.py`, `topology.py` | framer buffer only | pure functions | – | boundaries and malformed input |
| **Config flow, entities** | forms; none | – | manager | – |

## 2. What is modelled

    MediaRuntime <--EXTENDS-- MediaSession <--EXTENDS-- MonitoringCall
                                                          |  |
                     CallPromise    <--INSTANCE (refines)-+  |
                     UplinkSession  <--INSTANCE (refines)----+
                          ^
                          +--EXTENDS-- MicrophoneUplink     card, websocket.py, uplink.py
                                       WebRTCBridge         camera.py, webrtc.py
                                       SipTransactions      sip.py, button.py
         Provisioning <--EXTENDS--     GatewayManager       __init__.py, manager.py
            SdpAnswer <--EXTENDS--     MediaAnswer          sip.py (framing), sdp.py

Each module on the right has an `MC` module that declares the model values of its run, and
a `_proofs` module with its theorems. Those about `MonitoringCall` are in three, each
extending the one before: `MonitoringCall_proofs` (any environment, with the refinement of
`UplinkSession`), `PatientCall_proofs` (a gateway that lets a start finish) and
`ConnectedCall_proofs` (such a gateway and a connection that holds, with the refinement of
`CallPromise`).

`MonitoringCall` and `MicrophoneUplink` are composed by a contract: the first is shown to
implement `UplinkSession`, the second uses nothing else of the session. The others meet at
events that each of them takes as arbitrary: a viewer that joins or leaves (`WebRTCBridge`,
`MonitoringCall`), an INVITE or BYE that is answered or not (`SipTransactions`,
`MonitoringCall`), a connection that is lost or cannot be made (`SipTransactions`,
`GatewayManager`), an answer that is usable or not (`MediaAnswer`, `MonitoringCall`).

### The monitoring call

**`MediaRuntime`** holds the runtime's state as one record and, as operators on that
record, what each uninterrupted piece of `start_monitoring`, `set_microphone` and
`_teardown` does to it. A call is the number of the INVITE that placed it, which stands for
its Call-ID; `process` is the call whose SDP FFmpeg reads, so that "FFmpeg of a dead call"
can be said. `sending` is the flag of the audio leg (`AudioRtpProtocol`), `microphone` that
of the runtime: audio leaves the house only while the leg's flag is set.

**`MediaSession`** does the same for the session: its five states, device, microphone flag,
viewer count and clean-up timer.

**`MonitoringCall`** composes them with the dialog of the SIP client, the tasks that run the
code, and the gateway. `pc[t]` is the `await` at which a task is suspended:

| stage | suspended in |
|---|---|
| `preparing` | `start_monitoring`, reserving sockets and asking STUN |
| `inviting` | `SipClient.start_monitoring`, waiting for the answer to the INVITE |
| `acknowledging` | `SipClient.start_monitoring`, draining the ACK (`sip.py:331`, `373`): the dialog is set, the runtime has not heard of it |
| `spawning` | `start_monitoring`, writing SDP files and creating the FFmpeg process |
| `cancelling` | `_teardown`, waiting for the cancelled watchdog and stderr tasks |
| `terminating` | `_teardown`, waiting for FFmpeg to exit |
| `hangingUp` | `_teardown`, waiting for the answer to the BYE |
| `waiting`, `deaf`, `watching` | `_watchdog`: before the first frame, the same on an event object that has been replaced, after it |
| `queued` | a command waiting for the session lock |
| `armed`, `fired` | a viewer clean-up timer; its task waiting for the session lock |
| `sipBye`, `closing`, `closed` | the supervisor inside and after `SipClient.close` |

An action is the code from one suspension to the next, with everything it calls: a
teardown that reaches its end also delivers `call_state: ended` to the session, returns to
`end()` or `start()`, runs its `finally` clause and, when a second device was asked for,
goes on into `start_monitoring` up to its first `await`. `TeardownStops`, `TeardownReturned`
and `Stops` spell out that chain once for all callers.

| code | actions |
|---|---|
| `MediaSession.start` / `start_monitoring` | `Start`, `StartShared`, `SwitchDevice`, `PrepareFails`, `Invite`, `InviteRefused`, `InviteAnswered`, `AckRefused`, `InviteAccepted`, `AnswerUnusable`, `InviteFails`, `Spawn`, `SpawnFails` |
| `_teardown` | called from the actions below through `Teardown`; resumed by `HelpersGone`, `ProcessGone`, `ByeAnswered`, `ByeUnanswered` |
| `MediaSession._lock` | `Queues`, and the guards `Admitted` and `LockFree` |
| `MediaSession.end`, `set_microphone` | `End`, `TimerEnds`, `SetMicrophone` |
| viewers | `ViewerJoins`, `ViewerGivesUp`, `ViewerLeaves`, `TimerFires` |
| `_watchdog`, FFmpeg | `FirstVideo`, `WatchdogFails`, `FFmpegExits` |
| `_read_loop`, `_handle_request` | `ReadAnswer`, `RemoteEnded`, `ByeIgnored` |
| `_supervise`, `SipClient.close` | `SupervisorCloses`, `SupervisorByeReturns`, `SipCloses` |
| gateway, network (no code of the repository) | `GatewayPicksUp`, `GatewayHangsUp`, `LinkLost` |

The session lock is not a variable: it is held exactly by a command or timer task that is
suspended in `start` or `end` (`LockFree`). A command that finds it held queues (`Queues`), a
timer's task waits as `fired`. What a queued command will ask for is chosen when it gets the
lock, since nothing depends on it earlier. A queued command keeps the session it found, so it
runs even if the supervisor has dropped that session meanwhile, as does an uplink that is still
negotiating (`SetMicrophone`); a new command is refused then (`Reachable`).

**`CallPromise`** is what monitoring promises without sessions, tasks or messages: one call
at a time, which begins unwatched and muted; a picture only from the call it belongs to;
the microphone transmits only in a call and only while the panel shows it; releasing the
call leaves neither behind. `MonitoringCall` implements it under
`call <- rt.negotiated, media <- rt.process, hot <- rt.sending, shown <- ses.microphone`.

**`MCMonitoringCall`** adds the symmetry of users, devices, watchdogs and timers for TLC. It
is used in the runs without liveness properties only. (`KeepsPromise` and `SessionForUplink`
are safety properties, and none of their state distinguishes the permuted values.)

**Abstractions of the call**

* SIP messages are not represented by their text. Authentication of the INVITE (a second
  INVITE in the same transaction) is part of `inviting`; the ACK of its 200 is not, because
  the dialog is there while it is being written.
* The first pair of sockets, STUN and binding are one suspension: no other task can tell
  them apart, because the runtime's fields change only at its end.
* Time is not represented, with one exception. A timeout may happen at any moment at which
  the code waits; what has to happen eventually rests on fairness. The exception is
  `Handover`: while the lock is free and a command is queued for it, the sleeps of watchdog and
  timer do not end, because the event loop wakes the command in its next iteration.
* `SetMicrophone` stands for every caller of the session's method, that is the uplink.
  A refusal (wrong state, wrong SDP direction) changes nothing.
* The model follows one connection: after the supervisor has closed, the manager's
  reconnect starts a new instance from `Init`. Tasks that are still suspended in the old
  one stay in this one. A viewer that an earlier session counted may leave this one, which
  then counts nobody and arms its timer all the same (`ViewerLeaves`, where `SipMayFail`).

### The microphone uplink

**`UplinkSession`** is the session as the uplink sees it: whether it accepts a microphone
(`streaming`: it streams and no start or end holds its lock) and its flag. `MonitoringCall`
implements it under `streaming <- ses.state = "streaming" /\ LockFree,
mic <- ses.microphone` (`SessionForUplink`, checked and proved).

**`MicrophoneUplink`** builds the uplink, the card and the messages between them on it. A
click on "Microphone" has a number, which stands for the browser's tracks and peer, for the
negotiate command it sends and for the server's peer which that command creates; `owner`,
`peer` and `task` are the fields of the class. Replies reach a card in order, what it makes
of them is `tab` and `shown` (`this.peer` in the card).

| code | actions |
|---|---|
| `negotiate` | `NegotiateRefused`, `NegotiateBegins`, `PeerReplaced`, `TrackReceived`, `OfferFails`, `NoTrack`, `GivesUp`, `MicrophoneEnabled`, `MicrophoneRefused` |
| `_close_locked` | `CloseBegins` (mute, cancel forwarding), then the rest in `PeerReplaced`, `GivesUp`, `HandlerCloses`, `DisableCloses`, `EndCloses` |
| `state_changed` of a peer | `PeerFails`, `HandlerRuns`, `HandlerCloses`; `ClosedPeer` queues it for a peer that was closed on purpose, or not |
| `ws_microphone_set` | `ClickOff`, `DisableRuns`, `DisableCloses` |
| `async_end_monitoring` | `EndPressed`, `EndRuns`, `EndCloses`, `EndEnds` |
| card | `ClickOn`, `ClickOff`, `Receives`, `Joins`, `JoinFails`, `PageCloses` |
| session (everything else that happens to it) | `SessionStep` |

Muting does not suspend: `set_microphone(False)` waits for nothing unless the session's lock
is held, and the microphone is on only in a session whose lock is free (that is
`SessionForUplink`). The model makes the following behaviour of the code visible, none of
which any document excludes: a renegotiation under the same owner can be closed by the late
"closed" event of the peer it replaced; a microphone that the session refuses leaves owner
and peer set until End, a disable or the peer's own failure; a second click before the first
is answered makes the card forget the capture of the first; after End the card's
`disableMicrophone` is refused, so that the browser goes on capturing although nothing is
forwarded. `close` gives the uplink's lock back before End goes on to the session, so a
negotiation may run while the session is being ended (`Unlocked`).

### The viewers

**`WebRTCBridge`** has one task for each offer, the calls of `close` that wait for the lock
(`asked`, by who made them), the peers, the queue of early candidates as a number, the
player, its clean-up task, and of the manager whether there is a session and what it counts.
`reached` says of a peer whether it has an address of its browser to try, or knows that none
will come (the offer or a candidate may say so): only then does the library come to a verdict
about a browser that has gone.

| code | actions |
|---|---|
| `camera.async_handle_async_webrtc_offer`, `prepare` | `Offer`, `StartFails`, `StartReturns` |
| `answer` | `AnswerEnters`, `PlayerReady`, `PlayerMissing`, `Described`, `Answered`, `AnswerFails`, `AnswerFailed` |
| `add_candidate` | `AddCandidate` (without the lock, in every state of the answer) |
| `close` | `PageCloses`, `PeerFails`, `CloseEnters`, `CloseReturns` |
| `_schedule_player_cleanup`, `_cleanup_player_after_grace` | `CleanupScheduled`, `GraceEnds`, `CleanupRuns`, `CleanupFinishes` |
| `_viewer_changed`, reconnect of the manager | `ViewerJoins`, `ViewerLeaves`; `SessionDropped`, `SessionMade` |

A browser that leaves before its answer shows the other case. `close` drops its queued
candidates (`webrtc.py:180`) and finds no peer; `answer` then makes one, which if the offer
itself has no addresses waits for candidates that nobody will send. Its ICE neither connects
nor fails, and nothing in the repository ends that wait, so the viewer may stay counted for
ever. The model has this behaviour, and `ClosedBrowserForgotten` claims nothing of it.

A viewer whose session was replaced is counted off the new one when it leaves: `CountedOnce`
is an equation only as long as no session has been replaced, and an upper bound afterwards.

### The transactions of a connection

**`SipTransactions`** follows one `SipClient` from its first REGISTER to the end of `close`.
A request is a member of `First`, `Refreshes`, `Doors` or `Invites`, with up to two attempts
(the second with credentials); `pending` has the keys of `_pending`, `got` the future of the
attempt, `verdict` what the gateway made of each attempt at a door, whether or not anybody
is still waiting for the answer. The send lock is held by a task that is waiting for an
answer or writing an ACK.

| code | actions |
|---|---|
| `_authenticated_request`, `_request` | `Begin`, `Enters`, `DrainFails`, `TimesOut`, `AnswerTaken` (`Concludes`, `Sends`) |
| `_send_failure_ack` | `FailureTaken`, `FailureAcked` |
| `start_monitoring` | an INVITE among the above, and `Confirmed` for the ACK of its 200 |
| `release_door`, button | a MESSAGE among the above |
| `_read_loop`, `_handle_request` | `ReadAnswer`, `ByeArrives`, `ReaderFails` |
| `connect`, `_refresh_registration` | `Dialled`, `Registered`, `ConnectFails`, the REGISTERs |
| `end_monitoring` | `EndMonitoring`, `ByeReturns` |
| `wait_closed`, `close` | `SupervisorWakes`, `ManagerCloses`; `RegistrationCancelled`, `ReaderCancelled`, `WriterClosed`, `Swept` |
| gateway (no code of the repository) | `GatewayDecides` |

`MonitoringCall` has the dialog, the BYE and the runtime's side of an INVITE in more detail,
`SipTransactions` what is below: authentication, acknowledgement and the fate of a request
whose connection is closed.

### The life of an entry

**`Provisioning`** is a start: tokens (restored, refreshed, rotated, saved), the listing of
modules and accounts, registration of a SIP account, inspection and renewal of the
certificate with its three files written one after the other, and the client id saved last.
`tokenStore`, `idStore`, `cert`, `current`, `key`, `ca` and `accounts` are on disk or in the
cloud and survive `ProcessLost`, which is possible between any two steps.

**`GatewayManager`** extends it with the entry and the manager: `SetupBegins` to
`SetupUndone` and `SetupFailsLate` for `async_setup_entry` and `async_start`; `TlsUp`,
`ConnectRaises`, `Connected`, `DialUndone` for `_connect`; `BossWakes` to `BossUndone` for
`_supervise`; `StopBegins`, `StopEnds`, `StopCloses` for `async_stop`; `Rings`, `RingCleared`
for `_async_ring` and `_clear_ring`, through the client the manager has or is connecting
(`Listening`: its read loop begins before the registration and may outlive it); `Restart` for
the process. `link[k]` is what is left of client `k` whoever knows it, so that a client which
nobody will close can be told apart. There are two ways to leave one, and the model has both: a
reconnect that is cancelled inside `sip.connect()` (`manager.py:217`; the handler there catches
`Exception`, which cancellation is not), and a setup that fails after the manager has started
(`__init__.py:73-74`). They are collected in `orphans`, `ConnectionIsOwned` says that there is
no third. Also visible, and contradicted by no document: a crash between the certificate's and
the key's write leaves a pair that is taken for current; a crash after the registration leaves
an account behind; the certificate is renewed only by a start.

### The answer to an INVITE

**`MediaAnswer`** follows an answer from the TLS stream to the microphone. The server sends
messages, one of `Turns[k]` as its k-th; on the wire a message is one unit for each of its
lines (`Wire`), and a read brings any number of the units that have been sent and not read.
**`SdpAnswer`** is the parser: lines are reduced to what matters in them, `sections` is the
list that `parse_answer` builds, its last element the dictionary called `current`.

| code | actions |
|---|---|
| `_read_loop` | `Receives` a read and calls `feed`; `HandlesMessage` for each message returned |
| `SipFramer.feed`, a turn of its loop | `FramesMessage`; `FeedReturns` when the buffer holds no whole message; `FeedRaises` on a Content-Length that is no number, which loses what this read has framed and ends the read loop |
| `start_monitoring` (`media_runtime.py:277`) | `AnswerTaken`: the first final answer to the INVITE goes to `parse_answer` |
| `parse_answer`, a turn of its loop | `ReadsMedia`, `ReadsSessionConnection`, `ReadsConnection`, `ReadsDirection`, `ReadsRtpmap`, `ReadsCrypto`, `SkipsLine`, `LineFails` |
| `parse_answer`, after its loop | `Judges`, with the outcome `Judgement` |
| `set_microphone` | `SetMicrophone` |

Loops are actions here so that they can be reasoned about by invariants. `feed` and
`parse_answer` do not suspend: while one of them runs no other task does, only the server.
The buffer of the framer is what stands in `stream` between `taken` and `arrived`. Two things
are recorded that the code does not know: `ends`, where in the stream each message ends, and
the `line` at which a section begins; no action depends on either.

`Promised` says the outcome of `parse_answer` a second time, without reading: by the positions
of the lines, such as that the direction of a section is the last `a=` direction between its
`m=` line and the next one, and that the section that counts is the last open one of its kind.

## 3. Runs

In the four `call_` runs and the three that expect a violation, `SipMayFail` says whether the
connection or the registration may fail (the supervisor closes everything then),
`EarlyHangUp` whether the call of a start in progress may be taken from it: by the gateway,
which hangs up, or by the supervisor, which closes while the start sends its ACK.

| run | environment | bounds | states | checks |
|---|---|---|---|---|
| `call_supervised` | connection may fail, gateway patient | 2 users, 2 devices, 2 watchdog slots, 3 calls | 111,010 | `TypeOK`, `NoSilentMicrophone`, `TeardownExclusive`, `OneWatchdog`, `DialogIsNegotiated`, `MutedAtBye` |
| `call_connected` | connection holds, gateway patient | the same | 9,395 | `FFmpegIsWatched`, `StreamingHasCall`, `ErrorStays`, `KeepsPromise`, no deadlock |
| `call_hostile` | connection may fail, gateway hangs up at any moment | the same | 313,604 | `EndingMuted`, `MicrophoneOnlyWhileStreaming`, `NothingLeftWhenQuiet`, `SessionForUplink` |
| `call_progress` | connection holds, gateway hangs up at any moment, fairness | 1 user, 2 timers, 2 viewers, 2 calls | 95,978 | `CommandsFinish`, `DeadCallReleased`, `AbandonedCallEnds`, no deadlock |
| `microphone_uplink` | any session, peers fail, one page may close, fairness | 2 cards, 2 clicks | 65,830 | `TransmitsOwnersTrack`, `CaptureOutlivesTransmission`, `EndGetsThrough`, `ClosedBrowserLetsGo`, no deadlock |
| `webrtc_viewers` | browsers and peers go at any moment, reconnects, fairness | 2 browsers, 2 candidates each, a queue of 1 | 126,477 | `TypeOK`, `CountedOnce`, `WatchedPlayerKept`, `EarlyCandidatesReachPeer`, `ClosedBrowserForgotten`, `IdlePlayerReleased`, no deadlock |
| `sip_transactions` | silent or repeating server, failing writes and reader, fairness | a registration, a refresh, a door release, an INVITE | 527,953 | `TypeOK`, `PressOpensOnce`, `InviteFailureAcknowledged`, `NobodyWaitsOnClosed`, `PressReturns`, `LossIsNoticed` |
| `gateway_manager` | cloud, disk, link and process fail at any moment, fairness | 2 ids, 2 clients, 2 rings, memory for 1, 1 orphan | 766,027 | `TypeOK`, `ConnectionIsOwned`, `RingAnnouncedOnce`, `SavedIdentityKept`, `Reconnects`, no deadlock |
| `media_answer` | any cut of the stream into reads | 3 messages; some 340 answers of up to 2 sections | 251,381 | `FramedAsSent`, `AnswerHonoured` |
| `remote_bye_during_start` | gateway hangs up at any moment | 1 user, 2 calls | – | violates `RemoteEndTearsMediaDown` |
| `stale_cleanup` | gateway patient | 1 user, 2 timers, 2 viewers, 2 calls | – | violates `CleanupEndsItsOwnCall` |
| `mute_lost_in_teardown` | gateway hangs up at any moment | 1 user, 3 calls | – | violates `MutedBeforeRelease` |

**What the properties say.**

* *Call.* `NoSilentMicrophone`, `MutedAtBye`, `EndingMuted` and `MicrophoneOnlyWhileStreaming`
  are the safety ordering that the code's comments and `tests/test_media_session.py` insist
  on, here for every interleaving of commands, watchdog, remote BYE and supervisor.
  `TeardownExclusive`, `OneWatchdog`, `DialogIsNegotiated` and `FFmpegIsWatched` are what the
  runtime relies on without a lock; `DialogIsNegotiated` has one exception, an answered start
  that is sending its ACK, whose dialog the runtime does not know yet. `NothingLeftWhenQuiet`
  is the outcome of all error paths together, until the connection is closed. `ErrorStays` and
  `StreamingHasCall` relate what is shown to what happened. `KeepsPromise` and
  `SessionForUplink` are the two refinements. The leads-to properties say that a command
  returns although the gateway never answers, that the watchdog gets rid of a call the gateway
  has ended, and that a call nobody watches ends.
* *Uplink.* Whatever is transmitted comes from the track of the owner's peer; a card that
  was told that it is muted is; End gets through a queue of negotiations; a browser that was
  connected and has gone does not keep the uplink.
* *Viewers.* A browser is counted once on every way in and out; no answer loses its player
  to a clean-up; no early candidate is left in the queue; a browser that has gone is
  forgotten if its peer has addresses to try or its close is still to come, also when it went
  before it was answered; a player nobody watches is released.
* *Transactions.* One press opens the door at most once although the request may be sent
  twice and answers may come late or twice, and what the press reports is what happened; an
  INVITE's failure has its ACK; a close leaves nobody waiting; a press returns; a connection
  that has lost its reader or its registration is given up.
* *Manager.* The two ways to lose track of a client are the only ones; rings are announced
  once up to the limit of the memory; a saved identity is kept through crashes; a lost
  connection is replaced.
* *Answer.* `FramedAsSent`: framing does not depend on the cuts, and no message that has
  arrived is kept back. `AnswerHonoured`: parsing does not depend on where a line stands beyond
  what `Promised` says, and the microphone goes only to a unit that listens.

**Why the environments of the call differ.** With a gateway that hangs up on a start in
progress the properties of the first two runs do not hold. That is finding 1, whose
consequences reach far (finding 3 is one of them), so that these properties are stated for a
gateway that lets a start finish, and what holds regardless is checked separately in
`call_hostile`. A supervisor that closes while a start sends its ACK is excluded with it,
because it opens the way to finding 3 without a BYE (section 4). The theorems make the same
distinction: those about the properties of `call_supervised` assume `~EarlyHangUp`, those about
`call_connected` also `~SipMayFail`, those about `call_hostile` nothing. When the connection
fails, `SipClient.close` cancels the reader even in the middle of a teardown, whose rest is
skipped, and events no longer reach the session the user saw: `call_connected` is therefore
about a connection that holds.

**Bounds.**

* *Call.* Three calls are the fewest in which a teardown of the first, a running second and
  a start of a third can overlap, which finding 3 needs. Two users suffice because the lock
  admits one at a time; the second can only come between. A watchdog slot is reused when its
  task is gone, and a cancelled one may overlap with the next call's, so two are needed. Two
  timers allow an orphaned one beside the session's own, two viewers the difference between
  the last viewer and another. `call_supervised` and its neighbours have no timers or
  viewers: a timer's task runs the same `EndLocked` as a user, and the proofs cover them for
  any number.
* *Uplink* (`MaxClicks`, `Leavers`). Two clicks of one card are a renegotiation, of two cards
  a contest; three clicks (3.1 million states) have been checked for the safety properties,
  which are also proved for any number. One page that may close is enough, since the other
  card plays the one that stays. A card waits for one disable at a time.
* *Viewers* (`MaxCandidates`, `MaxPending`). With two browsers one can be answered while the
  other's close or clean-up waits. A queue of one and two candidates make the limit of 64
  matter.
* *Transactions.* The lock admits one request at a time, and a request waits for others in
  the same way whatever they are: one of each kind gives every order of two kinds in front
  of a third.
* *Manager* (`MaxOrphans`, `MaxSeen`). A client that is closed is used again, so two are the
  current and the next, or one and an orphan; `MaxOrphans` bounds how often a client may be
  left behind. Two ids show a second identity being drawn. Two rings and room for one exceed
  the memory of 100.
* *Answer* (`Turns`). Three messages put the answer behind one and in front of another, and
  can come in one read. Preambles, sections and attributes are chosen such that each branch
  of `parse_answer` is taken, in particular repeated, reordered and malformed lines, and
  bodies that contain an empty line.

**Deadlock.** Checked where the system goes on for ever. After the supervisor has closed the
connection and all calls are used up `MonitoringCall` stops, as does a closed connection
whose requests have returned (`sip_transactions`) and a stream that has been read
(`media_answer`), so those runs do not check it, nor do the runs that expect a violation.

**Fairness.** Users, pages, gateway, server, network, FFmpeg and the process are under no
fairness: in particular the gateway need not answer an INVITE or a BYE, nor hang up. What
is assumed is the following.

* *Locks* are `asyncio.Lock`s, which are FIFO: strong fairness for every task that queues
  (session, uplink, bridge, send lock).
* *Call.* A teardown and a start go on even if the gateway is silent (their awaits are
  bounded: 20 s for a SIP request, 1 s and a kill for FFmpeg, a timeout for STUN; the drain
  of an ACK is not, and is assumed to end like every write below), an armed
  timer fires, the read loop reads what has arrived, and a watchdog whose call delivers no
  media gives up (15 s for the first frame, 10 s afterwards).
* *Uplink.* A negotiation waits ten seconds for its track at most; a peer that was connected
  notices that its browser has gone (ICE consent). Nothing is assumed of a peer that was
  never connected: it may keep the uplink until End.
* *Viewers.* Awaits under the lock are bounded; the library notices that nobody answers at
  the addresses of a browser that has gone, or that it has none and expects none (`reached`);
  the grace period ends. Nothing is assumed of a peer that still waits for addresses.
* *Transactions.* A request times out after twenty seconds, `wait_closed` returns when one
  of the tasks it waits for has ended, and a write comes to an end. The last is an assumption
  about TCP, since `drain` itself has no limit.
* *Manager.* The supervisor runs, and a server that is asked again and again accepts the
  connection at last (strong fairness of `TlsUp` and `BossConnected`); without that no
  program could keep `Reconnects`.

## 4. Disagreements between code and documentation

1. **A BYE during a start** (`remote_bye_during_start`, `media_runtime.py:339`).
   `remote_ended` promises to "tear media down", but while `start_monitoring` is suspended
   between the answer and the spawn there is nothing yet to tear down, and the start does
   not look again: FFmpeg and a watchdog are created for a dead call and the session shows
   `idle`, in which `end()` does nothing. The watchdog cleans up after its timeout
   (`DeadCallReleased` holds).
2. **A stale clean-up timer** (`stale_cleanup`, `media_session.py:94`). README.md promises
   the end "ten seconds after the final viewer disconnects"; when the gateway ends that call
   first, the timer stays armed and ends the next one.
3. **A mute that is lost** (`mute_lost_in_teardown`, `media_runtime.py:240`). "disable capture
   before the call object is released" fails when a start resets `_ending` under a teardown
   that is still waiting. It takes finding 1 first: the orphaned FFmpeg's watchdog tears
   down, and `process` is already taken while it waits for FFmpeg to exit.

**A start that clears `_ending` under the supervisor.** Finding 3 has a second way in, for which
no BYE is needed. While a start is sending its ACK the dialog is set and `negotiated` is not.
If the connection is lost there, the supervisor's `runtime.close()` tears down and suspends in
the BYE; the start's ACK fails, its own `_teardown` finds `_ending` set and returns at once, and
the next start finds neither `process` nor `negotiated` and clears `_ending`
(`media_runtime.py:240`) under the supervisor. `call_hostile` includes this; the runs and
theorems of a patient gateway exclude it (`SupervisorCloses`).

**A teardown that is cut off.** The model also shows a behaviour that has no run of its own,
since no document speaks of it in so many words. The teardown for a remote BYE runs in the
read task. If the registration fails while it waits, the supervisor's `runtime.close()`
returns at once, because `_ending` is set (`media_runtime.py:447`), and `sip.close()` cancels
the read task (`sip.py:228`): the rest is skipped, and the audio leg and, if it had not been
asked to stop yet, FFmpeg stay in a runtime that nothing refers to. The microphone is off by
then. `NothingLeftWhenQuiet` therefore speaks of the time until the connection is closed.

## 5. Proofs

Every theorem holds for all values of the constants that satisfy the named `ASSUME`s of the
modules, which TLC evaluates in every run: things of different kinds are different values,
`None` is none of them, bounds are numbers, and where members are counted the set is finite.
Each proof has an invariant that the initial states satisfy (`InvInit` or a step of that
kind), that each action preserves (one lemma for an action or a group of actions), and that
implies the property.

Every safety property of a passing run, both refinements among them, is the statement of a
theorem.

### The call, in any environment

`MonitoringCall_proofs`, with neither `SipMayFail` nor `EarlyHangUp` restricted:

* `TypeCorrect`: `Spec => []TypeOK`
* `EndingStaysMuted`: `Spec => []EndingMuted`
* `MicrophoneShownOnlyWhileStreaming`: `Spec => []MicrophoneOnlyWhileStreaming`
* `NothingIsLeft`: `Spec => []NothingLeftWhenQuiet`

**The lock.** `EndingMuted` is not inductive. That no one sets a microphone flag while the
session is ending depends on the lock: the state is `ending` only while a task is suspended
in `_end_locked`, and `set_microphone` needs the lock. But events change the state without
the lock, and a reader or watchdog may be in the middle of a teardown. The inductive
invariant `IInv` is `TypeOK` together with `LockInv`: at most one command or timer is
suspended under the lock (`LockExclusive`); there is room for a call while one is being
started (`RoomForCall`); while somebody holds the lock both flags are off (`MutedUnderLock`);
the state is `ending` only while somebody holds it (`EndingIsReported`); and
`MicrophoneOnlyWhileStreaming`. The proof does not go through each action by hand four
times: `ReturnRests` and `TeardownRests` establish once what a task leaves behind when it
stops (it is at rest, suspended, or has returned, and the others are untouched), and
`RestKeepsLock`, `ResumeKeeps` and `TeardownKeeps` carry the invariant across that. Then
there is one short lemma per action, `InvInit`, `InvStep` and `InvAlways`.

**Nothing is left.** That an overtaken start or teardown still leaves nothing behind is the
least obvious theorem here, because there is no lock and the gateway may hang up at any
moment. A start that fails while another task is tearing down finds `_ending` set and returns
at once: it relies on that teardown, which may already be past the point where it would have
noticed. `KindInv` says where each kind of task can be suspended and for whom it tears down.
`KeptInv` then says, until the supervisor begins to close, that somebody is there to let go
of whatever there is:

* `EndingIsOwned`: `_ending` is set for a task inside `_teardown`, and for one that has yet to
  reach the dialog if there is anything a start could leave to it;
* `LeftDialogIsTaken`: a dialog without an FFmpeg belongs to an answered start, or a teardown
  has yet to take it;
* `TwoLetGo`: if a start is preparing while `_ending` is set and an older dialog is there, two
  teardowns have yet to let go. Without it the invariant is not inductive: one of them can
  take the dialog and be gone while the start relies on the other;
* `CallIsKept`: dialog, negotiated answer and audio leg each have a start, a watchdog or a
  teardown;
* `InPlace`: where the tasks of a call are meanwhile (the dialog is gone while the reader tears
  down, a start that waits for its answer has no dialog and no reader in a teardown that read
  it, a start has no FFmpeg before its own, a watchdog that tears down is not the monitor).

Once the supervisor has begun to close it never comes to rest again (`SupervisorStays`), and
the property says nothing of what a closed connection leaves (section 4: it may leave
something). The lemmas follow the actions: `CallAttends` for a teardown that is called,
`TeardownStepAttends` for one that goes on, `UserStepAttends`, `StartStepAttends` and
`OtherStepsAttend` for the rest. `KeptInv` was found with TLC, under the constants of
`call_hostile`, before it was proved.

### The call with a patient gateway

`PatientCall_proofs`, assuming `~EarlyHangUp`; the connection may fail, but the supervisor does
not close it while a start sends its ACK:

* `OneTeardownAtATime`: `Spec => []TeardownExclusive`
* `OneWatchdogPerCall`: `Spec => []OneWatchdog`
* `ClientAndRuntimeAgree`: `Spec => []DialogIsNegotiated`
* `NeverSilentlyOn`: `Spec => []NoSilentMicrophone`
* `MutedBeforeBye`: `Spec => MutedAtBye`

**Argument.** The five depend on each other and share one invariant, `PatientInv`: with two
teardowns side by side, the one that returns first clears `_ending` under the other, and
neither dialog nor microphone flags belong to one call any longer (finding 3). A teardown is
exclusive because nobody starts under it: a task other than a command keeps `negotiated` set
until it returns, and `start_monitoring` does not start over a call (`TeardownBarsStarts`);
a command's own is under the session lock. For that, a start must not be overtaken, which is
where the assumption enters: no BYE is unread for a call that is not yet placed or still
being started (`UnplacedIsSilent`, `StartedCallIsAlive`), a start without an answer meets no
other call (`UnansweredStartIsAlone`), one with an answer has its call unless the supervisor
is hanging it up or has done so (`AnsweredStartHasCall`), and one that sends its ACK has the
dialog while the runtime has nothing (`AcknowledgingStartHasDialog`), which is the exception
that `DialogIsNegotiated` names. The supervisor is an exception in several conjuncts, since
`SipClient.close` hangs up without asking anybody. `TeardownInOrder` says what each stage of a
teardown has behind it, `MonitorWatches` that who supervises is the runtime's monitor and has
an FFmpeg, `OrphanIsUnreachable` that FFmpeg outlives its call only when the session has been
dropped, `FailureIsShown` that a watchdog that tears down has reported its failure first,
`SendingNeedsAudio` that a mute by closing the leg is a mute.

### The call with a patient gateway and a connection that holds

`ConnectedCall_proofs`, assuming `~EarlyHangUp` and `~SipMayFail`:

* `FFmpegHasKeeper`: `Spec => []FFmpegIsWatched`
* `StreamingIsACall`: `Spec => []StreamingHasCall`
* `ErrorOnShow`: `Spec => ErrorStays`
* `CallKeepsPromise`: `Spec => KeepsPromise`, the refinement of `CallPromise`

**Argument.** `ServedInv` holds for as long as the supervisor is at rest, even if the
connection may fail: a negotiated answer or an audio leg has a task in charge of it
(`CallIsOwned`), FFmpeg has its watchdog or a teardown that has still to stop it
(`FFmpegIsOwned`), a start is shown as connecting and a supervised call as live (`StartIsShown`,
`SupervisedIsLive`), and `StreamingHasCall`. With a connection that holds, the supervisor has
nothing to do (`SupervisorRests`), so that this is `Connected`, always. For the refinement,
`StepIsPromised` goes through the actions once: each either gains something and is then a
step of `CallPromise` (`Answer` for a start whose ACK is out, even if it fails over it and
waits in a teardown, `Watch` for `Spawn`, `SpeakOn` for `SetMicrophone`), or leaves fewer of
call, picture, microphone and its display than before (`Fewer`). `FewerIsAllowed` shows that
`CallPromise` permits every such loss: if the call itself goes then all goes, by
`OrphanIsUnreachable` and `StreamingHasCall`, and if it stays then the panel still shows what
is sent, by `NoSilentMicrophone`.

The assumptions are not vacuous: they are the constants of the runs `call_supervised` and
`call_connected`, whose calls start, fail and end in every way that does not need the excluded
event.

### The session as the uplink sees it

The end of `MonitoringCall_proofs` proves the second refinement, in any environment:

* `SessionIsUplinkSession`: `Spec => SessionForUplink`

It needs one more invariant, `PanelOff`: while somebody holds the session's lock the flag on
show is off. `MicKeeps` then says of every action but `SetMicrophone` that it turns no
microphone on and, when it takes the lock, leaves none on; that is a step of `UplinkSession`
or a stutter (`StepImplements`).

### The uplink

`MicrophoneUplink_proofs`: `TypeCorrect` (`TypeOK`, proved, so that no run checks it),
`TransmitsOwners` (`TransmitsOwnersTrack`) and `CaptureOutlives`
(`CaptureOutlivesTransmission`).

`TransmitsOwnersTrack` follows from the lock (`LockInv`, one holder) and from what its holder
may rely on (`OwnInv`: nothing is forwarded between the start of a close and the next track,
a negotiation that offers or enables is about the current peer). `CaptureOutlives` is about
messages in transit: an acknowledgement that the card has not read yet must not stop a
capture that a later negotiation has begun to forward. `CaptureInv` says that an
acknowledgement still in the inbox of the owner stands before the reply to the negotiation
of the forwarded track, so that the card applies it to an earlier track. For that, the reply
to a negotiation must be the only one of its kind and find its click still waiting
(`ReplyInv`), and a card must show only tracks that are on (`CardInv`). The lemmas about
`Append` and `Tail` of the inbox are stated once.

### The viewers

`WebRTCBridge_proofs`: `TypeCorrect`, `ViewersCountedOnce` (`CountedOnce`), `PlayerAlwaysKept`
(`WatchedPlayerKept`) and `CandidatesReachPeer` (`EarlyCandidatesReachPeer`). The invariant
adds to them who holds the lock (`LockInv`), who has a peer at which stage of the answer or
of a close (`PeerInv`: the clean-up runs only when nobody has one, which is why it never
overtakes an answer), and that a manager without a session counts nobody (`CountInv`).

### The transactions

`SipTransactions_proofs`: `TypeCorrect`, `PressesOpenOnce` (`PressOpensOnce`),
`InviteFailuresAcknowledged` (`InviteFailureAcknowledged`), `NobodyEverWaitsOnClosed`
(`NobodyWaitsOnClosed`). The invariant is one of each request: whoever waits is listed under
the attempt it waits for and under no other (`TaskInv`), which is what makes a close reach
everyone; a second attempt at a door is made only if the first was answered by a challenge,
and what a task was told is what the gateway did (`DoorInv`). A step concerns one request and
leaves the others `Untouched`, except the two steps of `close`.

### The manager

`GatewayManager_proofs`: `TypeCorrect`, `ConnectionAlwaysOwned` (`ConnectionIsOwned`),
`RingsAnnouncedOnce` (`RingAnnouncedOnce`) and, as an action property,
`SavedIdentityAlwaysKept` (`SavedIdentityKept`). `Turns` says who may act when (a start only on
an entry that is not loaded, the supervisor only on one that is, one client being made at a
time), `Holdings` what the manager holds then, `IdentityKnown` that a start which has read the
store uses the id it found, `RingInv` that everything announced is remembered until there is
too much of it.

### The answer

`MediaAnswer_proofs`, for any number of messages, any bodies and any cut into reads:

* `StreamFramed`: `Spec => []FramedAsSent`
* `AnswerIsHonoured`: `Spec => []AnswerHonoured`

`StreamAssumption` is what they need of the server: a message is a start line and headers
without an empty line among them, an empty line and a body of any lines, empty ones included;
its Content-Length, if it has one that is a number, is the length of the body. Nothing is
assumed of what a body says. Both are stated for loops that go on for as long as the stream
or the body does, so that their invariants take the place of an induction over it.

**Framing.** `StreamInv` says where the server has put its messages: the k-th stands in
`stream` between the end of the one before it and `ends[k]` (`StandsAt`). `ReaderInv` says how
far the reader is: what has been handled and what has been framed are the first messages that
were sent, `taken` is where the last of them ends, and when the reader is between two calls of
`feed` the next one has not arrived as a whole. `Buffer` is the lemma on which it rests: the
first empty line in the buffer is the one after the headers of the next message, because none
stands before it, and from there on Content-Length leads to the end of that message, however
many empty lines the body has. `NextMessage` is what `FramesMessage` appends, `NothingBehind`
why `FeedReturns` leaves nothing. After `FeedRaises` nothing more is read, and all that is
claimed is that what was handled before is right.

**Parsing.** `SectionsInv` says what the sections are after `at` lines: one for each media line
that has been read, in their order, each with what the lines of that section have said so far
(`SectionOf`), the lines being picked by position as `Promised` picks them. A line that is read
belongs to the last section and to no other (`MediaSaysNothing`, `SaysNothingOfOthers`), and is
the last of its kind there (`SaysOfLast`), which is why overwriting a field and looking for the
latest position come to the same. `ReadableInv` and `ConnectedInv` add that nothing malformed
has been passed and what has been said before the first section. When all lines are read,
`AllSaid` makes of "so far" the whole section, and `JudgementIsPromised` compares `Judgement`,
which goes through the sections, with `Promised`. `AnswerInv` carries the result on: the body
being parsed is that of the first final answer, which later messages do not change
(`FirstAnswer`, `AnswerStays`).

The first and the last of some positions are `CHOOSE`s; that they exist follows from the
well-foundedness of `<` on the natural numbers (`HasEarliest`, `HasLatest`).

### Only model-checked

* **Liveness and deadlock freedom** (`CommandsFinish`, `DeadCallReleased`, `AbandonedCallEnds`,
  `EndGetsThrough`, `ClosedBrowserLetsGo`, `ClosedBrowserForgotten`, `IdlePlayerReleased`,
  `PressReturns`, `LossIsNoticed`, `Reconnects`): fairness of an action speaks of `ENABLED`, which
  the prover does not handle.

## 6. What could come next

1. What is left of `TeardownExclusive` and `NoSilentMicrophone` when the gateway hangs up on a
   start: the theorems assume that it never does, while finding 1 suggests that they hold
   until it does so for the first time, and again once the orphaned FFmpeg is gone.
2. `WebRTCBridge` refining an abstract count of viewers which `MonitoringCall` uses, as
   `UplinkSession` does for the microphone.
3. `close_all` of the bridge and the removal of an entry with its stores, once more than one
   entry or a shutdown with open pages matters.

## 7. Not modelled

* **Topology** (`topology.py`) and **config flow** (`config_flow.py`): filters over JSON, and a
  sequence of forms whose state Home Assistant keeps. Nothing runs concurrently in them, and
  a model would repeat their text.
* **Packets and keys**: RTP numbering and wrap-around, SRTP, codecs, STUN messages, sockets and
  ports (which port a player reads, therefore), digest computation, key generation and
  signing. They are computations of libraries or of a few lines each.
* **Text**: SIP headers, the offer that is written, candidate rewriting, error messages,
  scraping of the login pages, JSON decoding.
* **Of modelled components**: `close_all` and the snapshot track of the bridge; the refusal of
  an incoming call after a delay (`_delayed_busy`) and a single CRLF in front of a start line
  in the framer; lifetimes of tokens beyond valid or not; what an orphaned client does later;
  the frames that the uplink forwards; the stream element of the card.
* **Entities that only show state**, diagnostics, translations, packaging and tests.

Hazards without a property, each with its reason, are in `PROJECT.json`: an INVITE that is
answered after its timeout, a crash between two files of the certificate, a certificate that
expires while the entry stays loaded, a `drain` without limit, a player reused for another
port, a ring that arms its timer again during a stop, and an event of an earlier runtime that
reaches a new session.
