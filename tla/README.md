# Reolink SIP gateway: a TLA+ verification project

The gateway (`src/reolink_sip_gateway`, Go) connects a Reolink door station with SIP
telephones. A press of the bell, an API request or an incoming INVITE starts a call;
an outgoing call rings several phones at once and keeps the first that answers; the
media session then carries audio between phone and camera until someone hangs up.
This directory models the control logic of that program, model-checks it with TLC and
proves its central properties with TLAPS. Paths below are relative to
`src/reolink_sip_gateway`.

## 1. Inventory

| Component | State | Operations | Hard behaviour |
|---|---|---|---|
| Call slot, `internal/callcontrol/controller.go` | `active`, `generation`, `cancel` | `Start`, `CancelActive`, `Active` | check before the lock, release and cancel as separate steps, hang-up racing the end |
| Call runners, `cmd/gateway/main.go` | contexts, media result, status snapshot | `handleCall`, `handleIncomingCall`, hang-up command, shutdown | four-way selects, bounded waits, watcher goroutine with check-then-act |
| Forked dialling, `internal/callcontrol/fork.go` | result channel, count, drain goroutine | `DialFirst`, `drainLosingDialogs` | simultaneous answers, context end with results queued, late success |
| SIP client, outgoing, `internal/sip/client.go` | `transactions`, `active`, `completedDialogs`, `canceledInvites` | `Dial`, `transact`, `Hangup`, `Close`, `readLoop` | UDP loss, duplication and reordering, CANCEL crossing 200 OK, hand-off to a tombstone |
| SIP client, incoming, `internal/sip/incoming.go` | `serverInvites`, `active`, `incoming` queue, per-INVITE state | INVITE, ACK, CANCEL, BYE handlers, `Answer`, `Reject`, timers | answer/cancel/reject race, capacity claimed between two checks, re-INVITE |
| SIP registration, `internal/sip/client.go` | `registered`, CSeq, back-off | `StartRegistration`, `register` | refresh before expiry, 423, shutdown |
| Status store and API, `internal/status` | snapshot, revision, subscribers | `Update`, `Subscribe`, `PublishDTMF`, commands | slow subscribers, replaced updates |
| Home Assistant listener, `internal/ha` | edge state per entity, connection | WebSocket events, REST polling | switch between the two sources, dropped triggers |
| Live image, `internal/liveimage` | channel table and its file, one frame cache per channel | discovery, requests by channel or camera, prewarm | table replaced under requests, frames with two deadlines, restart around a save |
| Media session, `internal/media`, `internal/baichuanaudio` | goroutines, PCM queue, FFmpeg | set-up, forwarding, watchdog, shutdown | ten early returns, goroutines that wait for each other at the end |
| Baichuan client, `internal/baichuan` | pending requests, preview queue, login | request and reply, talk, preview, shutdown | replies after their request was given up, queue overflow |
| RTSP client, `internal/rtsp` | pending requests, keep-alive failures | open, keep-alive, reports, audio, TEARDOWN | writes without deadline, answers racing the end of the connection |
| Configuration, start-up, calibration, digest, codecs | none that outlives a call | pure or sequential | - |

The main loop gives triggers and INVITEs to the slot; the slot runs one runner, which
calls the fork or answers the INVITE, starts the media session and cleans up. The fork
runs one `Dial` per leg on one of two SIP clients. Each client has one reader goroutine
that shares its tables, under one mutex, with `Dial`, with the application and with
timer goroutines. Runners, watcher and hang-up command write one status snapshot. A media
session has two Baichuan connections (NVR), or an RTSP connection and an FFmpeg process
(standalone camera). Live images are independent of calls, but for the prewarm that an
accepted ring starts.

What makes each component correct: the slot has one owner, and hanging up reaches the
owner only; a runner ends, leaves no dialog or media session behind and reports the
truth; the fork leaves no phone connected or ringing but the winner's; a SIP client
acknowledges every 200 OK, hangs up every call it does not want, answers each INVITE
once and respects the account's limit; a media session that is canceled ends, and leaves
neither connection nor goroutine behind; a live image shows the camera that was asked for.

## 2. Modules

| Module | Models | Reads |
|---|---|---|
| `CallController` | `Controller`, one action per critical section | `controller.go` |
| `Gateway` | both runners inside the slot, watcher, status, shutdown; extends `CallController` | `main.go` |
| `GatewayProofs` | proofs about both | |
| `LegRace` | abstract specification: what forked dialling promises | |
| `DialFork` | `DialFirst`, the drain, the leg closures; implements `LegRace` | `fork.go`, `main.go` |
| `DialForkProofs` | proofs about it | |
| `SipDial` | one outgoing INVITE from `Dial` to the end of its traces in the tables | `client.go` |
| `SipDialProofs` | proofs about it | |
| `SipIncoming` | the server side of a client with the call table it shares with `Dial` | `incoming.go`, `client.go` |
| `SipIncomingProofs` | proofs about it | |
| `HaListener` | the listener between WebSocket subscription and REST polling | `ha/listener.go` |
| `HaListenerProofs` | proofs about it | |
| `StatusStore` | `Update`, `PublishDTMF`, subscriptions and event streams | `status/server.go`, `status/api.go` |
| `StatusStoreProofs` | proofs about it | |
| `LiveImage` | catalog, discovery, state file, frame caches, requests, prewarms | `liveimage/*.go`, `status/live_image.go`, `cmd/gateway/live_image.go` |
| `LiveImageProofs` | proofs about it | |
| `BaichuanClient` | the two Baichuan connections of a session | `baichuan/*.go` |
| `RtspClient` | the RTSP backchannel | `rtsp/client.go` |
| `MediaSession` | `Session.Run` with its goroutines; extends both clients | `media/session.go`, `media/talkback*.go`, `baichuanaudio/receiver.go` |
| `MediaSessionProofs` | proofs about all three | |
| `MC*` | instances for TLC | |

Definitions whose comment says "Mutant of ..." are plausible mistakes in the operation
they precede. They belong to no specification; each shows that some property would
notice the mistake.

**CallController.** `thread[c]` is the position of one invocation of `Start`: the context
check, the critical section, the call function, the deferred release, the deferred
`cancel()`. `generation` and `gen[c]` are the counter and the value the goroutine captured.

**Gateway.** `pc[c]` is the runner's position and `todo[c]` what its chosen exit still has
to do, in the order of the code: BYE or Reject, wait for the media (five seconds), wait
for the fork (seven seconds). Timers are steps that may be taken while the wait lasts.
The dialog is none, pending, up or done, the media session none, setup, live or over.
`state` and `dir` are the two snapshot fields that decide what the API reports. The
process context may end at any time; `Exit` is `main` returning, after which nothing runs.

**DialFork.** One goroutine per leg reserves a socket, dials and sends its result to the
buffered channel; `DialFirst` takes results or the end of the context, whichever `select`
prefers; the drain collects `remaining` results and hangs up late successes in parallel.
A leg sends without looking for room; that the channel, made for one result per leg, is never
full is part of `TypeOK` and proved.

**SipDial.** The requests and responses on the wire are sets from which anything may be read
any number of times or never: loss, duplication and reordering. `CSeqs` are the INVITE
and its repetition with credentials. `waiting` and `chan` are the entry in
`transactions`, `tomb` the entry in `canceledInvites`. Every write may fail; the
history variable `failed` records it, because the code gives up there.

**SipIncoming.** A key is a server transaction; two keys with the same `CallOf` are an INVITE
and a re-INVITE. `handling` is the reader between its two capacity checks, where an
outgoing call may claim the place; `out` counts the outgoing calls. The state changes of an INVITE happen under its mutex.
Requests refused for their source, headers or caller change nothing and are left out, and so
is a repeated INVITE whose transaction is still known. One whose transaction is forgotten
would be a new INVITE; `LiveInviteIsKnown` says that no live call can get there.

**HaListener.** `phase` is what the one goroutine does: connect, seed the edge detector,
read events, poll, wait. `answer` holds the results of the parallel requests of
`fetchRouteStates`, each read at a time of its own and used when all have arrived.
`previous` is the detector's memory; it tells "on" from everything else, as the code does.
Presses are numbered for the properties only (`seen`, `rung`, `again`). A press that the full
trigger queue drops counts as rung: the triggers that fill the queue ring for it.

**StatusStore.** A snapshot is its revision. `Update` holds the mutex while `todo` is not
empty and performs its three channel operations as separate steps (`select`), because a
client receives without the mutex; `PublishDTMF` holds it while `sending` is not empty and
offers the key to one client after the other. The select loop of `serveEvents` is the client.

**LiveImage.** `table` and `nvr` map channels to cameras, what the catalog says and what is
connected; `disk` is the state file. Discovery is three steps: the NVR's answer, the
replacement of the table, the save. A request checks its path, looks its Source up again,
locks the Source and sends the cached frame or captures one; a capture names the channel,
so it shows whatever is connected there when it ends. `recent` and `warm` are the two deadlines of a
frame, which may pass at any moment; no clock is needed. `rung`, `renewed`, `old`,
`informed`, `current` and `unsaved` serve the properties. A restart may happen between any two steps.

**BaichuanClient.** A client is a record: connection, goroutines, login, and the request in
progress with its channel (`box`). `asked` are the requests the device may still answer,
those that were given up too. Functions such as `Asking` or `Shut` are what a caller
does to its client; actions such as `ReadReply` are the client's own goroutines. The preview's
subscription exists from before its request, so media may be queued ahead of the reply.

**RtspClient.** The same with two requesters, the session and the keep-alive. `stalled`
is a camera that no longer reads: writes then block, since they have no deadline.

**MediaSession.** `pc` is the position of `Run`, `worker` its goroutines (and the RTP receiver
that `runBaichuanAudioBridge` starts and does not wait for), `rcv` the receiver's goroutine.
The device's mode decides both directions (`ReceiveMode` follows from it), so an NVR uses
the Baichuan clients and a standalone camera RTSP and FFmpeg. The RTP sockets belong to the
runner: `Run` closes them by its deferred calls, but the checks that fail before these are
deferred (`session.go:108`, `:124`) leave them to the runner's own (`RunnerCloses`,
`main.go:739`, `:755`), which also run when the runner's wait for `Run` has timed out. Audio is left out but for the
preview's queue and the PCM queue, on which goroutines can block.

## 3. Runs

| Run | Instance | Shows |
|---|---|---|
| `gateway` | one outgoing, one incoming call | `SlotHasOneOwner`, `OnlyOwnerIsCanceled`, `FreeSlotShowsNoCall`, `DialogEndsBeforeSlot`, `MediaOutlivesRunnerOnlyByTimeout`, `EveryCallEnds` |
| `gateway_overlap` | the same | `NoMediaOverlap` is violated (section 6) |
| `dial_fork` | three legs | `NoOrphanLeg`, `WinnerIsKept`, the refinement `RaceSpec`, `NothingLeaks` |
| `sip_dial` | ring timeouts 30 and 60 s, channel of 3 | `AnswerIsAcked`, `UnwantedCallIsHungUp`, `RingingIsCanceled`, `CancelFollowsResponse`, `HandOffIsExclusive`, `CanceledDialReturns` |
| `sip_dial_long_ring` | the same | `RingingAlwaysCanceled` is violated |
| `sip_incoming` | INVITE, re-INVITE, another INVITE; one call, queue of one | `CapacityRespected`, `OneFinalResponse`, `EstablishedCallIsReachable`, `LiveInviteIsKnown`, `EveryInviteIsAnswered`, `NoHalfOpenCall` |
| `sip_incoming_reinvite` | the same with two calls | `EstablishedCallIsReachable` is violated |
| `ha_listener` | two sensors, pressed twice and once; trigger channel of one | `RingsAtMostOnce`, `SubscribedPressRings` |
| `status_store` | two clients, three snapshots, three keys, DTMF channel of one | `NewestIsNeverLost`, `PublisherNeverBlocks` |
| `live_image` | two channels (the second is primary), two cameras, five layouts, one move, one phone, two rings | `RestartRestoresCatalog`, `RightCamera`, `OnlyRingsExtendFrames` |
| `live_image_moved` | the same without rings | `CameraIsFollowed` is violated |
| `media` | an NVR and a standalone camera; queues of one, one authentication retry, two keep-alive failures | `LoginUsesItsOwnNonce`, `ReturnLeavesNothing`, `CanceledSessionEnds` |

Each passing run also checks its module's type invariant.

*Bounds.* Two calls suffice for every pairwise race on the slot, each of which may come
first; the theorems of section 5 cover any number. Three legs give a winner, a late
success and a failure at once. A channel of three instead of eight is filled by
repeated provisional responses; the queue of one instead of four is filled by one call.
30 and 60 seconds lie on either side of the 32-second deadline of a transaction, which is
the only thing the value decides. Two presses of one sensor give an event that is read
late, after the next press; a third snapshot replaces a replaced one. The five layouts of
cameras have a swap, a camera that leaves the primary channel, one without UID and one
reported twice, where discovery drops the primary channel's report as the duplicate (hence
the second channel is the primary one); after one move all of them can be the old and the new one. Two rings
prewarm a frame again that was prewarmed and consumed before. Queues of one instead of
256, 128 and 8 fill at once, and two failures instead of three
reach both branches of the count. Presses, snapshots, keys, moves and rings are bounded
in the guards (`MaxPresses`, `MaxRevision`, `MaxKeys`, `MaxMoves`, `MaxRings`); nothing else
is, and no state constraint is used. Deadlock is not checked, because all these components come to rest.

*Fairness.* Goroutines that can run are scheduled and timers fire: weak fairness of the
runner and the call-duration timer (`Gateway`); of `DialFirst`, drain, legs and ring timer
(`DialFork`); of `Dial` and its timers (`SipDial`); of the application and the ACK timer
(`SipIncoming`); of the listener's goroutine, whose requests time out after five seconds
(`HaListener`); of the goroutine inside `Update` (`StatusStore`); of `Run`, of each client
and of the end of every goroutine whose context or socket has ended (`MediaSession`). Strong
fairness is assumed once: the keep-alive's select has its tick and the end of its context
ready again and again and does not choose the tick for ever. No fairness is assumed
of camera, phone, network, API client or user. `DialFork`
assumes that `Dial` returns once its context is done, which is `CanceledDialReturns`;
`SipIncoming` assumes that the application decides on each INVITE, which is
`EveryCallEnds`.

## 4. What the properties say

- `SlotHasOneOwner`, `OnlyOwnerIsCanceled`: no two calls at once; a call that ends late
  neither frees its successor's slot nor is hung up in its place.
- `FreeSlotShowsNoCall`: a hang-up between the runner's last update and the release
  cannot leave "ending" behind, and a late watcher cannot leave "active".
- `DialogEndsBeforeSlot`, `MediaOutlivesRunnerOnlyByTimeout`: all paths out of the
  runners end the dialog and wait for the media; only the time limit cuts that short.
- `NoOrphanLeg`, `WinnerIsKept`, `NothingLeaks`: the fork hangs up the losers and never the
  winner, and closes every socket.
- `AnswerIsAcked`, `UnwantedCallIsHungUp`, `HandOffIsExclusive`: each 200 OK has exactly one
  responsible party in every interleaving of `Dial`, the reader and the timers.
- `RingingIsCanceled`, `CancelFollowsResponse`: a phone that was heard ringing gets CANCEL, neither too late nor too early.
- `OneFinalResponse`, `CapacityRespected`, `LiveInviteIsKnown`, `EstablishedCallIsReachable`:
  the tables of the server side agree with the dialogs that exist.
- `RingsAtMostOnce`, `SubscribedPressRings`: both sources may see a press, one reports it;
  the seed of the fallback suppresses no event.
- `NewestIsNeverLost`, `PublisherNeverBlocks`: a slow client misses intermediate snapshots
  only, and neither it nor a client that reads no keys delays an update or a key.
- `RestartRestoresCatalog`: whatever failed or was interrupted, the next start publishes the
  channels of the last discovery that was saved. `RightCamera`: a path with a camera ID
  shows that camera, although tables, Sources and cameras change between the steps of a
  request, if the entry that the request found is one that the last discovery made from the
  current layout. Two exceptions remain: a frame cached before the move, which the channel's
  Source keeps for its lifetime, and the entry that discovery keeps for a primary channel whose
  report is missing or dropped (finding 4). `OnlyRingsExtendFrames`: polling alone never keeps an old frame alive. It
  bounds a frame's age by the rings that prewarmed it, which can exceed the five seconds that
  `source.go:123` speaks of: a prewarmed frame that is sent counts as new for 750 ms, in which
  the next ring prewarms it again.
- `LoginUsesItsOwnNonce`: a late reply never reaches the request that followed.
  `ReturnLeavesNothing`: every return of `Run` has ended the talk session, closed the
  connections, waited for the goroutines and closed the sockets, which it leaves to the runner
  only where it has connected to nothing. `CanceledSessionEnds`: these are closed too, and no goroutine
  waits for one that waits for it. The property names the one exception, a standalone camera that
  stops reading: RTSP writes have no deadline (`rtsp/client.go:426`, `:459`), so `Run` stays in
  the write, or in TEARDOWN, until TCP gives up. Baichuan writes have two seconds.
- `EveryCallEnds`, `CanceledDialReturns`, `EveryInviteIsAnswered`, `NoHalfOpenCall`: nothing
  waits for ever.

## 5. Proofs

Every invariant of the passing runs, their one action property (`OnlyOwnerIsCanceled`) and the
refinement of `LegRace` are theorems, for every value of the constants that satisfies the named
assumptions. Each step proof has one lemma or step per action, or per group of actions that
change the same variables.

**Slot and runners** (`GatewayProofs`). `SlotHasOneOwner` is not inductive: `Release` frees the
slot only if the generation is unchanged, so `CtlInv` adds `OwnerHasGeneration`, that a
holder's captured generation is the current one. `ControllerTypeCorrect`, `OneOwner` and
`HangupReachesOwnerOnly` (`OnlyOwnerIsCanceled`) follow for any set of calls, from the one
assumption that the nil function is not a call. Every step of the gateway is a step of the
controller or leaves it alone (`GatewayImplementsController`), which carries them over.
`FreeSlotShowsNothing` needs `ShownInv`: a call that holds the slot before its first or after
its last status update shows nothing; the interesting step is the hang-up, which publishes
"ending" only under a shown direction. `GatewayTypeOK`, `DialogsEndBeforeSlot` and
`MediaIsWaitedFor` rest on `RunnerInv`. Its parts `DialogDebt` and `MediaDebt` say that a
runner on its way out with an open dialog still has BYE or Reject on its list `todo`, and one
with a running session still has to wait for it or has waited in vain: the list of every exit
has what it needs, and a step takes off the head only when it has been done.

**Fork** (`DialForkProofs`, for any finite set of legs). `ForkInv` has four parts. `CountInv`:
each leg sends one result, and `remaining` is the number of legs whose result nobody has taken,
which is why the drain may stop at zero; `LegInv`: which legs hold sockets and dialogs;
`TakenInv`: a result that was taken belongs to a failed leg, to the winner or to a leg that the
drain hangs up; `PhaseInv`: how `DialFirst`, drain and runner move together. From it
`ForkTypeOK` (whose bound on the result channel is a consequence of `CountInv`: every result in it
is of another leg, `ChannelHasRoom`), `NoLegIsOrphaned`, `WinnerStaysWithCaller` and, step by step,
`ForkImplementsRace`: each action is a step of `LegRace` or a stutter. `RaceSpec` is a safety
specification; its fairness is not part of it.

**Outgoing INVITE** (`SipDialProofs`, for ring timeouts from 5 to 180 seconds, as the
configuration allows, and any channel). `DialogInv` consists of `WorldInv` (what peer and
network can do: responses follow their INVITE, one final response each), `DialInv` (what `Dial`
has read and sent where it is), `TombInv` (tombstone and late call follow each other, after
`Dial` has given up), `TransactInv` and `CancelInv` (a requested CANCEL is sent when a response
is there), and `ErrInv`, where `OwedInv` says who owes ACK and BYE when `Dial` has failed. From
it `DialTypeOK`, `EveryAnswerIsAcked`, `EveryUnwantedCallIsHungUp`, `EveryRingingIsCanceled`,
`CancelWaitsForResponse` and `HandOffHasOneOwner`. The properties make their own exceptions,
for writes that fail and for ring timeouts beyond the deadline of a transaction (finding 2).

**Incoming INVITEs** (`SipIncomingProofs`, for any finite set of INVITEs, any assignment to
Call-IDs and any limits). `IncInv` adds to the types that an INVITE between the two capacity
checks is unknown to all tables and that an undecided INVITE has no final response:
`IncomingTypeCorrect`, `OneResponse`, `RepeatedInviteIsKnown`. `LimitRespected` needs
counting: entering one Call-ID adds at most one to the calls in the table (`OneMore`), so
the second check under the mutex, not the first, carries the proof; the same check bounds the
number of outgoing calls. `CallStaysReachable`
(`EstablishedCallIsReachable`) has the hypothesis `NoReplacement`, that the account takes one
call at a time or that no dialog gets a re-INVITE. Both are settings the program runs in, and
run `sip_incoming_reinvite` shows that the property fails without it (finding 3). With
one call at a time the proof is that a free place means an empty table (`OneCallMeansEmpty`).

**Listener** (`HaListenerProofs`, for any number of sensors and presses). `EachPressRingsOnce`
rests on `RingInv`: the press of an unread event has not rung (`EventsAreFresh`), a press that
has rung is remembered while the sensor is on (`CurrentIsRemembered`), and the press shown by a
REST answer, which may be stale when it is used, obeys the same rule (`AnswersAreSafe`).
`ListenerTypeOK` includes the limit of the trigger channel.

**Status store** (`StatusStoreProofs`, for any number of clients and updates). The strengthening
for `NewestReachesClients` is `DrainedIsEmpty`: between the second and the third select nobody
else sends, so the last, non-blocking send cannot fail. `StoreTypeOK` includes the limits of the
channels.

**Live image** (`LiveImageProofs`, for any number of channels, cameras, requests, rings and
restarts). `loadState` adds the primary channel if the file lacks it, so a saved table is
restored unchanged (`CatalogSurvivesRestart`) only because no table lacks it
(`TableHasPrimary`). `CameraPictureIsRight` (`RightCamera`) needs that the table agrees with the
NVR on the channels that discovery keeps (`Agreement`) and that a cached frame which is not old
shows what is connected to its channel (`SourceOk`). `OnlyRingsExtend` needs that a frame marked
as prewarmed has a restart of its lifetime left that a ring has paid for (`SourceOk`), and that
no prewarm marks a frame while a request captures the next one (`CaptureHoldsLock`). `ImageTypeOK` bounds the number of
Sources, and the counters of a frame by the rings (`RingCount`), which no guard does. The first
attempt at `RightCamera` failed at discovery: the primary channel's entry survives when its
report is dropped as a duplicate. TLC had not seen it with the first channel as the primary
one; the instance now has the second, and finding 4 names the case.

**Media session** (`MediaSessionProofs`, for queues and retry limits of any size). `SessionInv`
has, for each Baichuan client, `NumOk`: of the requests that were given up at most one is
unanswered, since a connection that stays open after a timeout is only the preview's and only
once, when the receiver's hint ends (`GivenUp`); with it numbers never exceed two, and `MaxNum`
in the types is no restriction. `BoxOk` says that what is in the channel answers the request in
progress, which holds because a new number exceeds that of every unanswered request
(`FreshNumIsFresh`); `NonceOk` and `LoginNonceIsItsOwn` follow. `IdleInv` says where
a request can be in progress, `LinkInv` which connections can be open and `PhaseInv` which
goroutines can run at each position of `Run`; `ReturnIsClean` (`ReturnLeavesNothing`) is
their instance at the end, with `SocketInv` for the sockets: a session that is over with open
sockets has never connected to anything. `SessionTypeOK` bounds the queues.

**Model-checked only.** Liveness: `EveryCallEnds`, `NothingLeaks`, `CanceledDialReturns`,
`EveryInviteIsAnswered`, `NoHalfOpenCall`, `SubscribedPressRings`, `PublisherNeverBlocks`,
`CanceledSessionEnds`. Their proofs need ENABLED, which the installed provers do not handle.

## 6. Findings

1. `NoMediaOverlap`: `waitMedia` (`main.go:992`) gives up after five seconds, the
   clean-up of a session may take longer, and the slot is then given to the next call.
   `docs/ARCHITECTURE.md` says that the slot prevents such an overlap.
2. `RingingAlwaysCanceled`: for ring timeouts from 32 seconds on, the deadline of the
   transaction (`client.go:533`) ends an INVITE whose ringing `transact` has read, without CANCEL and without a
   tombstone; the option promises that the call is cancelled.
3. `EstablishedCallIsReachable` on an account for several calls: a re-INVITE replaces the
   established call in the table (`incoming.go:308`) and takes the entry with it when it
   ends, so the BYE of the first call is answered with 481.
4. `CameraIsFollowed`: when the camera of the primary channel moves to another channel, the
   next discovery enters it there and keeps the entry of the primary channel, which is not
   reported any more, with the camera's ID (`catalog.go:280`). The same happens when the primary
   channel is reported but discovery drops the report because a lower channel has the same UID. `FetchCameraJPEG` takes either
   of the two, in the map's random order; `catalog.go:160` and `DOCS.md:270` say that the path
   follows the camera. The repository's test moves a camera of another channel.

## 7. Plan

1. (done) Call slot, runners, fork, SIP client in both directions, listener, status
   store; theorems about the slot, the status, incoming calls, presses and snapshots.
2. (done) Live images with restarts; the media session with both protocol clients.
3. (done) Every invariant and every action property that a passing run checks is a theorem, and
   so is the refinement of `LegRace`.
4. Next: abstract specifications of what `SipDial` and `SipIncoming` promise their users (an
   outgoing and an incoming call as a small state machine), with the refinement checked and
   proved from `DialogInv` and `IncInv`; action properties of the listener, the status store and
   the media session (what a step may never undo).
5. `Registration` (back-off, 423, refresh, unregistering); RTP arithmetic and the DTMF filter as
   operators against a reference.

## 8. Not modelled

Signal processing (echo cancellation, playout control, ADPCM, G.711, calibration) is
numerical; message syntax, SDP, digest and XML are data whose outcome is a choice in the
models; configuration and start-up are sequential and keep no state. Registration is planned
as above. Of the media session, the jitter buffer, elastic playout and DTMF filter and the
pipes of the AAC decoder are left out, and the RTP watchdog may fire at any time: that it is
looked at only when no packet comes for 250 ms is not shown. `rtsp/client.go:340` replaces the
digest challenge without a lock while TEARDOWN and the keep-alive may both run; either value
leads at worst to one more challenge, which the model's answers include. A TalkConfig that the
device accepts but whose reply is lost counts as not started: `StartTalk` cannot know, and sends
no TalkReset (`talk.go:226`). The cipher that a login reply chooses is data, so that a late reply
which matches no request chooses it too (`message.go:69`) does not show. The watcher of a call
also writes detail fields without looking at the state (`main.go:785`); only `State` is
modelled. A repeated 200 OK is answered by the step that reads it, and sent messages form a set:
that the ACK is repeated with each copy is not shown. The listener's and the
store's WebSocket frames, authentication and read-only handlers change no state. A press
that begins and is over, or begins again, while the listener changes from one source to
the other may go unnoticed; the model shows such behaviours, and no property excludes them.
