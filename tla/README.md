# castcli in TLA+

TLA+ modules that model the parts of castcli where order, time and failure decide what happens, TLC
configurations that check them on small instances, and proofs for TLAPS. Paths below are relative to the
repository; `cast.ts` is `apps/cli/src/bin/cast.ts`.

## The system

`cast play FILE` serves a file over HTTP and tells a device to fetch it. The device is a Chromecast (Cast
protocol over TLS), a DLNA renderer (SOAP over HTTP) or an AirPlay receiver (HTTP over a HAP-encrypted
connection). Other invocations (`cast seek`, `pause`, `stop`, `pair`, ...) are processes of their own, which
meet the player through a unix socket and a state file. All of it is Effect: fibers in one JavaScript thread,
which interleave at every `yield*`.

| component | state it keeps | operations | what is hard |
|---|---|---|---|
| Cast session (`protocol/Session.ts`) | request id, transport, application and media session, opened destinations | launch, join, load, media commands, volume, stop; a pump routes what the device sends | ids read and used at different times, an application replaced under a session, every way a connection ends |
| Cast socket (`protocol/CastSocket.ts`, `Frame.ts`) | TLS socket, partial frame, message queue | connect, send, messages | frames that end anywhere in a read; two timers, one of which stays armed after it served |
| Player (`cast.ts`) | offset, rung, position, queue of reloads, current session | attempt, load, reload, seek, switch, bookmark | fibers that outlive their session, statuses that cross a reload |
| Quality controller (`quality/`) | index, capacity, burst, probe, stalls, penalties | tick, noteState, noteRestart, noteBytes | several situations at once, a switch that takes effect later |
| Control channel (`ControlChannel.ts`) | a socket file, connections | startServer, shutdown, sendRequest | who closes first, two players on one path |
| State store (`State.ts`) | `state.json` | update (snapshot, change, write, rename) | read-modify-write without a lock, by several processes |
| Control commands (`Cli/`) | none | seek, pause, status on whichever target | a memory that is stale, a channel that does not answer |
| HTTP routes (`Server/Routes.ts`) | VOD cache file, an ffmpeg per request | stream, segment, subtitles, vod | a cache that is being filled |
| AirPlay playback (`AirPlayPlay.ts`) | the paired connection | authenticate, set up, insert, rate, feedback | each request chosen by what earlier ones returned, in the clear and then encrypted |
| HAP HTTP client (`platform/hap-http-client.ts`) | buffers, waiters, ready answers | request, decrypt, fail | answers matched to requests by order only, late answers |
| Encrypted session (`airplay/EncryptedSession.ts`) | two counters | encrypt, decrypt what is there | TCP chunks that end inside a frame, counters in step at both ends |
| Pair setup (`airplay/PairSetup/`) | the step of each side, the key, failed attempts | M1 to M6 | several controllers at one accessory, out-of-order steps, lock-out |
| Pair verify (`airplay/PairVerify/`) | the step of each side | M1 to M4 | out-of-order steps |
| DLNA (`dlna/`) | none; the renderer holds it | SetAVTransportURI, Play, Seek, discovery | faults that call for a retry, answers that arrive late |
| mDNS (`platform/Mdns.ts`) | records absorbed so far | query until the window closes, twice if nothing came | answers split over packets, compressed, cut short, or with a port nobody can have |
| HLS, tracks, subtitles, ffmpeg (`media/`) | none | playlist arithmetic, choice of tracks, argument lists | boundaries of the last segment |
| Emulators (`emulator/`) | that of a device | the device side of the three protocols | test doubles |
| Code generation, lint plugin | none | build time | out of scope |

Who talks to whom: the player makes a Cast session per attempt, and each session a socket. The player writes the
active stream and the bookmark to the state store, and control commands read it. The control channel's handlers
run inside the player. The quality controller is told of bytes by the HTTP routes and of buffering by the player,
and tells the player to switch. What makes each one correct is listed with its module; `PROJECT.json` lists the
hazards, line by line, and the properties aimed at them.

## Modules

Each component has a module, an `MC` module gives its constants values, and the `.cfg` of a run is named after the
module or the question. `MCShared` holds three parts of the player that share no state, the control socket, the state
file and the quality controller: a behaviour of `PartsSpec` is one of a single part, and the others stay as they
begin, so one run checks each of them as a run of its own would. Every module with state has a type invariant
`TypeOK`; it is proved where there are proofs, and elsewhere holds when added to the INVARIANTS of the run. Below, for
each module: how its state and actions correspond to the code, what its runs show, the bounds and why they are enough,
and what is proved.

| run | module | what varies | kind |
|---|---|---|---|
| `cast_session` | CastSession | the requests of two fibers, a replaced application | safety |
| `cast_session_ends` | CastSession | every end of the connection | liveness |
| `player`, `player_settles` | Player | loads, reloads, seeks, switches, statuses, lost sessions | safety, liveness |
| `shared` | ControlChannel | players that meet, die, close | safety |
| `shared` | StateStore, Memory | updates that fail half way, a spoilt file | safety, refinement |
| `shared` | Quality | ticks, stalls, measurements, restarts | safety, liveness |
| `control_channel_answer` | ControlChannel | a command and the player it reaches | a violation |
| `pair_setup` | PairSetup | four controllers at one accessory | safety |
| `airplay_play` | HapHttp, AirPlayPlay | late answers, cut frames, a lost connection | safety |
| `dlna_play` | DlnaDevice, Renderer, DlnaPlay | lost connections, retries, a second client, a set that sleeps | safety, liveness |
| `commands` | Target, Control | flags, memory, leases, hosts switched off, sessions nobody can join | safety |
| `algorithms` | Suite, SetupMessages, VerifyMessages, Pairing | codes, identifiers, one damaged message, who answers later | safety |
| `algorithms` | Srp, Tlv8, Media, Mdns, Ssdp, Frame | inputs | functions against what they promise |
| `mdns_bad_packet` | Mdns | packets with a port too short or zero | a violation |

### CastSession: one session over one connection

State: `ids` (`requestId`, `sessionId`, `transportId`, `mediaSession`) and `connected` are the `Ref`s of `makeOver`;
`outbox` and `inbox` are the two directions of the TLS connection, in order. A caller (a fiber) is `issuing` between
reading the refs and `Write`, because `send` awaits; launch and join wait for the application to be announced, and
give up after their timeouts. `Route` is the pump's handler for one message. The receiver is external: it hears a
message only from a connection that was opened, and drops any other in silence. `AppReplaced` is another sender
starting its own application.

* `cast_session`: `NoIdTwice` (no two requests the receiver reads share an id), `OpenedIsHeard` (nothing addressed
  to an opened destination is dropped), `OneApplication` (a request names the session and media session of the
  application it goes to, even after a replacement).
* `cast_session_ends`: under fairness `DeathReported` (a failed or silent connection is reported to the reader of
  statuses).

`CloseReported`, the same of a *clean* close, is refuted: the pump ends without failing and the reader waits for
ever.

Bounds: two fibers (the attaching one and another) and two application instances. `cast_session` has four requests in
all and no ping: attaching takes the first one or two, so that both fibers still have one to write at the same time,
with a replacement between the reading of a ref and the write, and a command can name the media session that an earlier
one has brought. `cast_session_ends` has two requests and one ping: enough to be attached, waiting or reading when the
connection ends. Fairness: the pump and the reader run when they can, and the silence limit fires on a connection that
has died; nothing is assumed of the device.

Proved (CastSessionProofs), for any callers and applications: `Typing`, `FreshIds`, `OpenedDestinationsHear`,
`RequestsNameOneApplication`. The inductive invariant says where each id comes from: every id in flight, written or
about to be written is below `requestId` and used once; an opened destination has its CONNECT in `outbox` before
the first request that names it; and a request in flight names the session and transport that were announced
together. None of the three is inductive alone, since a request that is being issued carries refs read earlier.

### Player: `cast play` on a Cast device

State: `offset` and `rung` are `SessionState`, `position` the `Ref` cast.ts calls "where the viewer actually is",
`reloads` the queue, `job[k]` the place of fiber k inside `sendLoad` (0 is the attempt, k the reload fiber of
session k). `sendLoad` reads the state once and then awaits three times: clear the tracks, LOAD, record the active
stream. A reload fiber is forked into the command's scope, so it is still there when its session has gone. `base`
and `time` are the receiver's: where its stream starts in the film and what it reports. `asked` and `furthest`
are history variables for the properties only.

* `player`: `ResumesWhereLost` (a session that replaces a lost one loads from the last known position) and
  `ActiveNamesTheStream` (while the first session lasts, the record `cast seek` relies on names the stream loaded).
* `player_settles`: under fairness and within one session, `PositionSettles`: the statuses of a replaced stream do
  not leave the position wrong for good.

`NeverAhead` is refuted: under HLS a resumed film counts its offset twice.

Bounds: a film of one or two units, two sessions, one seek, one switch, one status in flight. One of each is
enough for every pair of fibers to meet; a second session is what makes a stale fiber. Rungs are symmetric in the
run without liveness. Fairness: fibers that can run do; the receiver reads, plays and reports while the
connection is up. Nothing is assumed of the user, the network, the retries or the bookmark.

Proved (PlayerProofs), for any film, ladder, number of sessions, seeks and switches: `Typing`, `SessionsResume`,
`ActiveIsTheStream`. The inductive invariant `Ind` says that without a session and with an empty queue the offset is the
position (a seek still queued is the exception the property makes too); that in the first session the attempt and its
reload fiber take turns to load; and that a fiber about to record loaded last: the last LOAD on the wire, or with
none there what the receiver plays, is its stream.

### Quality: the adaptive controller

Time is counted in ticks of the loop and kept as ages, cut off one past the longest window they are compared with, so
the state space is finite without bounding time. `Phase` is `phaseOf`, the actions under `Tick` its seven cases;
`NoteStall` and `NoteRestart` are the calls of the player. Bytes are abstracted to the rate a burst is measured at. A
switch only asks for a reload, which a fiber of `cast.ts` makes when it comes to it: `restarting` says that one is
outstanding, and it stays so for any number of ticks. Capacities are integers, so `SAFETY`, `RECOVERY_FACTOR` and the
blend round.

* `shared`: `OnlyStallsRefute` (a burst reading never undoes a probe once capacity is measured),
  `RestartsKeepRaisesApart` (quality is raised again within `PROBE_AFTER` of a raise only while a switch has yet to
  restart the stream) and `StallsReachBottom` (a link that stalls at every rung is fallen out of).

While a restart is outstanding the windows are those of the old rung, and what the comments promise is refuted of it:
`ProbesApart` (each raise waits `PROBE_AFTER`) and `AcceptedHasPlayed` (a rung that is accepted has been played).

Bounds: the eight windows of `Signals.ts` are shortened and keep their order, which `QualityAssumption` states; three
rungs, started in the middle, so that a raise can follow a raise and a fall take two at once. Fairness: on a bad link
something always happens next (the loop ticks, statuses arrive, reloads are carried out).

Proved (PlayerProofs), for any ladder, measurements and windows in their order: `QualityTyping`, `StallsRefute` and
`RaisesKeepApart`. The second needs what the phases mean; the third an invariant: while no restart is outstanding, the
last switch is no older than the last raise, since a raise asks for a restart and the restart is what zeroes the
age of the switch.

### ControlChannel: players, commands and the socket file

`path` is what the file leads to. `Start` unlinks and `Listen` binds, two steps of `startServer`. A command's
connection is with the player it reached, whatever becomes of the file. The server acts at its socket's `end` event,
which comes when the client closes or dies. `met` says that two players have overlapped.

* `shared`: as long as no two players have met, `Reachable` (the file leads to the player that accepts commands) and
  `NeverRefused` (one that binds finds no file in its way, whatever a killed one has left).
* `control_channel_answer` (violation of `Answered`): nobody closes first, so no command is answered. For the same
  reason a player that is asked to end while a command is connected does not (`Stops`, refuted).

Bounds: two players and two commands of one request. Fairness (violation only): Node delivers the `end` and `close`
events it has, and a command once started connects.

Proved (FilesProofs), for any players and commands: `ChannelTyping`, `PlayersAreReachable` and `NobodyIsRefused`.
Besides the properties, the inductive invariant says that as long as no two players have met no two are running, and
that one about to bind finds no file.

### Memory and StateStore: the state file

`Memory` is the promise: fields that keep the value last given to them. `StateStore` is the file: an update reads
a snapshot, changes one field, writes a temporary file (`Update`) and renames it (`Rename`); a failure or the death
of the process is `Abandon`. `Damage` is what an editor or another version may do to the file: it cannot be read any
more, or some fields do not decode, which are dropped and the others read.

* `shared`, with updates that do not overlap: `ReadableUnlessDamaged`, `UnreadableKept`, and `IsAMemory`:
  StateStore implements Memory under the mapping `memory <- View(disk)`.

`NothingForgotten` is refuted of updates that overlap: they forget what one of them wrote.

Bounds: two updaters, three fields, two values; an update touches one field, so two of each and the active stream,
which alone is ever cleared, are enough to tell a lost field from a kept one.

Proved (FilesProofs), for any fields, values and updaters: `Typing`, `NeverSpoilsItsFile`, `LeftAlone`, with updates
that overlap too. `IsAMemory` is only model-checked: nothing in the code keeps updates apart, so a theorem about those
that do not overlap would say little of it.

### PairSetup: pairing with an AirPlay accessory

Both sides of M1 to M6: the accessory (`PairSetup/Accessory.ts` behind the emulator's `/pair-setup`, one state for
every connection, one request at a time) and any number of controllers (`cast play` with no pairing stored:
`cast.ts:1261-1447` and `PairSetup/Controller`). `at` is the tag of the accessory's `State` and `session` the key
it carries, `failed` the counter of `Attempts.ts`; `step[c]`, `salt[c]` and `key[c]` are where a run is, the M2 it
has read and the key it has derived. Cryptography is what it tells apart: a key is the code with the two ephemeral
values, a proof is right when it is made over the same key, and what was sealed opens under its key only.
`Respond` is `respond` with the step it dispatches on; a failure answers 500 and leaves the state. A controller
may quit anywhere and its request may still arrive.

* `pair_setup`: `LockedOut` (from the limit on nothing changes any more, not even for the right code),
  `OnlyWrongCodesCount` (neither a bad signature nor a request out of turn counts), `NoFalseBlame` (who is told the
  code was wrong typed a wrong one, although others share the accessory while the user reads the screen),
  `Agreement` (who ends up paired is kept by the accessory, and who is kept knew the code).

Bounds: four controllers, so that two attempts exhaust the limit of two and a third tries after, and one more that signs
badly; a right and a wrong code. Each controller runs once; a user who tries again is another controller.
Controllers and codes are symmetric as far as their roles allow.

Proved (PairSetupProofs), for any controllers, codes and limit: `Typing`, `NobodyIsBlamedFalsely`, `PairingIsMutual`,
`LockOutIsForGood`, `OnlyWrongCodesAreCounted`. The inductive invariant `Ind` says that at most one controller holds
the exchange (has an M2 to read, is at its prompt, or has an M3 on the way), that the accessory awaits M3 while one
does and the `b` it holds is the current one, that what a controller has sent is made with its own key, and what each
answer means. `NoFalseBlame` needs all of it: the key of an M3 is compared with the exchange of the moment, which is
its own only because a fresh M1 is refused while an exchange is open. The count is bounded by the number of
controllers whose wrong M3 has been handled, a set that only grows, by one for each that is counted.

### Suite, SetupMessages, VerifyMessages and Pairing: what the messages of a pairing say

`PairSetup` asks who is in which step when several controllers share an accessory, with a message as one record. Here
one controller and one accessory exchange the messages themselves, item by item. `Suite` is `airplay/src/Suite` and
its `NodeSuite`: octets are terms that remember how they were made and how many they are, since `make.ts` checks sizes
before it computes. It assumes of cryptography what the code assumes: what was sealed opens under the same key, nonce
and associated data only, a signature is of one message by one key, and two terms made differently are different
octets. `SetupMessages` has the readers and writers of M1 to M6 with each check they make, in its order;
`VerifyMessages` those of pair verify, the keys derived from it and the frames sealed under them. `Pairing` says them
in turn (`SaysM1` to `SaysM6`, `Finishes`): a reader reads `Arrived`, what is left of the message, for one message of
an attempt may be damaged: an item of it taken for another type, or of another length, another state in it, or an
Error item put behind it, in the state awaited or in none. When a setup has ended well, `Verifies` is `runPairVerify`
with whoever answers then: an accessory that keeps to HAP or the emulator, with the pinned seed or another one, its M2
damaged or not; nobody else takes part in it, so it is one step.

* `algorithms`, of which the messages of a pairing are one subject: `SetupConverses` (undamaged, each side ends with
  the identity of the other, or with the reason why not, and the accessory counts a wrong code once),
  `DamageNotBlamed` (with the right code no damage ends in a pairing with a stranger, nor in "wrong code" unless a
  salt, a public key or the refusal itself says so) and `VerifyConverses` (the controller goes on exactly with the
  accessory it pinned, unaltered; then that one knows it and no other, and the frames of each end open at the other by
  their number only).

Bounds: a right code and a wrong one; identifiers of one octet, of the longest that fits and of one more; flags of no
octets, one and four; every damage of every message, with three octets for a refusal (two that have names, one that has
none); three devices that may answer; frames 0 to 2. Damage is to the items of a message, not under a
seal, so the checks on what has been unsealed are never the ones that fail. Transient pairings end at M4 and are in
`PairSetup` only; flags here are what the library can write, of which `cast.ts` asks for none in a pairing it keeps.

Proved (PairingProofs), for any accessory, controllers, codes, flags, octets of a refusal, devices, plaintexts and
number of frames, from `PairingAssumption` (keys have the size of keys, a salt and the identifiers are octets, the
accessory's fits, what is sent is not itself a concatenation): `SetupHolds`, `SetupEnds`, `DamageIsNoBlame`,
`VerifyEndsWell`. The inductive invariant `SetupInd` has four parts, none of which is inductive alone:

* `Said`: the message under way is the one its writer makes, of its own key; or, from the accessory, a refusal or the
  text of a status 500, which it sends only for a reason.
* `Keys`: each side has the key of its own code, unless the salt or the public key it read was altered; from M5 on the
  two are the same, the accessory has counted nothing and the identifier fits.
* `Kept`: whom each side has kept, which is nobody, or the one who took part; the accessory keeps at M5, the
  controller only after M6 has opened under its key.
* `Ended`: what each error a setup may have ended in says of the damage and of the code.

What makes it work is that a reader of a message with one altered item still finds the others, that the first check
which fails is known from what was altered (lemmas on `findItem` and `FirstError`), and that terms of different kinds
are different (lemma `Kind`). `PairingInd` adds for pair verify that the link is what some device and some damage make
of it (`Met`); `VerifyConverses` follows by cases on the device and on whether the M2 is as it was sent.

### HapHttp and AirPlayPlay: playing on an AirPlay receiver

`HapHttp` is the client's connection: `buffer`, `decryptedPlaintext`, `waiters`, `ready` and the two counters are
`stateRef` and the `Ref`s of `connect`. Answers carry nothing that names their request, so an answer goes to
the oldest waiter. A message has one or two parts (frames of 1024 bytes once encrypted), and an encrypted frame two
units of the stream, so that a chunk can end inside a frame, between frames, or after the first of two messages:
`OnChunk` takes any beginning of what has come. `TimedOut` fails a request whose answer may still come. The
receiver handles requests in order, and may leave one unanswered. `LinkFails` loses what has not arrived; the
waiters are told when the connection ends with an error, not when it is closed in order.

`AirPlayPlay` composes it with the requests of `play`: `pc` is the request in progress, `Following` what comes after
it for each status (0 when it failed), `TurnsOn` the call of `enableEncryption` between the last request in the clear
and the first that is not. It looks at the status of pair-verify's last answer and not into it: a receiver that turns
the controller down says so in an Error item of an answer 200 (`declined`, a history variable), and then only the
player goes on in frames, which the receiver does not open. `RefusalEnds`, that the play ends there, is refuted.
`Kinds` are the receivers: a Mac or not, paired transiently or not, asking for MFi authentication or not.

* `airplay_play`: `OwnAnswer` (while the connection is up a request returns its own answer, never a late one),
  `SealsOpen` (every frame opens at the end it was sent to, unless `declined`), `NoneStranded` (when everything has
  come nobody waits), `NothingUnasked` (RECORD follows an accepted SETUP, setRate an accepted item).

Bounds: two time-outs, so that two late answers may queue up; one request left unanswered; one `/feedback` for
the forty-five of the code, which repeat the same request; `GET /info` and the insertion take two frames.
`OwnAnswer` is about a connection that is up: when it has failed, `failWaiters` empties the list, and an answer
still in the queue of chunks becomes `ready` for whatever is requested next. The branch of `drainBuffer` for a
frame that does not open is taken only by the receiver, and only when it has declined: that is `SealsOpen`.

Proved (AirPlayPlayProofs), for any number of time-outs, silent requests and posts, and any choice of the messages that
take two frames: `Typing`, `AnswersAreOwn`, `SessionsInStep`, `NobodyStranded`, `OnlyWhatWasAccepted`. The invariant
`Ind` speaks of two readings of what the client has still to take apart: `Stream`, the units buffered or on their way,
and `Text`, what they decrypt to. Its parts:

* `Lines` and `Matched`: the waiters stand in the order of their requests; the k-th answer to come, in `Text` or from
  what the receiver has still to read, is of the request of the k-th waiter or of a *later* one. That is why an answer
  is never somebody else's: the current request is the last, so nothing later exists, and an older answer finds its own
  waiter, left in the list by the time-out. With nothing unanswered there are as many answers to come as waiters.
* `Boundary` and `Leftover`: messages follow one another whole, and what stays in a buffer is less than a frame or a
  message. That draining a chunk takes the messages of a beginning of `Text`, in their order, and leaves the others, is
  a fact about `Ends`, `Rank`, `Whole` and `Unparsed` (lemmas `WholeSplits`, `WholeOfMore`): the k-th whole message
  of a text is the k-th end in it, so a text cut anywhere counts as its pieces do.
* `Incoming` and `Outgoing`: the frames on their way in each direction are counted from what the reader expects to what
  the writer uses next, through chunks that end inside a frame.
* `Plain`: before encryption there is one request at a time and a failed one is the last (no `catchHttp` around it), so
  that the receiver turns encryption on with the answer after which the client does.
* `Current` and `Progress`: an answer with status 200 to the current request, wherever it is, means that the receiver
  has accepted it; so what the player believes when it goes on is so.

None of the four properties is inductive without the others: whose answer comes decides when encryption begins, and
what a frame decrypts to decides whose answer comes. The two ends agree on when it began (`Agreed`) until the receiver
has declined and the player has gone on all the same; then nothing is answered any more, every request fails, and a
second, smaller invariant holds (`Deaf`): no answer is on its way. `Invariance` is that one of the two always does.

### DlnaDevice, Renderer and DlnaPlay: playing on a renderer

Three layers, each extending the one below. `DlnaDevice` is the double of `emulator/DlnaDevice.ts`: `requests` is the
queue one fiber serves, `Carried` and `Output` what its handlers do and answer, `pulls` and `fetched` the film it
fetches; a film that ends, a set that declines, omits an output argument or falls asleep are external. `Renderer` is
`dlna/Renderer.ts`: `call[c]` is the action a client has out and how many attempts it has left. An attempt whose
connection fails is made again (`Schedule.upTo({ times: 2 })`), whether the device had read the request or not, and a
copy it did read stays in `requests` with nobody to hear the answer; an attempt that is silent for five seconds, or is
refused, is not made again. Both the limit and the retries are of `client.execute`, which is over with the headers of
the answer; its body (`Headed`, until `BodyComes`) is read without either. `DlnaPlay` is `playOnRenderer`: `at` is the
place in it, `seen` and `known` what the last polls told. Another client is a `cast pause`, `stop` or `volume`.

* `dlna_play`: `LastWord` (when an action has been answered, no copy of it or of an earlier one of the same client is
  still to be carried out: retries do not overtake), `SeeksWhatPlays` (the film is moved only after it was loaded
  and asked to play), `NeverFabricated` (the position that will be remembered is where the device has been, also
  when it reports none) and `Returns` (the command ends once the device has stopped for good, unless it stays silent
  for ever between the headers of an answer and the body).

`NeverHangs`, which is `Returns` without that exception, is refuted.

Bounds: a film of one unit; one retry instead of two, and two connections that fail, so that a request can be lost on
its first attempt and on its last; one foreign command. Fairness: the loop asks, hears and polls again, the five
seconds of a silent request pass, and the device serves its queue; a device asleep serves nothing, and a body may never
come. `Returns` is claimed of devices that report their state: one that omits it is polled for ever.

Proved (DlnaPlayProofs), for any clients, retries, lost connections and length of the film: `Typing`, `AnswersAreLast`,
`OnlyPlayingIsMoved`, `PositionsAreReal`. The inductive invariant says that a request somebody still reads is the newest
of its client, which waits for it; that what the player has out is what its place in `playOnRenderer` sends; what an
answer means when it comes (loaded, playing, a place the device has been at); and that a device that tells its
position has been there. The first is why a retry cannot overtake: a copy the device has read stays ahead of the
next one in the queue, and is not answered to anybody.

### Target and Control: the commands

`Target` is `Cli/Target.ts`: `memory` is `State.lastTarget`; hosts speak protocols at addresses which leases move.
`Picks` is a search, where any of several answers may come first; `Search` and `Resolve` are the cases of the
flags. `Control` is `Cli/Control.ts`: `Begin` starts a command with its flags, `Resolves`, `Connects`, `JoinFails`,
`Unreached` and `Searches` are `onTarget` with its fallback to a search, `Acts` and `ActFails` the request to the
device, `Remembers` the memory. A Cast device that answers but runs nothing lets `session.join` fail after eight seconds
(`JoinFails`), which is not the error that leads to a search. A seek asks the control channel first: without a player
that is a rejected promise and the end of it, with one it waits for an answer that never comes (see ControlChannel)
until the user gives up (`GivesUp`) or the player dies (`PlayerKilled`). `screen` says of each host whether a film is on
it, by which protocol, and whether it plays. Where in the film it is, and how loud, is left out; since no seek hears of
a running player, what the player's reload would do to it is not met here (Player has it).

* `commands`: `ObeysFlags` (who is acted on has the address and the protocol asked for, and the name unless the
  network changed under the command, also after the fallback), `StaleMemoryHarmless` (a memory of a Cast device or a
  renderer that leads to nobody costs a search: a command fails on it only if a search would have found nothing),
  `FailureKeepsMemory` (a command that fails, wherever, leaves the memory it found) and `MeansTheLast` (a command
  without a device is for the one the last command worked on, by the same protocol, whatever has failed since).

Bounds: two hosts of two protocols each, three leases, so that a host can move to a free lease or to one another has
left; every command, with seven sets of flags, one for each case of the resolution; three commands, so that one can
work, one fail and the third meet the memory of the first; two changes of the network, so that one host can free a
lease and another take it. The leases are symmetric.

Refuted are what `StaleMemoryHarmless` leaves out, a Cast device that answers and runs nothing (`StaleCastHarmless`) and
an AirPlay receiver that has moved (`StaleAirPlayHarmless`), that a seek is ever carried out while the player runs
(`SeeksPlaying`), and `PlaysOnLastCast`.

Proved (ControlProofs), for any hosts, leases, flags and commands: `Typing`, `FlagsAreObeyed`,
`StaleMemoryIsHarmless`, `FailuresAreForgotten`, `TheLastIsMeant`. The inductive invariant `Ind` says that a lease
is held by one host, that while the network is quiet what was found by a name is held by a host of that name (so that
whoever answers there has it: this is where unique leases are needed), that what a search has found is still there to
connect to and a remembered Cast device that is not still has its search to come, that the memory is as it was until a
command other than `play` has worked, and that while `last` is known the memory leads to it and to nobody else.

### The algorithms

What is a function in the code is operators here, and one run goes through every input of small sets: a state of
MCAlgorithms is a case, an input of one of the subjects, and each property says of every case of its subject what must
come out. One subject, the messages of a pairing, goes on from its case as `Pairing` says (above). Sizes that matter
only by comparison are constants (the base, width and modulus of the group, the octets that fit a TLV8 fragment, the
first value that takes a second varint group) and are small.

| module | code | property |
|---|---|---|
| Srp | `airplay/src/Srp` | `SrpAgrees`: for every pair of private keys and codes, the two sides agree on the key exactly when the codes, or the residues they lead to, agree; a public key of zero is refused |
| Tlv8 | `airplay/src/Tlv8` | `OctetsSurvive`, first part: what is encoded is decoded, at the lengths around a fragment's; cut short it is refused or is less |
| Frame | `protocol/src/Frame.ts`, the read loop of `CastSocket.ts` | second part: messages are queued in order and once wherever reads end, and fields may come in any turn |
| Media | `media/src/Hls`, `Vtt`, `Tracks`, `Server/Routes.ts` | `ServesTheFilm`: segments tile the film in whatever variants they are fetched, ranges add up to the file; `SubtitlesFollow`: cues are cut where the film is and keep their time, tracks are chosen by preference |
| Mdns | `platform/src/Mdns.ts`, `emulator/src/Advertise.ts` | `DevicesFound`: what is found is who answered within the window, from records in any order and packets, compressed or cut; `BadPacketHarmless`, violated: a packet with a port too short or zero is as if it had not come |
| Ssdp | `dlna/src/Ssdp.ts`, `Discovery.ts`, `Description.ts` | second part of `DevicesFound` |

## Refuted, without a run

What a document, a comment or a test claims and the code does not do is a finding in `PROJECT.json` when a run shows
it: the control channel's missing answer, and the packet that takes the sweep down. The modules state others, refuted
the same way; to reproduce one, change the configuration named as said and put the property under INVARIANTS or
PROPERTIES in place of those it has.

| property | configuration | change | what happens |
|---|---|---|---|
| `NothingIgnored` | CastSession | | a replaced application is addressed without CONNECT |
| `CloseReported` | CastSessionEnds | | `Session.ts:453-455` fails the readers when the connection fails; a device that closes it in order (`CastSocket.ts:119-121`) leaves them waiting |
| `NeverAhead` | PlayerSettles | `UseHls = TRUE` | `cast.ts:1109-1113` adds the offset to a time that already counts from the start of the film |
| `NeverAhead` | PlayerSettles | | a status of the stream that is being replaced is added to the new offset |
| `NothingForgotten` | Shared | `Serial = FALSE` | two updates that overlap: the second rename takes back what the first wrote, a pairing for instance (`State.ts:237-250`; `docs/airplay.md:45`) |
| `FilmTime` | DlnaPlay | | the renderer's time counts from where the track was cut, and `cast.ts:1237` saves it as time in the film |
| `NeverHangs` | DlnaPlay | | `Renderer.ts:44-55` gives up a renderer that has gone to sleep, but the limit is around `client.execute` (241) and not around `response.text` (263-265): one that falls asleep after its headers is waited for for ever |
| `RefusalEnds` | AirPlayPlay | | `AirPlayPlay.ts:384-391` asks for "200, State=4" and checks the 200: an Error item in the answer is taken for success |
| `StaleCastHarmless` | Control | `Box` speaks Cast and DLNA | the remembered address is now that of a Cast device that runs nothing: `Session.ts:343-358` fails, and `Control.ts:142` searches only when nobody answers |
| `SeeksPlaying` | Control | | `Control.ts:432` waits for a channel that never answers, and without an answer there is "nothing playing" (452-460) |
| `StaleAirPlayHarmless` | Control | | the memory of an AirPlay receiver that has moved is an error: `Target.ts:231-240` has no fallback |
| `PlaysOnLastCast` | Control | | "With no name at all the last Cast device is used" (`cast.ts:326`), but an AirPlay target remembered last is taken for one (`State.ts:312-333`) |
| `SeekReaches` | PlayerSettles | `Length = 1`, `Resumed = 0` | a seek is dropped when another load is under way |
| `RungAgrees` | Player | one session | the rung of a switch is overwritten by a load that read the state before it |
| `PositionSettles` | PlayerSettles | `MaxSessions = 2` | the reload fiber of a lost session acts on the next |
| `ActiveCleared` | Player | one session | a load under way records the active stream after it was cleared |
| `Stops` | ControlChannelAnswer | | `close` waits for the connections of commands that wait for an answer |
| `Reachable`, `NeverRefused` without `~met` | Shared | | the second of two players steals or loses the socket file |
| `AcceptedWithoutStall` | Shared | | the acceptance of a probe goes before its stall |
| `NothingElseRefutes` | Shared | | a probe made before capacity was measured is refuted by its first measurement |
| `ProbesApart` | Shared | | two probes in a row while a reload is slow |
| `AcceptedHasPlayed` | Shared | | a probe is accepted, as evidence of capacity, while the stream of the old rung still plays |
| `Abandoned` | PairSetup | | `Errors.ts:14-17` and `:38-39` say a request out of turn resets the session; `respond` leaves the state, and an abandoned exchange blocks every later M1 |
| `TransientProved` | PairSetup | `TransientCode = wrong` | a transient pairing does not look at M4 |
| `RecoversFromSilence` | AirPlayPlay | | after one request that is never answered, every answer goes to the request before its own |


Other disagreements met while modelling, each visible in the definitions mapped to the lines:

* `Vtt/Codec.ts:100-103` has cutting not drift out of step; a fraction that rounds up to a thousand is written with
  four digits and read as a tenth of a second. `SubtitlesFollow` makes the exception.
* The emulator signs the shared secret (`AirPlayDevice.ts:263-276`) where `PairVerify/Controller/M3.ts:181-196`
  verifies over the ephemeral keys, takes any M3 (319), and reads the length of a `/command` frame in the wrong
  order and opens it without associated data (439-452). Its end-to-end tests are skipped
  (`AirPlay.e2e.test.ts:29-33`). `runPairVerify` (`airplay/Session.ts:158-174`) does not look at what M3 is answered.
* A relative seek on a renderer takes `Number` of an `Option`, and fails (`SeekFails`); a remembered target ignores
  `--protocol`. They are in `Target` and `Control` as they are in the code.
* A range that ends past the file is answered 416, and one that ends before it starts with a length below one
  (`Routes.ts:213`); an empty ladder still serves `/v0.m3u8`.

## What is proved, what is only checked

Safety of CastSession, Player, Quality, ControlChannel, StateStore, PairSetup, Pairing, HapHttp, AirPlayPlay, DlnaPlay
and Control is proved for every value of the constants, from the assumptions named in the modules (which constants are
distinct, finite, non-empty, numbers or of a type). Each proof has an inductive invariant, described with its module:
most of the safety properties are not inductive as they stand, because they compare what was read at one step with
what is there at a later one.

| module | theorems |
|---|---|
| CastSessionProofs | `Typing`, `FreshIds`, `OpenedDestinationsHear`, `RequestsNameOneApplication` |
| FilesProofs, of StateStore | `Typing`, `NeverSpoilsItsFile`, `LeftAlone` |
| FilesProofs, of ControlChannel | `ChannelTyping`, `PlayersAreReachable`, `NobodyIsRefused` |
| FilesProofs, of Media | `SegmentsTileTheFilm`, `ServedWhatIsListed`, `RangesLieInTheFile`, `CuesKeepTheirTime` |
| PairSetupProofs | `Typing`, `NobodyIsBlamedFalsely`, `PairingIsMutual`, `LockOutIsForGood`, `OnlyWrongCodesAreCounted` |
| PairingProofs | `SetupHolds`, `SetupEnds`, `DamageIsNoBlame`, `VerifyEndsWell` |
| PlayerProofs, of Player | `Typing`, `SessionsResume`, `ActiveIsTheStream` |
| PlayerProofs, of Quality | `QualityTyping`, `StallsRefute`, `RaisesKeepApart` |
| AirPlayPlayProofs | `Typing`, `AnswersAreOwn`, `SessionsInStep`, `NobodyStranded`, `OnlyWhatWasAccepted` |
| DlnaPlayProofs | `Typing`, `AnswersAreLast`, `OnlyPlayingIsMoved`, `PositionsAreReal` |
| ControlProofs | `Typing`, `FlagsAreObeyed`, `StaleMemoryIsHarmless`, `FailuresAreForgotten`, `TheLastIsMeant` |

Liveness (`DeathReported`, `PositionSettles`, `StallsReachBottom`, `Returns`, and `Answered`, which is violated under
fairness) is checked by TLC only: TLAPS does not prove it. So is the refinement `IsAMemory`. Five invariants of
`algorithms` stay with TLC, for what they speak of is computed by recursion over octets and lists, which is induction
over data: powers and residues (`SrpAgrees`), fragments, varints and frames (`OctetsSurvive`), the packets of a
segment, the cues left after a cut and the ranking of tracks (`ServesTheFilm`, `SubtitlesFollow`), names and records
(`DevicesFound`). They are checked over bounded inputs. What of Media does not recurse is proved all the same: that
the segments of a film of any length tile it, that what is listed is found, that ranges join, and that cues keep their
time are theorems about its operators.

## Plan

1. More of the system: the two timers of the Cast socket (one stays armed after it served), the cache of `Routes.ts`
   that is read while it is filled, the Cast double of `emulator/Device.ts` as the receiver of CastSession.
2. More proofs: of `SrpAgrees` and `OctetsSurvive`, what does not need induction over data (that the client refuses a
   key of zero, that a fragment is never longer than its limit).

## What is not modelled

* The film cache: a second `/vod.mp4` while the first is still transcoding finds a file that exists and serves what
  there is (`Routes.ts:164-183` against 12-14). Media starts from a finished file.
* Where in a film a control command leaves it, and the volume: Control keeps only whether a film plays, and where.
* The timers of `CastSocket.ts`, beyond the silence they report; the connection time-out is never cleared.
* The Cast double (`emulator/Device.ts`): CastSession and Player take a receiver freer than it is as environment.
* Formatting and parsing (arguments of ffmpeg, property lists, XML and JSON as text, wording, telemetry), hashes,
  curves and ciphers as computations, the random source, the schemas of messages as types.
* Code generation and the lint plugin: build-time tools without state that lasts.

`PROJECT.json` gives the reason for each component that is `partly` modelled or `not_modelled`.
