# A TLA+ model of the pipecat voice assistant

The repository holds an ESP32-S3 voice satellite (firmware in C++ over a vendored and
patched libpeer in C) and the Python backend it talks to over WebRTC. The wake word runs
on the device. When it fires, the device opens a WebRTC session, streams the user's
speech as G.722 and plays the reply; when the turn is over the session is torn down.
Around that core are the boot with its Wi-Fi credentials and captive portal, firmware
updates with rollback, the ICE and TURN agent, and on the backend the map of
conversations, the live transcript and the store of wake samples.

## 1. The system

| Part | State | Operations | Modelled in |
|---|---|---|---|
| `app::Session`, main loop (`session.cpp:458-530`) | `want`, `prev_want`, `reconnects`, `connect_started` | bring-up, teardown, reconnect, give up, pump libpeer | `Session` |
| libpeer callbacks (`session.cpp:342-450`) | `connected_`, `peer_dead_`, stamps, `turn_deadline_` | `onPeerState`, `onLocalSdp`, `onInboundAudio`, all on the main task | `Session` |
| `app::Session`, capture task (`session.cpp:533-720`) | backlog ring, encoder, `bot_replied_` | echo guard, deadline, wake edge, encode, flush | `Session`, `SessionStream` |
| Playback task, chirps (`session.cpp:408-439, 724-773`) | stream buffer, `chirp_pending_` | decode into the buffer, play it or a chirp | `Playback`, `Audio` |
| Wake-sample capture and uploader (`session.cpp:177-226, 582-659`) | capture ring, snapshot, notification | hear, snapshot, post | `WakeCapture`, `CircularBuffer`, `Audio` |
| Wake engine (`wake_word.cc`) | probability window, cooldown, fire count | inference, fire, damp | `WakeWord` (the neural model is an input) |
| `transport::Peer`, `transport::Signaling` | `pc_`, `pending_answer_` | create, offer, park the answer, tick, destroy; two HTTP requests | `Session` |
| libpeer `peer_connection.c` | `pc->state` | `peer_connection_loop`, `STATE_CHANGED`, `send_audio` | `Session` |
| ICE/TURN agent (`agent.c`) | pairs, nonce, permission, the server's lease | gather, permit, check, receive, refresh | `IceAgent` |
| `app::Ui`, `domain::resolveLedState` | `last_pushed_`, the hold, the override, `force_` | `setLed`, `tick`, the overrides | `Feedback` |
| Boot, Wi-Fi station, NVS, portal (`main.cpp`, `pv_hal`) | NVS keys, retry count, event bits | connect, forget, save, wipe, restart | `Boot`, `FormUrlencoded` |
| Web console (`web_server.cpp`) | OTA slots, override, log clients | upload, select, reboot; LED test; log stream | `Ota`, `Feedback`; log stream not |
| Button | `muted_`; the long-press handler | toggle mute; wipe and restart | `Feedback`, `Boot` |
| Backend conversations (`app/bot.py`) | `_active_sessions`, transcript queues, observer buffers | offer, disconnect, text, stream | `BotSessions`, `Transcripts` |
| Backend wake-sample store (`app/bot.py`) | `.wav`/`.json` pairs | store, rotate, label | `WakeStore` |
| Corpus tool (`collect_hard_negatives.py`) | copies by hand, the corpus | sync; fetch, label, stage | `WakeCorpus` |
| DTLS-SRTP, SCTP, codecs, drivers, session FSM, training tools, chart | - | - | section 6 |

How they interact. The capture task arms a turn by setting `conversation_active_`; the main
loop polls it every 10 ms and builds or destroys `peer_`. The libpeer callbacks run inside
`peer_->tick()` or `createOffer()`, hence on the main task, and write the atomics that the
capture task reads. `peer_mtx_` is held by the capture task while it flushes the backlog
and by the main loop while it destroys the peer. The callback fills the playback buffer, the
playback task empties it, and the capture task asks for chirps through one atomic. Four tasks call
`Ui::setLed`. The boot's main task, the Wi-Fi event loop, the HTTP server and the button's timer share
NVS and the restart. The backend is one event loop: what happens between two awaits is atomic.

What is hard: one task acting on a flag before the other has finished what the flag stands
for; a whole turn passing while the main loop sits in a 15 s request; a stateful codec whose
stream must not lose its head; silence on the network in every phase; a shared ring of LEDs
that nobody repaints once the session is gone; power that fails between two writes of NVS or of
flash; a TURN server that changes its nonce while requests and replies get lost; a listener that
stops reading. `PROJECT.json` lists each at its line.

## 2. Modules

**`TurnLifecycle`**: the abstract specification, four Booleans. The wake word opens a turn;
the main loop connects because it saw the turn; a connection exists only with a peer; a peer
goes away because the main loop saw the turn over, or to be rebuilt. It does not
promise that the main loop sees every turn, because the code does not: see `turns_clean`.

**`Session`**: the detailed specification. `mpc` and `cpc` are the program counters of
`mainLoopTask` and `captureTask`. A step is what a task does between two accesses to state
that the other can write. Reads by a task of what only it writes are folded into the step
that uses them, and so are two reads whose split adds no outcome (the guard's three loads,
the deadline's two). Variables carry the code's names; those that differ are

| Model | Code |
|---|---|
| `rx_frame`, `rx_pkt`, `conn_age` | age of `last_rx_frame_tick_`, `last_rx_pkt_tick_`, `connect_started` |
| `turn_left` | `turn_deadline_` minus the current tick |
| `lag` | how old the capture task's local `now` is when it is used |
| `peer` | `peer_` together with its `pc->state`; `"none"` for a null pointer |
| `answer` | `pending_answer_` is set |
| `ring`, `enc_fresh` | the backlog as packets `head` (first after an encoder reset) and `cont`; the encoder is in its reset state |
| `blocked` | how long the main task has been inside an HTTP request or the DTLS handshake |
| `ran` | which tasks have finished an iteration since the last Tick |

Data is abstracted to what the properties tell apart: an audio packet is `head` or `cont`, a
frame is loud or not, a request succeeds or fails. The network (relay, ICE, DTLS, backend) is
nondeterministic in every state in which the code waits for it. `STATE_CHANGED` is kept as it
is written, callback first and assignment afterwards, because the other core can run in between.

Time is discrete and one `Tick` stands for seconds. A `Tick` requires both tasks to have
finished an iteration, since an iteration takes milliseconds, unless the main task is blocked;
a microphone frame is crossed by at most one `Tick`. Ages are capped one above the limit that
they are compared with, so behaviours are unbounded and the state space is finite.

**`SessionTurns`** and **`SessionStream`** add history variables to `Session` that only
properties read: which turn a peer was built for and how many rebuilds the turn had; what the
backend's decoder has received and what could have broken it.

**`Feedback`**: the LED ring with its four callers. It EXTENDS `TurnLifecycle`, so the turn is the
abstract one, which `Session` implements: main's steps, the capture task's wake flash, the
playback tick (inputs are read in one step and the ring is set in another), the
console and the clock. `setLed` is one step because `Ui::mu_` covers it.

**`CircularBuffer`**: the array, head and count that `session.cpp` uses twice, for the uplink
backlog and for the capture ring, with its push, its pop and the two copies of a snapshot.
`Session` keeps the backlog as the abstract queue; `PutIsOffer` and `OldestIsHead` show that the array
behaves like it.

**`WakeWord`**: `update_window` of the wake engine: the ring of the last probabilities, the four gates
and the cooldown, and the damping after a fire. An inference yields any probability of a
set; a microphone frame completes at most one.

**`WakeCapture`**: EXTENDS both. A frame goes into the capture ring and the wake engine; a fire
snapshots the ring and its metrics and notifies `uploadTask`, which clears the
notification, copies the snapshot and posts it. `wake_mtx_` covers the snapshot and its
copy, so each is one step; the request is a step of its own, during which fires go on. Samples
are kept as the number of their frame. Two fires during one request coalesce: one sample is never posted, and
if the second fire comes between the take and the copy the later sample is posted twice.

**`Playback`**: the stream buffer between the libpeer callback and `playbackTask`, counted in half
packets, the largest grain at which a read can come apart. `xStreamBufferSend` without a wait takes what fits. The
playback task takes the chirp slot with one exchange, plays the whole chirp, then reads at most one
packet. The turn is free to be armed, to lapse and to be abandoned. **`Audio`** composes `WakeCapture` and `Playback`: a fire arms
the turn in the frame it comes in.

**`Boot`**: `app_main` up to the running session or the portal, the station's event handler, the
portal's save handler and the button's long press, with the three NVS keys. `typed` is the form being saved and `over` what it is written over; both
are kept over a power cut, for properties only. Each NVS write is a step of
its own. Any driver call or NVS write may fail, and power may go in any state; together they use up `MaxFaults`.
An access point may refuse or disappear at any time and uses up nothing.
**`FormUrlencoded`** is the portal's decoder byte by byte, and the browser's encoder.
**`Ota`** composes `Boot` with `handleOta`, the task that reboots 1.2 s later, the two slots with their
otadata states, the bootloader and main's confirmation. A bad image crashes at some point before it is
confirmed. **`DeviceMC`** gives the instance its networks and forms.

**`IceAgent`**: libpeer's agent from gathering to the keepalive. Every wait takes whatever packet comes
first, as the code does with its one socket; packets to the device are a set in flight that may
be lost, late or reordered. The TURN server keeps a lease, a permission for each peer and a current nonce. **`IceAgentMC`** gives it two candidates.

**`Transcripts`**: `TranscriptObserver`, which sees the start and end frames of a reply once when the model
emits them and once when the TTS service passes them on, and `broadcast_transcript` with the
subscribers' bounded queues and the generator of `/api/transcripts/stream`. **`BotSessions`**
composes it with `run_bot`, `_active_sessions`, `/api/text` and the end of the process; `missed` are the connections that closed before
there was a handler to hear of it.
**`BotSessionsMC`** declares the model values.

**`WakeStore`**: upload, rotation and label as one write or deletion per step, which the process's end or a failing
write may cut short. **`WakeCorpus`** EXTENDS it with the tool that fills the training corpus, by its two ways: the clips that are labelled in
the store (`sync`), and copies that are sorted by hand (`fetch`, `label`, `stage`). A write of the tool is two steps, as the
backend's are, and a command may end in it, or between two clips; `todo` is the listing that a command works through while the
store changes. The commands run one at a time. **`WakeCorpusMC`** declares the two verdicts and their symmetry.

**`*_proofs`** hold the theorems, `Audio_proofs` also those of `WakeCapture` and `CircularBuffer`, and
`Ota_proofs` those of `Boot`, for which it takes the decoder's from `FormUrlencoded_proofs`.

In `Session`, `WakeWord` and the others, definitions named `Bug...` are mutations of the definition that
follows them, each a plausible mistake that the run's property must catch; no specification uses them.

## 3. Runs

| Run | Specification | Distinct states | What it shows |
|---|---|---|---|
| `session_safety` | `SessionTurns!HSpec` | 1.7 million | five safety invariants beside the types, and `Session` refines `TurnLifecycle` |
| `session_live` | `Session!FairSpec` | 0.7 million | every turn ends with its connection, every bring-up resolves |
| `stream_breaks` | `SessionStream!SSpec` | 6.0 million | the four causes of a broken uplink stream are complete |
| `feedback` | `Feedback!FairFeedback` | 0.2 million | dropping repeats is sound, the wake flash is held, a live ring is current |
| `wake_capture` | `Audio!AudioSpec` | 37 thousand | snapshots have no gap, no more requests than fires, a burst fires once, the last fire is posted; the speaker plays whole packets, the reply is played, the latest chirp is heard |
| `device` | `Ota!OtaSpec` in `DeviceMC` | 0.8 million | a boot works with one user's form after a completed save and with its first fields over the older ones after a cut one, a proven image is always left, the ring is handed back, the station uses its whole budget, the device settles |
| `ice` | `IceAgent!IceSpec` in `IceAgentMC` | 0.2 million | only an answered check selects, checking ends, two good intervals heal the relay |
| `backend` | `BotSessions!BotSpec` in `BotSessionsMC` | 2.0 million | no token twice, no row mixed, every queue accounted for, texts reach running pipelines, pipelines end if their peer leaves once they are registered |
| `wake_store` | `WakeCorpus!CorpusSpec` in `WakeCorpusMC` | 2.4 million | the store is bounded, orphans and incomplete clips of the corpus are owed to one interruption each |
| `turns_clean`, `turns_abandon`, `ice_keepalive` | as above | - | three promises that the code does not keep (section 5) |

`Session` refining `TurnLifecycle`, and `Feedback` being built on the latter, is what connects
the ring to the detailed session without the product of their states.

### Bounds

*Session.* Time limits are 1 or 2 ticks: what matters is their order (a media gap is noticed before
the wait for a reply ends: `MediaDead < AwaitResponse`), that each can lapse, and that a blocking
call can outlast another limit. `MaxReconnects = 1` gives a first, a last and a refused
reconnect. `RingCap = 2` gives an empty, a partly filled and an overflowing backlog with two
adjacent packets; the liveness run takes 1, as neither property reads the content of the ring.
`CatchUp = 3` in the safety run exceeds the capacity, so a flush ends on either condition.
`TickMod = 8` is larger than every age.

*Feedback.* `ConsoleStates` takes three of the eleven LED states: one that the
live path also sets, one that sets a hold, one that it never sets.

*Audio.* Four frames (`MaxFrames`) with a window and a ring of two: the ring wraps and there is room for
two fires, so a second one meets every state of the uploader. The two probabilities are below the
threshold and above every gate. `Room` is two packets and a payload one or two, so a payload fits
whole, in part or not at all; three packets of reply follow the playback over a full buffer.

*Device.* Three forms: a protected and an open network whose texts hold what a form escapes (space,
plus, percent, ampersand, a byte above 127) and an open one whose name fills the driver's field, so that
the name the driver gets is cut and the device never connects. `MaxTries = 2` is the smallest budget with a first and a last attempt. `MaxFaults = 2` lets
power fail twice, or once in the recovery from another failure. Uploads, restarts and disconnections are not bounded.

*ICE.* Two candidates, two checks each; a permission lives three intervals and an allocation four, so that
one and two missed renewals are survived and more are not. `MaxNonce = 3` allows two changes of nonce.
`CHECK_DEADLOCK FALSE` because the agent stops for good when all its pairs have failed or a
direct connection is up and no packet is left.

*Backend.* One conversation, because the state of two is disjoint but for the map, whose
entries are per connection, and the fan-out, which `MaxEvents = 3` rows exercise; two subscribers, so that
one can be slow while the other is not; queues of one; two replies of two tokens, so that the frames of one cross
with those of the next.

*Store.* `Keep = 1` with three uploads and one interruption of the backend (`MaxCrashes`): rotation with nothing, one and two to
delete. One write of the tool is cut short as well (`MaxCuts`), and the tool is not run on the third sample (`MaxTaken = 2`), which is there to
rotate the others away under it: two samples by two ways in two directories are where one interruption could spoil two clips. The verdicts are symmetric: no definition tells them apart.

The proofs take all values.

### Fairness

*Session.* Both tasks are pinned FreeRTOS loops that end each iteration in a delay or a blocking
read, so each gets weak fairness; so has `CapRead`, since the microphone's DMA keeps delivering
(a device whose microphone fails for good never expires a turn by its deadline, because a
failed read skips the test, `session.cpp:599-602`). Every blocking call has a timeout:
`BlockMax`. The main loop's `lock_guard` gets strong fairness, as a FreeRTOS mutex is handed to its
waiter, and so has `Tick`: time passes. No fairness is assumed of the network, the user, the
wake word or the console. `TurnEnds` says that again and again there is neither turn nor peer, unless the turn is
extended again and again by loud speech, a wake word or reply frames: those are the three
ways the code lets a turn be prolonged, and a turn that none of them touches must end.

*Feedback.* The tasks' own steps and time are weakly fair.

*Audio.* The uploader and the playback task are weakly fair: both loop until `stop()`, the request has a timeout and the
I2S write waits for its DMA. `LatestIsPosted` assumes that the
uploader could be created at boot, which the code treats as optional.

*Device.* Weak fairness of the main task, of resets other than power cuts, of the NVS writes of a handler that
has begun, and of the end of an upload. `Confirmed` is strongly fair: it follows `StartServices` without a wait, so an upload cannot overtake it in every boot.
The access point, the user and the power are free: `Settles` says that the device then sits in a session or in the
portal again and again, not that it ever gets an address.

*ICE.* Weak fairness of the agent's steps: `peer_connection_loop` runs on and every read of a socket has a timeout.

*Backend.* Weak fairness of the handlers that wind a conversation up. It assumes that pipecat reports the close of a connection to the handler
that is there when it happens, and that a cancellation completes; the request for the usage figures has a timeout. A close during
that request has no listener yet, is never reported, and gets no fairness: `PipelinesEnd` leaves it out and section 5 tells what comes of it.
A cancellation from inside pipecat before `runner.run` returns is not modelled.

### What is assumed of code outside the repository

The bootloader starts the selected slot if it may, marks a new image as on trial, and aborts an image that was still
on trial at a reset; `esp_ota_begin` refuses an upload during a trial; `esp_ota_end` refuses what is no image.
The TURN server grants what carries its current nonce and answers 438 with the nonce otherwise, and a
permission or an allocation that is not renewed lapses. A FreeRTOS stream buffer keeps byte order and takes what fits.
The TTS service of pipecat passes the start and the end of a reply on in their order; the output transport's pass, one hop later,
is left out since it repeats that one. A deletion of a file does not fail. The chirp buffer could be allocated.

## 4. Proofs

All theorems hold for every value of the constants that the named assumptions allow: limits
positive, the tick modulus larger than the guard (`SessionAssumption`, `FeedbackAssumption`); a ring and a window that
are not empty, positive gates (`CapacityAssumption`, `WakeWordAssumption`, `CaptureAssumption`); a playback
buffer of an even number of half packets, as the constant is a multiple of a packet (`PlaybackAssumption`); positive fields and budgets (`BootAssumption`);
an answer with at least one candidate, all different (`IceAssumption`: an answer with none fails like an agent without a
local candidate, `HasPairs`); queues with room for one (`TranscriptsAssumption`); at least one sample kept (`WakeStoreAssumption`); no verdict named as the tool's inbox (`WakeCorpusAssumption`).

| Theorem | States |
|---|---|
| `Session_proofs!TypeCorrect`, `SendSafety`, `ConnectedAgrees`, `AnswerOwned`, `BacklogOneUtterance` | `Spec => []` of `TypeOK`, `NoSendOnDestroyedPeer`, `ConnectedTracksPeer`, `AnswerMatchesPeer`, `OneUtterance` |
| `Session_proofs!Refinement` | `Spec => Lifecycle!LifecycleSpec` |
| `Session_proofs!ReconnectBudget` | `HSpec => []ReconnectsBounded` |
| `Session_proofs!StreamBreaks` | `SSpec => []StreamBreaksOnlyBy` |
| `Feedback_proofs!DedupIsSound`, `WakeAckIsHeld`, `FeedbackTypeCorrect` | `FeedbackSpec => []` of `DedupSound`, `WakeAckHeld`, `FeedbackTypeOK` |
| `Feedback_proofs!EndingsComplete`, `FeedbackTakesTurns` | `FeedbackSpec => []Ending`, `FeedbackSpec => LifecycleSpec` |
| `Feedback_proofs!OverrideRespected` | `FeedbackSpec => [][OverrideOwns /\ RefreshPaid]_fvars` |
| `Audio_proofs!PutIsOffer`, `OldestIsHead`, `LinearIsContents` | the array is the drop-oldest queue; a snapshot's two copies are its contents |
| `Audio_proofs!LeadUpSnapshot`, `AtMostOnePostPerFire`, `BurstFiresOnce` | `CaptureSpec => []` of `SnapshotIsLeadUp`, `PostsFollowFires`, `OneFirePerBurst` |
| `Audio_proofs!AudioCaptureSafety` | the same three of `AudioSpec` |
| `Audio_proofs!WholePacketsOnly`, `AudioTypeCorrect` | `AudioSpec => []` of `PlaysWholePackets`, `AudioTypeOK` |
| `Audio_proofs!RepliesInOrder`, `NoChirpForgotten`, `NoFireForgotten` | `AudioSpec => []` of `ReplyInOrder`, `ChirpIsWaiting`, `FireIsNoticed`; `played` never falls |
| `Ota_proofs!CannotBrick`, `RingHandedBack`, `OtaTypeCorrect`, `FullBudget` | `OtaSpec => []` of `SafeToBoot`, `RainbowMeansUpdate`, `OtaTypeOK`, `GivesUpAfterFullBudget` |
| `Ota_proofs!CredentialsAccounted`, `DeviceTypeCorrect` | `OtaSpec => []` of `UsesWhatWasTyped`, `DeviceTypeOK` |
| `Ota_proofs!FallbackIsKept` | `OtaSpec => [](Proven(Fallback)) /\ [][FallbackKept]_otavars` |
| `Ota_proofs!NetworkForgotten` | `OtaSpec => []ForgetsFirst` |
| `FormUrlencoded_proofs!DecodeInvertsEncode`, `EncodingHasNoSeparators` | `UrlDecode(UrlEncode(text)) = text`, and no separator in `UrlEncode(text)`, for every text of bytes |
| `FormUrlencoded_proofs!DecodeNeverGrows` | `UrlDecode(in)` is bytes and no longer than `in`, for every sequence of bytes |
| `IceAgent_proofs!IceTypeCorrect`, `NothingSelectedUnheard`, `KeepaliveAlwaysRecovers` | `IceSpec => []` of `IceTypeOK`, `SelectedWasAnswered`, `KeepaliveRecovers` |
| `IceAgent_proofs!AgentStepsForward` | `IceSpec => []Countable /\ [][StepsForward]_icevars` |
| `BotSessions_proofs!TextsReachRunning`, `StreamsAccounted`, `TokensOnce`, `BotTypeCorrect` | `BotSpec => []` of `TextsReachPipelines`, `EachStreamAccounted`, `EachTokenOnce`, `BotTypeOK` |
| `BotSessions_proofs!RunningIsListed`, `RowsStayInOrder` | `BotSpec => []` of `RunningListed`, `RowsInOrder` |
| `WakeStore_proofs!StoreStaysBounded`, `OrphansNeedCrash` | `StoreSpec => []` of `StoreBounded`, `OrphansOnlyByCrash` |
| `WakeStore_proofs!TornClipsAreOwed`, `StoreUnderTool` | `CorpusSpec => []` of `TornClipsOwed`, and of the two above |
| `WakeStore_proofs!NewestSurvive` | `StoreSpec => []NewestKept` |

Every invariant that a passing run checks is proved. Of the liveness properties several have their safe half
proved: nothing that must come about is ever lost on its way, so that what TLC checks on the instance is only that the steps go on.

**Session.** `IInv == TypeOK /\ PeerInv /\ UplinkInv`. The safety
properties are not inductive on their own: that `peer_` exists when the capture task sends needs the
fact that the main loop destroys it only from program points at which it holds the lock; that
`connected_` agrees with libpeer needs `MainTracksPeer`, which says what each program point knows
of the peer (during a handshake the peer is `connected`, after a drop decision it exists); the
refinement needs `MainSawTurn`, that between the decision and the end of the iteration `prev_want` is what the main loop
acted on; and the backlog stays one utterance because a freshly reset encoder
implies an empty ring (`FreshMeansEmpty`). Each part is preserved by its own lemma with one
step per action. `BudgetInv` adds that the rebuilds of a turn never exceed `reconnects`
(plus one that is counted and not yet carried out), across budgets that are reset late.
`StreamInv` relates the stream received to the front of the backlog: while the stream is
whole and nothing has gone wrong, what is queued continues it.

**LED ring.** `RingInv` relates what was asked for, what is shown and the refresh that is owed while an override or the wake
flash hides a state. `EndingInv`: between the two steps in which the main loop ends a turn it owns both flags. `FeedbackTakesTurns`
follows from it: the turn that `Feedback` is composed with is one that `TurnLifecycle` allows, and `Refinement` says the same of
`Session`, so the ring is proved against the interface that the detailed session implements.

**Capture and speaker.** `RingInv`: the capture ring's contents are the last frames, which
`PutIsOffer` preserves. `FireInv`: fires, snapshots and metrics count alike. A burst
fires once because an inference adds no more hits to the window than spikes to its count (`OneHitMore`).
`AudioCaptures` shows that a step of `AudioSpec` is one of `CaptureSpec` or a stutter, which carries the three
theorems over. `PlayInv`: the buffer is a sequence of whole packets, of even length, so that what
fits of a payload is whole packets too. `ReplyInOrder` adds that the buffer holds what was decoded after what was played, up
to the last packet kept. `ChirpIsWaiting` and `FireIsNoticed` say that what was asked for and not done yet is still in somebody's hands.

**Device.** `OInv` says what each boot may rely on: the running image is proven, or on its one trial with a proven image in the
other slot (`RunningInv`); an upload begins from a proven image only and writes the other slot. `LinkInv` ties the retry counter to the disconnections since the last
address. `CredInv` follows a save and a wipe key by key: `nvs` is one form or has no SSID; in a save, or after one that was cut, it is the fields written so
far over what was there (`CutSave`), or a wipe has begun and there is no SSID. `UsesWhatWasTyped` says of the boot what this says of NVS. The cut is not
repaired: a power cut between `main.cpp:86` and `88` leaves the network of one form with the password of another, which the theorem states instead of
excluding it. What it excludes is a write that NVS itself fails, whose result `main.cpp:86-89` does not look at. That decoding undoes encoding for the forms is `DecodeInvertsEncode`. The library's induction theorems cannot be used for it, so each induction
over the text takes the least length, from `LeastExists`, at which the claim fails: `EncodingExists` and
`DecodingExists` show so that the recursive functions have values at all, `DecodesByte` that the decoder takes one encoded byte at a time.
`FallbackKept` names the image that the device would end up with if nothing were confirmed any more: it is proven, no upload writes it, and a
new one takes its place in its own trial only. `ForgetsFirst` is why there is no loop of restarts around a network that refuses: main erases it first.

**ICE.** `IceInv`: pairs before the nominated one have failed and those after it are frozen (`PairInv`), only a pair that was reached
can be answered (`NetInv`), a permission is asked for a candidate that exists (`AskInv`). `CalmInv` counts how far a recovery has come: after
one interval without a fault the server's nonce is known or on its way and nothing older is; after two, what can be renewed has been.
`AgentStepsForward` orders the nominated pair, its checks and the requests of the permission lexicographically: each step of the agent while it decides moves
the measure forward, nothing else moves it, and `Countable` bounds it.

**Backend.** `FanInv` accounts for every row of every queue; `ObsInv` says that what is gathered
belongs to the reply under way and is not logged yet, which survives the second pass of the frames; `CallInv` that
the map names running pipelines. `FileInv` of the store says how far the handler at work has come with its two files, and that what has metrics has
its audio complete; `Doomed` is the pair whose deletion is under way. `OwedInv` counts, beside the incomplete clips of the corpus, what could still become one: the samples
with incomplete audio and the incomplete copies, each with the place it leads to. Each step of the tool puts at most one in the place of another (`CountedSet`), so the count grows only with an
interruption; a label leads only to whole audio, which is why a sample does not spoil two clips.
`RowsInOrder` and `RunningListed` are preserved beside them. `VictimIsOld` counts: the oldest of more than `Keep` clips has `Keep` later uploads, whence `NewestSurvive`.

**Model-checked only.** Liveness (`TurnEnds`, `BringUpResolves`, `LiveRingCurrent`, `LatestIsPosted`, `ReplyIsPlayed`,
`LatestChirpHeard`, `Settles`, `Decides`, `PipelinesEnd`), which the prover does not handle: of `LatestIsPosted`, `ReplyIsPlayed`,
`LatestChirpHeard`, `Settles` and `Decides` it proves the safe halves (`FireIsNoticed`, `ReplyInOrder`, `ChirpIsWaiting`, `ForgetsFirst`, `StepsForward`). Also
the three violated promises, each shown by a counterexample.

## 5. Where code and comments disagree

Shown by runs:

- `turns_clean`: a bring-up is given up, but `tick()` still runs in the same iteration
  (`session.cpp:518-526`) and can complete it. A wake word before the next look finds the peer of
  the turn before. "The next wake word starts clean" (`session.cpp:486-487`) fails.
- `turns_abandon`: an offer request blocks while the turn expires and a new one is armed; its failure
  then clears `conversation_active_` for the new turn (`session.cpp:401-402`).
- `ice_keepalive`: the keepalive renews the permission that was acked last (`agent.c:349, 400`), which is
  another candidate's if the request at nomination, or its ack, went astray. "CreatePermission for the active (nominated) peer" (`agent.c:394`).

Seen while modelling; the model behaves this way, no run is about it:

- `connected_` is set inside `STATE_CHANGED` before `pc->state` (`peer_connection.c:21-25`); packets flushed
  in between are popped and refused, although "nothing spoken during bring-up is lost" (`session.cpp:472-474`).
  It is one of the causes in `StreamBreaksOnlyBy`, as is the encoder that a rebuild in mid-turn does not reset
  (`session.hpp:106-108` says both codecs are).
- `now` is read before `last_rx_frame_tick_` (`session.cpp:613-621`), so a stamp one
  tick newer wraps the unsigned difference and unmutes the microphone for one frame.
- The `Off` of a teardown can be swallowed by the wake flash's hold, and nothing sets it again (`session.cpp:496`): the ring of an idle device
  stays lit. An override's expiry is noticed only by a later `setLed` (`ui.cpp:108`), which an idle device never calls, although
  it "auto-resumes when the hold expires" (`ui.hpp:31`).
- A turn that the main loop gives up or abandons ends without its chirp; two chirps asked for during one are heard as one.
- The station gives up after five disconnections in a row and stays offline until a restart (`wifi_sta.cpp:30`). A connect that merely timed out
  erases the credentials (`main.cpp:126`), also in the trial boot of a good update, which is then rolled back as well.
- The portal answers "Saved" when NVS could not be opened, and cuts a 32-byte SSID to 31 bytes on its way to the driver.
- Nobody checks that the reboot task of an accepted update could be created: the ring then stays in the rainbow until the next restart.
- The result of the second Allocate's read is not looked at (`agent.c:226-227`), so `turn_allocated` may stand for no relay; the model's `bogus`.
  A late answer to an earlier check validates the pair that is nominated by then; hence the `<=` in `SelectedWasAnswered`.
- The transcript observer has no memory of frames it has seen: the second pass of a start can cut a row short and
  that of an end can emit a partial row, so "one row per turn" (`bot.py:651-653`) is weaker in fact; `EachTokenOnce` is what holds.
- A client of the transcript stream that leaves before its generator starts leaves its queue in the set; the exception in `EachStreamAccounted`.
- A StackChan that leaves while `run_bot` awaits its usage figures (`bot.py:397`) closes before the transport (400) and `on_client_disconnected` (584)
  exist. The pipeline is built and registered all the same, and with the idle timeout off (567) nothing ends it: it stays in `_active_sessions`, although it should
  "live until the peer disconnects" (565). `BotSessions` has these connections in `missed`.
- A clip whose write is cut short in `sync` or `fetch` is there, so `if not out.exists()` and its counterpart (`collect_hard_negatives.py:74, 106`) skip it in every later
  run, although re-running "just adds newly-labelled clips" (`collect_hard_negatives.py:88-89`); `fetch` also takes the unlabelled, incomplete clip of an upload cut short, which `stage` carries into the corpus.
  `TornClipsOwed` counts them. `stage` itself writes every clip again and so repairs what it left.
- A clip that is relabelled after a sync ends up in both directories of the corpus.

## 6. What is left out

| Part | Why |
|---|---|
| DTLS-SRTP, RTP, SCTP, STUN attributes, SDP and JSON text | vendored protocol code; `Session` and `IceAgent` have its outcomes as choices |
| Codecs, gates, the wake model's feature frontend and its FFT | signal processing: no control state that a property could tell apart |
| `peer_signaling.c`, `mdns.c`, `domain::SessionFsm`, `domain::WakeWindow` | the firmware does not use them, or nothing reads what they compute |
| Board I/O, HTTPS client, SNTP, mDNS | drivers; a failure is an outcome of the action that calls them |
| Log WebSocket and its client table | nothing in the repository promises who gets a log line |
| StackChan captions, prompt, SDP munge, health and ICE endpoints of the backend | formatting, or without state |
| `Session::stop()` | no caller in the firmware |
| The fallback without a PSRAM ring, the 49-day wrap of the deadline comparison | the former disables the feature; the latter needs the absolute clock, and the model keeps what is left of the deadline |
| NTP steps of the backend's clock | a sample stands for its upload's number, which is the order of times; a clock set back could rotate out the newest |
| The copies of the metrics that the corpus tool keeps beside its clips | shown to the user while labelling, read by nothing else |
| Training and embedding tools, chart, data tables (model weights, embedded pages) | offline or declarative; the tables alone are a quarter of the lines of the repository |

## 7. Plan

1. The log stream: its client table and the descriptors that are reused.
2. Reply frames of two turns told apart, for the late frame that sets `bot_replied_` (`session.cpp:444`).
3. The handshake of DTLS with its retransmissions as an outcome that takes time of its own.
4. Two conversations in the backend run, once the observer's state is factored out.
5. An abstract audio path as the interface between `Session` and `Playback`, so that the turn that `Playback` sees is the one `Session` implements.
