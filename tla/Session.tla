------------------------------ MODULE Session ------------------------------
(***************************************************************************)
(* The voice session of the device: app::Session, of pv_app/src/session.cpp *)
(* together with the part of libpeer that its tasks drive.                 *)
(*                                                                         *)
(* Two FreeRTOS tasks on two cores share a handful of atomics:             *)
(*   main     mainLoopTask  - builds, pumps and tears down the peer        *)
(*   capture  captureTask   - wake word, turn deadline, uplink backlog     *)
(* An action is one step of one task between two accesses to shared state  *)
(* that another task can write; a task's program counter (mpc, cpc) says   *)
(* where it stands.                                                        *)
(*                                                                         *)
(* Time is discrete, one Tick standing for a few seconds.  A tick stamp of *)
(* the code (last_rx_pkt_tick_, connect_started, ...) is kept as its age,  *)
(* turn_deadline_ as the time that is left, so that the state space is     *)
(* finite without a bound on the length of a behaviour.  A task's local    *)
(* `now` can be one Tick old when the task uses it: lag.                   *)
(***************************************************************************)
EXTENDS Integers, Sequences

CONSTANTS
  AwaitResponse,      \* kAwaitResponseMs: window for the first reply
  PostResponse,       \* kPostResponseSilenceMs: window after the last reply frame
  ConnectTimeout,     \* kConnectTimeoutMs: bring-up given up after this
  MediaDead,          \* kMediaDeadMs: no inbound packet for longer is a dead path
  EchoGuard,          \* kEchoGuardMs: the mic stays muted this long after a TTS frame
  BlockMax,           \* longest time one blocking call holds main (HTTP, DTLS)
  MaxReconnects,      \* kMaxReconnectsPerTurn
  RingCap,            \* kRingPkts: packets the uplink backlog holds
  CatchUp,            \* packets flushed per frame while the backlog has more than one
  TickMod             \* TickType_t is unsigned: differences are taken modulo TickMod

ASSUME SessionAssumption ==
  /\ {AwaitResponse, PostResponse, ConnectTimeout, MediaDead, EchoGuard,
      BlockMax, RingCap, CatchUp} \subseteq Nat \ {0}
  /\ MaxReconnects \in Nat
  /\ TickMod \in Nat /\ TickMod > EchoGuard + 1

VARIABLES
  active,       \* conversation_active_: a turn is in progress
  connected,    \* connected_: onPeerState saw Completed and nothing tore it down
  peer_dead,    \* peer_dead_: libpeer reported the path lost
  bot_replied,  \* bot_replied_: the first reply of the turn has arrived
  turn_left,    \* turn_deadline_ - now
  rx_frame,     \* age of last_rx_frame_tick_ (loud TTS frame), or NoFrame for 0
  rx_pkt,       \* age of last_rx_pkt_tick_ (any inbound packet)
  ring,         \* the uplink backlog, oldest packet first
  enc_fresh,    \* g722_enc_ was reset and has encoded nothing since
  peer,         \* peer_ and its pc->state; "none" when peer_ is null
  answer,       \* pending_answer_: an SDP answer is parked on the peer
  ice,          \* ice_ is not empty
  \* mainLoopTask
  mpc, prev_want, reconnects,
  conn_age,     \* now - connect_started
  blocked,      \* how long the current blocking call has lasted
  \* captureTask
  cpc, lag, budget,
  ran           \* which tasks finished an iteration since the last Tick

shared   == <<active, connected, peer_dead, bot_replied, turn_left, rx_frame, rx_pkt>>
uplink   == <<ring, enc_fresh>>
libpeer  == <<peer, answer, ice>>
main     == <<mpc, prev_want, reconnects, conn_age, blocked>>
capture  == <<cpc, lag, budget>>
vars     == <<shared, uplink, libpeer, main, capture, ran>>

NoFrame == -1

PeerStates == {"none", "new", "checking", "connected", "completed", "failed"}
Blocking   == {"fetch", "offer", "handshake"}
MainPcs    == {"delay", "create", "abandon", "resetnull", "teardown", "drop", "giveup",
               "tick", "completing", "completed", "reply"} \cup Blocking
CapturePcs == {"read", "guard", "extend", "detect", "armnew", "arm", "expire", "end",
               "encode", "lock", "send"}
Packets    == {"head", "cont"}   \* the first packet after an encoder reset, and the others

Lesser(a, b)  == IF a < b THEN a ELSE b
Greater(a, b) == IF a > b THEN a ELSE b
Window        == Greater(AwaitResponse, PostResponse)

Init ==
  /\ active = FALSE /\ connected = FALSE /\ peer_dead = FALSE /\ bot_replied = FALSE
  /\ turn_left = -2 /\ rx_frame = NoFrame /\ rx_pkt = MediaDead + 1
  /\ ring = << >> /\ enc_fresh = TRUE
  /\ peer = "none" /\ answer = FALSE /\ ice \in BOOLEAN
  /\ mpc = "delay" /\ prev_want = FALSE /\ reconnects = 0 /\ conn_age = 0 /\ blocked = 0
  /\ cpc = "read" /\ lag = 0 /\ budget = 0
  /\ ran = {}

----------------------------------------------------------------------------
(* mainLoopTask: the decision at the top of the loop.  want and have are read *)
(* once; the budget is reset on an edge of want that the loop itself sees.    *)

\* Planted: the budget is reset whenever a turn is on, not on its first sight.
BugBudgetEveryLook == IF active THEN 0 ELSE reconnects

Budget  == IF active /\ ~prev_want THEN 0 ELSE reconnects
Lost    == peer_dead \/ (connected /\ rx_pkt > MediaDead)

\* Planted: no bring-up timeout.
BugNoTimeout == FALSE

Stalled == ~connected /\ conn_age > ConnectTimeout

\* Planted: prev_want is not stored.
BugForgetWant(next) ==
  /\ mpc = "delay"
  /\ prev_want' = prev_want
  /\ mpc' = next

Iterate(next) ==
  /\ mpc = "delay"
  /\ prev_want' = active
  /\ mpc' = next

EndIteration ==
  /\ mpc' = "delay"
  /\ ran' = ran \cup {"main"}

\* want && !have: a fresh wake, or the rebuild after a drop.
LoopConnect ==
  /\ active /\ peer = "none"
  /\ Iterate(IF ice THEN "create" ELSE "fetch")
  /\ reconnects' = Budget
  /\ conn_age' = 0 /\ blocked' = 0
  /\ peer_dead' = FALSE
  /\ UNCHANGED <<active, connected, bot_replied, turn_left, rx_frame, rx_pkt,
                 uplink, libpeer, capture, ran>>

\* !want && have: the conversation ended.
LoopTeardown ==
  /\ ~active /\ peer # "none"
  /\ Iterate("teardown")
  /\ UNCHANGED <<shared, uplink, libpeer, reconnects, conn_age, blocked, capture, ran>>

\* Planted: one reconnect too many.
BugReconnectOnceMore ==
  /\ active /\ peer # "none" /\ Lost /\ Budget <= MaxReconnects
  /\ Iterate("drop")
  /\ reconnects' = Budget + 1
  /\ UNCHANGED <<shared, uplink, libpeer, conn_age, blocked, capture, ran>>

\* want && have, the connection is lost and the budget is not used up.
LoopReconnect ==
  /\ active /\ peer # "none" /\ Lost /\ Budget < MaxReconnects
  /\ Iterate("drop")
  /\ reconnects' = Budget + 1
  /\ UNCHANGED <<shared, uplink, libpeer, conn_age, blocked, capture, ran>>

\* want && have, lost with nothing left to try, or bring-up stalled.
LoopGiveUp ==
  /\ active /\ peer # "none"
  /\ \/ Lost /\ Budget >= MaxReconnects
     \/ ~Lost /\ Stalled
  /\ Iterate("giveup")
  /\ reconnects' = Budget
  /\ UNCHANGED <<shared, uplink, libpeer, conn_age, blocked, capture, ran>>

\* want && have and all is well: pump libpeer.
LoopPump ==
  /\ active /\ peer # "none" /\ ~Lost /\ ~Stalled
  /\ Iterate("tick")
  /\ reconnects' = Budget
  /\ UNCHANGED <<shared, uplink, libpeer, conn_age, blocked, capture, ran>>

\* !want && !have.
LoopIdle ==
  /\ ~active /\ peer = "none"
  /\ Iterate("delay")
  /\ ran' = ran \cup {"main"}
  /\ UNCHANGED <<shared, uplink, libpeer, reconnects, conn_age, blocked, capture>>

Decide == LoopConnect \/ LoopTeardown \/ LoopReconnect \/ LoopGiveUp \/ LoopPump \/ LoopIdle

----------------------------------------------------------------------------
(* mainLoopTask: what a decision leads to.                                  *)

\* peer_mtx_ is held by the capture task exactly while it flushes.
PeerLocked == cpc = "send"

\* ice_ is empty: GET /ice-servers blocks the loop and may leave it empty.
FetchIce ==
  /\ mpc = "fetch"
  /\ ice' \in BOOLEAN
  /\ mpc' = "create"
  /\ UNCHANGED <<shared, uplink, peer, answer, prev_want, reconnects, conn_age, blocked,
                 capture, ran>>

\* Peer::create, then createOffer, whose callback POSTs the offer before it returns.
CreatePeer ==
  /\ mpc = "create"
  /\ \/ peer' = "new" /\ mpc' = "offer"
     \/ peer' = "none" /\ mpc' = "abandon"
  /\ answer' = FALSE
  /\ blocked' = 0
  /\ UNCHANGED <<shared, uplink, ice, prev_want, reconnects, conn_age, capture, ran>>

OfferAnswered ==
  /\ mpc = "offer"
  /\ answer' = TRUE
  /\ mpc' = "tick"
  /\ blocked' = 0
  /\ UNCHANGED <<shared, uplink, peer, ice, prev_want, reconnects, conn_age,
                 capture, ran>>

OfferFailed ==
  /\ mpc = "offer"
  /\ active' = FALSE
  /\ mpc' = "tick"
  /\ blocked' = 0
  /\ UNCHANGED <<connected, peer_dead, bot_replied, turn_left, rx_frame, rx_pkt, uplink,
                 libpeer, prev_want, reconnects, conn_age, capture, ran>>

\* buildAndOffer returned false: the turn is abandoned, then peer_ reset under the lock.
AbandonTurn ==
  /\ mpc = "abandon"
  /\ active' = FALSE
  /\ mpc' = "resetnull"
  /\ UNCHANGED <<connected, peer_dead, bot_replied, turn_left, rx_frame, rx_pkt, uplink,
                 libpeer, prev_want, reconnects, conn_age, blocked, capture, ran>>

ResetNull ==
  /\ mpc = "resetnull" /\ ~PeerLocked
  /\ peer' = "none" /\ answer' = FALSE
  /\ EndIteration
  /\ UNCHANGED <<shared, uplink, ice, prev_want, reconnects, conn_age, blocked, capture>>

\* Planted: peer_mtx_ is not taken.
BugDestroyUnlocked(pc) ==
  /\ mpc = pc
  /\ connected' = FALSE
  /\ peer' = "none" /\ answer' = FALSE
  /\ EndIteration
  /\ UNCHANGED <<active, peer_dead, bot_replied, turn_left, rx_frame, rx_pkt, uplink, ice,
                 prev_want, reconnects, conn_age, blocked, capture>>

\* Planted: connected_ is left set.
BugStaysConnected(pc) ==
  /\ mpc = pc /\ ~PeerLocked
  /\ peer' = "none" /\ answer' = FALSE
  /\ EndIteration
  /\ UNCHANGED <<shared, uplink, ice, prev_want, reconnects, conn_age, blocked, capture>>

\* Under peer_mtx_: connected_ = false, then peer_.reset(), which drops the parked
\* answer.  The same section ends a conversation and starts a reconnect.
DestroyPeer(pc) ==
  /\ mpc = pc /\ ~PeerLocked
  /\ connected' = FALSE
  /\ peer' = "none" /\ answer' = FALSE
  /\ EndIteration
  /\ UNCHANGED <<active, peer_dead, bot_replied, turn_left, rx_frame, rx_pkt, uplink, ice,
                 prev_want, reconnects, conn_age, blocked, capture>>

Teardown == DestroyPeer("teardown")
Drop     == DestroyPeer("drop")

GiveUp ==
  /\ mpc = "giveup"
  /\ active' = FALSE
  /\ mpc' = "tick"
  /\ UNCHANGED <<connected, peer_dead, bot_replied, turn_left, rx_frame, rx_pkt, uplink,
                 libpeer, prev_want, reconnects, conn_age, blocked, capture, ran>>

----------------------------------------------------------------------------
(* peer_->tick(): peer_connection_loop, the callbacks it makes, and the parked *)
(* answer.  What the network does is nondeterministic.                         *)

\* Planted: the parked answer is read and not taken.
BugAnswerStays ==
  /\ mpc = "tick" /\ peer = "new"
  /\ peer' = IF answer THEN "checking" ELSE "new"
  /\ EndIteration
  /\ UNCHANGED <<shared, uplink, answer, ice, prev_want, reconnects, conn_age, blocked,
                 capture>>

\* New: the loop does nothing; a parked answer starts the connectivity checks.
PumpNew ==
  /\ mpc = "tick" /\ peer = "new"
  /\ peer' = IF answer THEN "checking" ELSE "new"
  /\ answer' = FALSE
  /\ EndIteration
  /\ UNCHANGED <<shared, uplink, ice, prev_want, reconnects, conn_age, blocked, capture>>

PumpChecking ==
  /\ mpc = "tick" /\ peer = "checking"
  /\ peer' \in {"checking", "connected"}
  /\ EndIteration
  /\ UNCHANGED <<shared, uplink, answer, ice, prev_want, reconnects, conn_age, blocked,
                 capture>>

\* No candidate pair is left: onPeerState(Failed).
ChecksFail ==
  /\ mpc = "tick" /\ peer = "checking"
  /\ peer' = "failed"
  /\ connected' = FALSE
  /\ peer_dead' = TRUE
  /\ EndIteration
  /\ UNCHANGED <<active, bot_replied, turn_left, rx_frame, rx_pkt, uplink, answer, ice,
                 prev_want, reconnects, conn_age, blocked, capture>>

\* dtls_srtp_handshake blocks the loop while it waits for the other side.
StartHandshake ==
  /\ mpc = "tick" /\ peer = "connected"
  /\ mpc' = "handshake"
  /\ blocked' = 0
  /\ UNCHANGED <<shared, uplink, libpeer, prev_want, reconnects, conn_age, capture, ran>>

HandshakeFails ==
  /\ mpc = "handshake"
  /\ EndIteration
  /\ blocked' = 0
  /\ UNCHANGED <<shared, uplink, libpeer, prev_want, reconnects, conn_age, capture>>

\* STATE_CHANGED calls onPeerState(Completed) before it assigns pc->state.  The
\* callback's first store is connected_, its last the new deadline.
HandshakeDone ==
  /\ mpc = "handshake"
  /\ connected' = TRUE
  /\ mpc' = "completing"
  /\ blocked' = 0
  /\ UNCHANGED <<active, peer_dead, bot_replied, turn_left, rx_frame, rx_pkt, uplink,
                 libpeer, prev_want, reconnects, conn_age, capture, ran>>

OnCompleted ==
  /\ mpc = "completing"
  /\ rx_frame' = NoFrame
  /\ rx_pkt' = 0
  /\ peer_dead' = FALSE
  /\ turn_left' = AwaitResponse
  /\ mpc' = "completed"
  /\ UNCHANGED <<active, connected, bot_replied, uplink, libpeer, prev_want, reconnects,
                 conn_age, blocked, capture, ran>>

AssignCompleted ==
  /\ mpc = "completed"
  /\ peer' = "completed"
  /\ EndIteration
  /\ UNCHANGED <<shared, uplink, answer, ice, prev_want, reconnects, conn_age, blocked,
                 capture>>

\* Completed: nothing arrives, or a packet of silence, which only proves liveness.
PumpQuiet ==
  /\ mpc = "tick" /\ peer = "completed"
  /\ rx_pkt' \in {rx_pkt, 0}
  /\ EndIteration
  /\ UNCHANGED <<active, connected, peer_dead, bot_replied, turn_left, rx_frame, uplink,
                 libpeer, prev_want, reconnects, conn_age, blocked, capture>>

\* Completed: a loud packet of the bot's reply (onInboundAudio), ...
PumpReply ==
  /\ mpc = "tick" /\ peer = "completed"
  /\ rx_pkt' = 0
  /\ rx_frame' = 0
  /\ bot_replied' = TRUE
  /\ mpc' = "reply"
  /\ UNCHANGED <<active, connected, peer_dead, turn_left, uplink, libpeer, prev_want,
                 reconnects, conn_age, blocked, capture, ran>>

\* ... whose last store is the post-reply deadline.
ReplyDeadline ==
  /\ mpc = "reply"
  /\ turn_left' = PostResponse
  /\ EndIteration
  /\ UNCHANGED <<active, connected, peer_dead, bot_replied, rx_frame, rx_pkt, uplink,
                 libpeer, prev_want, reconnects, conn_age, blocked, capture>>

\* Failed: peer_connection_loop has no case to run.
PumpDead ==
  /\ mpc = "tick" /\ peer = "failed"
  /\ EndIteration
  /\ UNCHANGED <<shared, uplink, libpeer, prev_want, reconnects, conn_age, blocked, capture>>

Pump == PumpNew \/ PumpChecking \/ ChecksFail \/ StartHandshake \/ HandshakeFails
        \/ HandshakeDone \/ OnCompleted \/ AssignCompleted \/ PumpQuiet \/ PumpReply
        \/ ReplyDeadline \/ PumpDead

Main == Decide \/ FetchIce \/ CreatePeer \/ OfferAnswered \/ OfferFailed \/ AbandonTurn
        \/ ResetNull \/ Teardown \/ Drop \/ GiveUp \/ Pump

----------------------------------------------------------------------------
(* captureTask: one 20 ms microphone frame.                                 *)

NextFrame ==
  /\ cpc' = "read"
  /\ lag' = 0
  /\ ran' = ran \cup {"cap"}

CapRead ==
  /\ cpc = "read"
  /\ cpc' = "guard"
  /\ UNCHANGED <<shared, uplink, libpeer, main, lag, budget, ran>>

\* AudioIo::read failed: the frame is skipped, and with it the deadline test.
CapReadFails ==
  /\ cpc = "read"
  /\ NextFrame
  /\ UNCHANGED <<shared, uplink, libpeer, main, budget>>

\* bot_speaking, an unsigned difference: now was read before last_rx_frame_tick_.
GuardActive == rx_frame # NoFrame /\ (rx_frame - lag) % TickMod < EchoGuard

\* The echo guard, and the test that lets loud speech extend an unanswered turn.
CapGuard(loud) ==
  /\ cpc = "guard"
  /\ cpc' = IF loud /\ ~GuardActive /\ active /\ ~bot_replied THEN "extend" ELSE "detect"
  /\ UNCHANGED <<shared, uplink, libpeer, main, lag, budget, ran>>

CapExtend ==
  /\ cpc = "extend"
  /\ turn_left' = AwaitResponse - lag
  /\ cpc' = "detect"
  /\ UNCHANGED <<active, connected, peer_dead, bot_replied, rx_frame, rx_pkt, uplink,
                 libpeer, main, lag, budget, ran>>

\* WakeEngine::detected(), and conversation_active_.exchange(true) when it fired.
CapDetect(fires) ==
  /\ cpc = "detect"
  /\ active' = (active \/ fires)
  /\ cpc' = CASE ~fires  -> "expire"
              [] active  -> "arm"
              [] OTHER   -> "armnew"
  /\ UNCHANGED <<connected, peer_dead, bot_replied, turn_left, rx_frame, rx_pkt, uplink,
                 libpeer, main, lag, budget, ran>>

\* Planted: the backlog of the last turn is kept.
BugKeepBacklog ==
  /\ cpc = "armnew"
  /\ enc_fresh' = TRUE
  /\ bot_replied' = FALSE
  /\ cpc' = "arm"
  /\ UNCHANGED <<active, connected, peer_dead, turn_left, rx_frame, rx_pkt, ring, libpeer,
                 main, lag, budget, ran>>

\* Planted: the encoder runs on into the new utterance.
BugKeepEncoder ==
  /\ cpc = "armnew"
  /\ ring' = << >>
  /\ bot_replied' = FALSE
  /\ cpc' = "arm"
  /\ UNCHANGED <<active, connected, peer_dead, turn_left, rx_frame, rx_pkt, enc_fresh,
                 libpeer, main, lag, budget, ran>>

\* The idle->active edge: a clean encoder, an empty backlog, no reply yet.
CapArmNew ==
  /\ cpc = "armnew"
  /\ enc_fresh' = TRUE
  /\ ring' = << >>
  /\ bot_replied' = FALSE
  /\ cpc' = "arm"
  /\ UNCHANGED <<active, connected, peer_dead, turn_left, rx_frame, rx_pkt, libpeer, main,
                 lag, budget, ran>>

CapArm ==
  /\ cpc = "arm"
  /\ turn_left' = AwaitResponse - lag
  /\ cpc' = "expire"
  /\ UNCHANGED <<active, connected, peer_dead, bot_replied, rx_frame, rx_pkt, uplink,
                 libpeer, main, lag, budget, ran>>

CapExpire ==
  /\ cpc = "expire"
  /\ cpc' = IF active /\ turn_left + lag < 0 THEN "end" ELSE "encode"
  /\ UNCHANGED <<shared, uplink, libpeer, main, lag, budget, ran>>

CapEnd ==
  /\ cpc = "end"
  /\ active' = FALSE
  /\ NextFrame
  /\ UNCHANGED <<connected, peer_dead, bot_replied, turn_left, rx_frame, rx_pkt, uplink,
                 libpeer, main, budget>>

CapSkip ==
  /\ cpc = "encode" /\ ~active
  /\ NextFrame
  /\ UNCHANGED <<shared, uplink, libpeer, main, budget>>

\* Planted: nothing is dropped.
BugPushUnbounded(r, p) == Append(r, p)

\* ring_push: a full backlog drops its oldest packet.
RingPush(r, p) == Append(IF Len(r) < RingCap THEN r ELSE Tail(r), p)

\* In a turn: encode the frame, queue it, and look whether the session is up.
CapEncode ==
  /\ cpc = "encode" /\ active
  /\ ring' = RingPush(ring, IF enc_fresh THEN "head" ELSE "cont")
  /\ enc_fresh' = FALSE
  /\ IF connected
     THEN cpc' = "lock" /\ UNCHANGED <<lag, ran>>
     ELSE NextFrame
  /\ UNCHANGED <<shared, libpeer, main, budget>>

\* lock_guard, and the re-check of peer_ under it.
CapLock ==
  /\ cpc = "lock"
  /\ IF peer # "none"
     THEN /\ budget' = IF Len(ring) > 1 THEN CatchUp ELSE 1
          /\ cpc' = "send" /\ UNCHANGED <<lag, ran>>
     ELSE NextFrame /\ UNCHANGED budget
  /\ UNCHANGED <<shared, uplink, libpeer, main>>

\* ring_pop and sendAudio; peer_connection_send_audio refuses unless Completed.
CapSend ==
  /\ cpc = "send" /\ budget > 0 /\ ring # << >>
  /\ ring' = Tail(ring)
  /\ budget' = budget - 1
  /\ UNCHANGED <<shared, enc_fresh, libpeer, main, cpc, lag, ran>>

CapUnlock ==
  /\ cpc = "send" /\ (budget = 0 \/ ring = << >>)
  /\ budget' = 0
  /\ NextFrame
  /\ UNCHANGED <<shared, uplink, libpeer, main>>

Capture ==
  \/ CapRead \/ CapReadFails \/ CapExtend \/ CapArmNew \/ CapArm \/ CapExpire \/ CapEnd
  \/ CapSkip \/ CapEncode \/ CapLock \/ CapSend \/ CapUnlock
  \/ \E loud \in BOOLEAN : CapGuard(loud)
  \/ \E fires \in BOOLEAN : CapDetect(fires)

----------------------------------------------------------------------------
(* Time.  A Tick is seconds and an iteration of a task milliseconds, so both *)
(* tasks finish an iteration between two Ticks, unless main sits in a        *)
(* blocking call; a frame is crossed by at most one Tick.                    *)

Tick ==
  /\ \/ mpc = "delay" /\ "main" \in ran
     \/ mpc \in Blocking /\ blocked < BlockMax
  /\ IF cpc = "read" THEN "cap" \in ran ELSE lag = 0
  /\ lag' = IF cpc = "read" THEN 0 ELSE 1
  /\ turn_left' = Greater(turn_left - 1, -2)
  /\ rx_frame' = IF rx_frame = NoFrame THEN NoFrame ELSE Lesser(rx_frame + 1, EchoGuard + 1)
  /\ rx_pkt' = Lesser(rx_pkt + 1, MediaDead + 1)
  /\ conn_age' = Lesser(conn_age + 1, ConnectTimeout + 1)
  /\ blocked' = IF mpc \in Blocking THEN blocked + 1 ELSE blocked
  /\ ran' = {}
  /\ UNCHANGED <<active, connected, peer_dead, bot_replied, uplink, libpeer, mpc, prev_want,
                 reconnects, cpc, budget>>

Next == Main \/ Capture \/ Tick

Spec == Init /\ [][Next]_vars

(* Both tasks are runnable forever, and the microphone keeps delivering.  Main blocks on peer_mtx_ only while the capture *)
(* task flushes, and the mutex goes to the waiter when it is given back.  Time passes *)
(* however busy the tasks are.                                                       *)
FairSpec ==
  /\ Spec
  /\ WF_vars(Main) /\ WF_vars(Capture) /\ WF_vars(CapRead)
  /\ SF_vars(ResetNull \/ Teardown \/ Drop)
  /\ SF_vars(Tick)

----------------------------------------------------------------------------
FlagsOK ==
  /\ active \in BOOLEAN /\ connected \in BOOLEAN /\ peer_dead \in BOOLEAN
  /\ bot_replied \in BOOLEAN /\ enc_fresh \in BOOLEAN /\ answer \in BOOLEAN
  /\ ice \in BOOLEAN /\ prev_want \in BOOLEAN

TimersOK ==
  /\ turn_left \in -2 .. Window
  /\ rx_frame \in NoFrame .. EchoGuard + 1
  /\ rx_pkt \in 0 .. MediaDead + 1
  /\ conn_age \in 0 .. ConnectTimeout + 1
  /\ blocked \in 0 .. BlockMax
  /\ lag \in 0 .. 1

CountsOK ==
  /\ reconnects \in 0 .. MaxReconnects
  /\ budget \in 0 .. Greater(CatchUp, 1)
  /\ ring \in Seq(Packets) /\ Len(ring) <= RingCap

PlacesOK ==
  /\ peer \in PeerStates
  /\ mpc \in MainPcs /\ cpc \in CapturePcs
  /\ ran \subseteq {"main", "cap"}

(* Flags are Booleans, clocks and counters stay within their windows, the backlog      *)
(* within its capacity (session.cpp:458-471, 556-580).                                 *)
TypeOK == FlagsOK /\ TimersOK /\ CountsOK /\ PlacesOK

(* The capture task calls sendAudio on peer_ only while a peer exists: the lock and  *)
(* the re-check pair with mainLoop's teardown, so no peer_ is destroyed under a send *)
(* (session.cpp:485-493, 697-713).                                                   *)
NoSendOnDestroyedPeer == cpc = "send" => peer # "none"

(* connected_ is the session's copy of libpeer's state: the two agree, except that   *)
(* connected_ is ahead while onPeerState(Completed) runs, because STATE_CHANGED      *)
(* assigns pc->state after the callback (session.cpp:355-374, peer_connection.c:21). *)
ConnectedTracksPeer ==
  connected <=> (peer = "completed" \/ mpc \in {"completing", "completed"})

(* The backlog holds one utterance: a packet encoded right after an encoder reset is *)
(* never queued behind audio of an earlier turn (session.cpp:660-668, 689-695).      *)
OneUtterance == \A i \in 2 .. Len(ring) : ring[i] # "head"

(* A parked SDP answer belongs to the peer that made the offer and has not used it:  *)
(* no rebuilt peer is started with the answer of the one it replaces (peer.cpp:76-112). *)
AnswerMatchesPeer == answer => peer = "new"

(* A turn that nobody extends ends and its connection goes with it: again and again    *)
(* there is neither a turn nor a peer, or the user (loud speech before the reply, a    *)
(* wake word) or the bot (a reply frame) keeps pushing the deadline.  Neither a dead   *)
(* backend nor a flapping relay can hold the device (session.cpp:458-530, 673-683).    *)
TurnEnds ==
  []<>(~active /\ peer = "none") \/ []<>(cpc = "extend") \/ []<>(cpc = "arm")
                                \/ []<>(mpc = "reply")

(* Bring-up resolves: a turn gets its connection or is given up, whatever the relay,  *)
(* ICE and DTLS do and however often the wake word fires (session.cpp:27-29, 518-522). *)
BringUpResolves == active ~> (connected \/ ~active)

(* The two tasks together implement the lifecycle of a turn, mainLoop's prev_want      *)
(* being what it last saw of the turn and peer_ the connection it holds.              *)
Lifecycle == INSTANCE TurnLifecycle WITH want <- prev_want, have <- peer # "none"
RefinesLifecycle == Lifecycle!LifecycleSpec
=============================================================================
