------------------------------ MODULE Feedback ------------------------------
(***************************************************************************)
(* The LED ring: app::Ui, domain::resolveLedState, and the four callers    *)
(* that share the ring under Ui::mu_ - mainLoop and its libpeer callbacks, *)
(* the capture task, the playback task's tick, the web console.            *)
(* The turn itself is the abstract TurnLifecycle that Session implements.  *)
(* hold_until_us_, override_until_us_ and the two activity stamps are kept *)
(* as the time that is left of them.                                       *)
(***************************************************************************)
EXTENDS Integers, TurnLifecycle

CONSTANTS
  WakeAckHold,    \* kWakeAckHoldMs: the wake flash is not masked for this long
  OverrideHold,   \* kHoldMs of the web console, and the OTA handler's longer hold
  SpeakingHold, TalkingHold, ThinkingMax,  \* of led_fsm.hpp
  ConsoleStates   \* the states that the console is taken to test, of the eleven it can

LedStates  == {"off", "provisioning", "connecting", "negotiating", "listening", "talking",
               "thinking", "wakeack", "speaking", "muted", "error"}
LiveStates == {"off", "listening", "talking", "thinking", "speaking", "muted"}

ASSUME FeedbackAssumption ==
  /\ {WakeAckHold, OverrideHold, SpeakingHold, TalkingHold, ThinkingMax} \subseteq Nat \ {0}
  /\ ConsoleStates \subseteq LedStates

VARIABLES
  muted,        \* Button::isMuted
  rx_left,      \* what is left of SPEAKING_HOLD since the last loud inbound frame
  mic_left,     \* what is left of TALKING_HOLD + THINKING_MAX since the last loud mic frame
  shown,        \* what the ring shows
  last,         \* last_pushed_
  hold,         \* hold_until_us_ - now
  override,     \* override_until_us_ - now; NoOverride when it is cleared
  force,        \* force_
  mpc,          \* mainLoopTask: in its loop, or between two steps of an ending
  cpc,          \* captureTask: listening, or about to flash the wake ack
  next          \* playbackTask: the state tick() is about to push

ui     == <<shown, last, hold, override, force>>
inputs == <<muted, rx_left, mic_left>>
pcs    == <<mpc, cpc, next>>
fvars  == <<lifecycle, inputs, ui, pcs>>

NoOverride == -1
Nothing    == "nothing"
TestColour == "test"     \* a colour set by the console, no state of the machine

FeedbackInit ==
  /\ LifecycleInit
  /\ muted \in BOOLEAN /\ rx_left = 0 /\ mic_left = 0
  /\ shown = "off" /\ last = "off" /\ hold = 0 /\ override = NoOverride /\ force = FALSE
  /\ mpc = "loop" /\ cpc = "listen" /\ next = Nothing

----------------------------------------------------------------------------
(* Ui                                                                      *)

\* Planted: a wake flash extends the hold that is still running.
BugHoldAccumulates(s) ==
  /\ shown' = s /\ last' = s
  /\ hold' = IF s = "wakeack" THEN hold + WakeAckHold ELSE hold

\* applyState
Apply(s) ==
  /\ shown' = s /\ last' = s
  /\ hold' = IF s = "wakeack" THEN WakeAckHold ELSE hold

Expired == override = 0
Forced  == force \/ Expired     \* overrideActive sets force_ when it sees the expiry

\* Planted: the wake flash is not held.
BugNoHold(s) ==
  \/ override > 0 /\ UNCHANGED ui
  \/ /\ override <= 0 /\ override' = NoOverride
     /\ \/ ~Forced /\ s = last /\ UNCHANGED <<shown, last, hold, force>>
        \/ (Forced \/ s # last) /\ force' = FALSE /\ Apply(s)

\* Planted: force_ is cleared before it is known that the state will be applied.
BugForceLost(s) ==
  \/ override > 0 /\ UNCHANGED ui
  \/ /\ override <= 0 /\ override' = NoOverride
     /\ force' = FALSE
     /\ \/ s # "wakeack" /\ hold > 0 /\ UNCHANGED <<shown, last, hold>>
        \/ (s = "wakeack" \/ hold = 0) /\ ~Forced /\ s = last /\ UNCHANGED <<shown, last, hold>>
        \/ (s = "wakeack" \/ hold = 0) /\ (Forced \/ s # last) /\ Apply(s)

\* setLed: a console override owns the ring; the wake flash is held; repeats are dropped.
SetLed(s) ==
  \/ override > 0 /\ UNCHANGED ui
  \/ /\ override <= 0 /\ override' = NoOverride
     /\ \/ /\ s # "wakeack" /\ hold > 0
           /\ force' = Forced /\ UNCHANGED <<shown, last, hold>>
        \/ /\ s = "wakeack" \/ hold = 0
           /\ ~Forced /\ s = last
           /\ UNCHANGED <<shown, last, hold, force>>
        \/ /\ s = "wakeack" \/ hold = 0
           /\ Forced \/ s # last
           /\ force' = FALSE /\ Apply(s)

\* resolveLedState, in its order of priority.
Resolve ==
  CASE ~connected             -> Nothing
    [] connected /\ muted     -> "muted"
    [] OTHER ->
         CASE rx_left > 0                          -> "speaking"
           [] rx_left = 0 /\ ~active               -> "off"
           [] OTHER ->
                CASE mic_left > ThinkingMax -> "talking"
                  [] mic_left \in 1 .. ThinkingMax -> "thinking"
                  [] OTHER -> "listening"

----------------------------------------------------------------------------
(* mainLoopTask and onPeerState                                            *)

MainLook  == mpc = "loop" /\ Look /\ UNCHANGED <<inputs, ui, pcs>>
MainBuild == mpc = "loop" /\ Build /\ UNCHANGED <<inputs, ui, pcs>>

\* The offer failed, the bring-up timed out or the reconnects are used up.
MainAbandon == mpc = "loop" /\ want /\ EndTurn /\ UNCHANGED <<inputs, ui, pcs>>

\* onPeerState(New .. Connected, Failed .. Closed)
Negotiate ==
  /\ mpc = "loop" /\ want /\ have /\ ~connected
  /\ SetLed("negotiating")
  /\ UNCHANGED <<lifecycle, inputs, pcs>>

\* onPeerState(Completed) forgets the last reply frame and leaves the ring to the tick.
MainEstablish ==
  /\ mpc = "loop" /\ Establish
  /\ rx_left' = 0
  /\ UNCHANGED <<muted, mic_left, ui, pcs>>

\* onInboundAudio, a loud frame
HearReply ==
  /\ mpc = "loop" /\ want /\ connected
  /\ rx_left' = SpeakingHold
  /\ UNCHANGED <<lifecycle, muted, mic_left, ui, pcs>>

DropConnection ==
  /\ mpc = "loop" /\ want /\ have
  /\ SetLed("negotiating")
  /\ mpc' = "drop"
  /\ UNCHANGED <<lifecycle, inputs, cpc, next>>

FinishDrop ==
  /\ mpc = "drop" /\ Rebuild
  /\ mpc' = "loop"
  /\ UNCHANGED <<inputs, ui, cpc, next>>

MainRelease ==
  /\ mpc = "loop" /\ Release
  /\ mpc' = "darken"
  /\ UNCHANGED <<inputs, ui, cpc, next>>

Darken ==
  /\ mpc = "darken"
  /\ SetLed("off")
  /\ mpc' = "loop"
  /\ UNCHANGED <<lifecycle, inputs, cpc, next>>

MainLoop == MainLook \/ MainBuild \/ FinishDrop \/ MainRelease \/ Darken
Network  == MainAbandon \/ Negotiate \/ MainEstablish \/ HearReply \/ DropConnection

----------------------------------------------------------------------------
(* captureTask and playbackTask                                            *)

WakeFires ==
  /\ cpc = "listen" /\ Wake
  /\ cpc' = "ack"
  /\ UNCHANGED <<inputs, ui, mpc, next>>

FlashAck ==
  /\ cpc = "ack"
  /\ SetLed("wakeack")
  /\ cpc' = "listen"
  /\ UNCHANGED <<lifecycle, inputs, mpc, next>>

\* A turn lasts seconds: longer than the flash that opened it, and long enough for main,
\* which blocks only in a turn, to have seen it.
TurnExpires ==
  /\ cpc = "listen" /\ want /\ (hold = 0 \/ override # NoOverride)
  /\ EndTurn
  /\ UNCHANGED <<inputs, ui, pcs>>

\* Loud speech, while the echo guard (shorter than SPEAKING_HOLD) is off.
MicLoud ==
  /\ cpc = "listen" /\ rx_left < SpeakingHold
  /\ mic_left' = TalkingHold + ThinkingMax
  /\ UNCHANGED <<lifecycle, muted, rx_left, ui, pcs>>

\* Ui::tick: the inputs are read and resolved first, the ring is set afterwards.
TickRead ==
  /\ next = Nothing /\ connected
  /\ next' = Resolve
  /\ UNCHANGED <<lifecycle, inputs, ui, mpc, cpc>>

TickSet ==
  /\ next # Nothing
  /\ SetLed(next)
  /\ next' = Nothing
  /\ UNCHANGED <<lifecycle, inputs, mpc, cpc>>

Playback == TickRead \/ TickSet

----------------------------------------------------------------------------
(* The button, the web console and time                                    *)

Press ==
  /\ muted' = ~muted
  /\ UNCHANGED <<lifecycle, rx_left, mic_left, ui, pcs>>

OverrideEffect ==
  /\ shown' = TestColour
  /\ override' = OverrideHold
  /\ UNCHANGED <<lifecycle, inputs, last, hold, force, pcs>>

OverrideState(s) ==
  /\ Apply(s)
  /\ override' = OverrideHold
  /\ UNCHANGED <<lifecycle, inputs, force, pcs>>

\* Planted: the ring is handed back without a forced refresh.
BugResumeUnforced ==
  /\ override' = NoOverride
  /\ UNCHANGED <<lifecycle, inputs, shown, last, hold, force, pcs>>

ResumeAuto ==
  /\ override' = NoOverride /\ force' = TRUE
  /\ UNCHANGED <<lifecycle, inputs, shown, last, hold, pcs>>

Console == OverrideEffect \/ ResumeAuto \/ \E s \in ConsoleStates : OverrideState(s)

Less1(t) == IF t > 0 THEN t - 1 ELSE t

TimePasses ==
  /\ hold' = Less1(hold) /\ override' = Less1(override)
  /\ rx_left' = Less1(rx_left) /\ mic_left' = Less1(mic_left)
  /\ UNCHANGED <<lifecycle, muted, shown, last, force, pcs>>

FeedbackNext ==
  \/ MainLoop \/ Network \/ WakeFires \/ FlashAck \/ TurnExpires \/ MicLoud \/ Playback
  \/ Press \/ Console \/ TimePasses

FeedbackSpec == FeedbackInit /\ [][FeedbackNext]_fvars

(* The tasks never stop.  The user, the network and the console owe nothing. *)
FairFeedback ==
  /\ FeedbackSpec
  /\ WF_fvars(MainLoop) /\ WF_fvars(FlashAck) /\ WF_fvars(TickRead) /\ WF_fvars(TickSet)
  /\ WF_fvars(TimePasses)

----------------------------------------------------------------------------
(* The ring's clocks stay within their holds and its states are the eleven of the    *)
(* state machine (ui.cpp:77-136, led_fsm.hpp).                                        *)
FeedbackTypeOK ==
  /\ {active, want, have, connected, muted, force} \subseteq BOOLEAN
  /\ rx_left \in 0 .. SpeakingHold /\ mic_left \in 0 .. TalkingHold + ThinkingMax
  /\ shown \in LedStates \cup {TestColour} /\ last \in LedStates
  /\ hold \in 0 .. WakeAckHold /\ override \in NoOverride .. OverrideHold
  /\ mpc \in {"loop", "drop", "darken"} /\ cpc \in {"listen", "ack"}
  /\ next \in LedStates \cup {Nothing}

(* Dropping repeats is sound: once no override is in force or waiting to be noticed  *)
(* and no refresh is due, the ring shows the state last pushed (ui.cpp:63-75, 108-143). *)
DedupSound == override = NoOverride /\ ~force => shown = last

(* The wake flash is not masked while it is held, whoever sets the ring, once the     *)
(* console's overrides have ended and the refresh they owe is paid. A flash that an   *)
(* override masks, or that comes back only with that refresh, is not covered           *)
(* (ui.cpp:69-71, 98-101).                                                             *)
WakeAckHeld == hold > 0 /\ override = NoOverride /\ ~force => shown = "wakeack"

(* While the session is up and the console leaves the ring alone, a state that the   *)
(* inputs keep asking for is what the ring ends up showing, whatever flash, override  *)
(* or half-done tick came before (ui.cpp:63-75, 145-149, session.cpp:775-782).        *)
LiveRingCurrent ==
  \A s \in LiveStates :
    <>[](connected /\ override = NoOverride /\ cpc = "listen" /\ Resolve = s)
      => <>[](shown = s)
=============================================================================
