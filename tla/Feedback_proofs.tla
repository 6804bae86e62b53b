-------------------------- MODULE Feedback_proofs --------------------------
(***************************************************************************)
(* The LED ring's gates, for every value of the constants.                 *)
(***************************************************************************)
EXTENDS Feedback, TLAPS

\* What SetLed relies on: clocks in range.
RingOK ==
  /\ hold \in 0 .. WakeAckHold /\ override \in NoOverride .. OverrideHold
  /\ force \in BOOLEAN

RingInv == RingOK /\ DedupSound /\ WakeAckHeld

(* The two holds last some time. *)
LEMMA Holds == WakeAckHold \in Nat \ {0} /\ OverrideHold \in Nat \ {0}
BY FeedbackAssumption

(* Whoever calls Ui::setLed, and with whatever state, keeps the ring's invariant. *)
LEMMA SetLedKeeps ==
  ASSUME NEW s, RingInv, SetLed(s) PROVE RingInv'
<1> USE Holds DEF RingInv, RingOK, DedupSound, WakeAckHeld, NoOverride
<1>1. CASE override > 0 /\ UNCHANGED ui BY <1>1 DEF ui
<1>2. CASE /\ override <= 0 /\ override' = NoOverride
           /\ s # "wakeack" /\ hold > 0
           /\ force' = Forced /\ UNCHANGED <<shown, last, hold>>
  <2>1. hold' = hold /\ override' = -1 BY <1>2
  <2>2. force' \in BOOLEAN BY <1>2 DEF Forced, Expired
  <2>3. CASE Forced
    <3>1. force' BY <1>2, <2>3
    <3> QED BY <2>1, <2>2, <3>1
  <2>4. CASE ~Forced
    <3>1. override = -1 /\ ~force BY <1>2, <2>4 DEF Forced, Expired
    <3> QED BY <1>2, <2>1, <2>2, <3>1
  <2> QED BY <2>3, <2>4
<1>3. CASE /\ override <= 0 /\ override' = NoOverride
           /\ ~Forced /\ s = last
           /\ UNCHANGED <<shown, last, hold, force>>
  BY <1>3 DEF Forced, Expired
<1>4. CASE /\ override <= 0 /\ override' = NoOverride
           /\ s = "wakeack" \/ hold = 0
           /\ force' = FALSE /\ Apply(s)
  <2>1. shown' = s /\ last' = s /\ override' = -1 BY <1>4 DEF Apply
  <2>0. force' \in BOOLEAN BY <1>4
  <2>2. CASE s = "wakeack"
    <3>1. hold' = WakeAckHold BY <1>4, <2>2 DEF Apply
    <3> QED BY <2>0, <2>1, <2>2, <3>1
  <2>3. CASE s # "wakeack"
    <3>1. hold' = 0 BY <1>4, <2>3 DEF Apply
    <3> QED BY <2>0, <2>1, <3>1
  <2> QED BY <2>2, <2>3
<1> QED BY <1>1, <1>2, <1>3, <1>4 DEF SetLed

(* So do steps that do not touch the ring. *)
LEMMA QuietKeeps ==
  ASSUME RingInv, UNCHANGED ui PROVE RingInv'
BY DEF RingInv, RingOK, DedupSound, WakeAckHeld, ui

(* The console and the clock write the ring's variables themselves. *)
LEMMA ConsoleKeeps ==
  ASSUME RingInv, Console \/ TimePasses PROVE RingInv'
<1> USE Holds DEF RingInv, RingOK, DedupSound, WakeAckHeld, NoOverride
<1>1. CASE OverrideEffect BY <1>1 DEF OverrideEffect
<1>2. CASE ResumeAuto BY <1>2 DEF ResumeAuto
<1>3. ASSUME NEW s \in ConsoleStates, OverrideState(s) PROVE RingInv'
  BY <1>3 DEF OverrideState, Apply
<1>4. CASE TimePasses BY <1>4 DEF TimePasses, Less1
<1> QED BY <1>1, <1>2, <1>3, <1>4 DEF Console

(* The ring's invariant is inductive. *)
THEOREM RingInductive == FeedbackSpec => []RingInv
<1>1. FeedbackInit => RingInv
  <2> SUFFICES ASSUME FeedbackInit PROVE RingInv OBVIOUS
  <2>1. shown = "off" /\ last = "off" /\ hold = 0 /\ override = NoOverride /\ force = FALSE
    BY DEF FeedbackInit
  <2>2. RingOK
    <3>1. force \in BOOLEAN BY <2>1
    <3> QED BY <2>1, <3>1, Holds DEF RingOK, NoOverride
  <2>3. DedupSound /\ WakeAckHeld BY <2>1 DEF DedupSound, WakeAckHeld
  <2> QED BY <2>2, <2>3 DEF RingInv
<1>2. RingInv /\ [FeedbackNext]_fvars => RingInv'
  <2> SUFFICES ASSUME RingInv, [FeedbackNext]_fvars PROVE RingInv' OBVIOUS
  <2>1. CASE MainLook \/ MainBuild \/ FinishDrop \/ MainRelease
    BY <2>1, QuietKeeps DEF MainLook, MainBuild, FinishDrop, MainRelease
  <2>2. CASE MainAbandon \/ MainEstablish \/ HearReply
    BY <2>2, QuietKeeps DEF MainAbandon, MainEstablish, HearReply
  <2>3. CASE WakeFires \/ TurnExpires \/ MicLoud \/ TickRead \/ Press
    BY <2>3, QuietKeeps DEF WakeFires, TurnExpires, MicLoud, TickRead, Press
  <2>4. CASE Negotiate \/ DropConnection \/ Darken \/ FlashAck \/ TickSet
    BY <2>4, SetLedKeeps DEF Negotiate, DropConnection, Darken, FlashAck, TickSet
  <2>5. CASE Console \/ TimePasses BY <2>5, ConsoleKeeps
  <2>6. CASE UNCHANGED fvars BY <2>6, QuietKeeps DEF fvars
  <2> QED BY <2>1, <2>2, <2>3, <2>4, <2>5, <2>6
        DEF FeedbackNext, MainLoop, Network, Playback
<1> QED BY <1>1, <1>2, PTL DEF FeedbackSpec

(* Dropping repeated states is sound through every mix of overrides, expiries and *)
(* refreshes (ui.cpp:63-75, 108-143).                                             *)
THEOREM DedupIsSound == FeedbackSpec => []DedupSound
<1>1. RingInv => DedupSound BY DEF RingInv
<1> QED BY RingInductive, <1>1, PTL

(* The wake flash is not masked while it is held (ui.cpp:69-71, 98-101).          *)
THEOREM WakeAckIsHeld == FeedbackSpec => []WakeAckHeld
<1>1. RingInv => WakeAckHeld BY DEF RingInv
<1> QED BY RingInductive, <1>1, PTL

----------------------------------------------------------------------------
(* The type invariant, in the parts that the steps leave alone or write      *)

TurnTyped  == active \in BOOLEAN /\ want \in BOOLEAN /\ have \in BOOLEAN /\ connected \in BOOLEAN
InputTyped == muted \in BOOLEAN /\ rx_left \in 0 .. SpeakingHold /\ mic_left \in 0 .. TalkingHold + ThinkingMax
RingTyped  == shown \in LedStates \cup {TestColour} /\ last \in LedStates
PcTyped    == /\ mpc \in {"loop", "drop", "darken"} /\ cpc \in {"listen", "ack"}
              /\ next \in LedStates \cup {Nothing}
Typed      == TurnTyped /\ InputTyped /\ RingTyped /\ PcTyped

LEMMA RingTypedKept ==
  ASSUME RingTyped, NEW s \in LedStates, SetLed(s) \/ Apply(s) \/ UNCHANGED ui PROVE RingTyped'
BY DEF RingTyped, SetLed, Apply, ui

LEMMA Resolved == Resolve \in LedStates \cup {Nothing}
BY DEF Resolve, LedStates

LEMMA TurnTypedKept == ASSUME TurnTyped, [LifecycleNext]_lifecycle PROVE TurnTyped'
<1>1. CASE Wake \/ EndTurn \/ Look BY <1>1 DEF TurnTyped, Wake, EndTurn, Look
<1>2. CASE Build \/ Establish BY <1>2 DEF TurnTyped, Build, Establish
<1>3. CASE Release \/ Rebuild BY <1>3 DEF TurnTyped, Release, Rebuild, Disconnect
<1>4. CASE UNCHANGED lifecycle BY <1>4 DEF TurnTyped, lifecycle
<1> QED BY <1>1, <1>2, <1>3, <1>4 DEF LifecycleNext

LEMMA TypedKept == ASSUME Typed, [FeedbackNext]_fvars PROVE Typed'
<1> USE DEF Typed, InputTyped, PcTyped
<1>1. "off" \in LedStates /\ "negotiating" \in LedStates /\ "wakeack" \in LedStates BY DEF LedStates
<1>2. CASE MainLook \/ MainBuild \/ MainAbandon \/ TurnExpires
  <2>1. [LifecycleNext]_lifecycle /\ UNCHANGED <<inputs, ui, pcs>>
    BY <1>2 DEF MainLook, MainBuild, MainAbandon, TurnExpires, LifecycleNext
  <2> QED BY <2>1, <1>1, TurnTypedKept, RingTypedKept DEF inputs, pcs
<1>3. CASE FinishDrop \/ MainRelease
  <2>1. [LifecycleNext]_lifecycle /\ UNCHANGED <<inputs, ui, cpc, next>> /\ mpc' \in {"loop", "darken"}
    BY <1>3 DEF FinishDrop, MainRelease, LifecycleNext
  <2> QED BY <2>1, <1>1, TurnTypedKept, RingTypedKept DEF inputs
<1>4. CASE WakeFires
  <2>1. [LifecycleNext]_lifecycle /\ UNCHANGED <<inputs, ui, mpc, next>> /\ cpc' = "ack"
    BY <1>4 DEF WakeFires, LifecycleNext
  <2> QED BY <2>1, <1>1, TurnTypedKept, RingTypedKept DEF inputs
<1>5. CASE MainEstablish
  <2>1. [LifecycleNext]_lifecycle /\ rx_left' = 0 /\ UNCHANGED <<muted, mic_left, ui, pcs>>
    BY <1>5 DEF MainEstablish, LifecycleNext
  <2> QED BY <2>1, <1>1, TurnTypedKept, RingTypedKept, FeedbackAssumption DEF pcs
<1>6. CASE HearReply \/ MicLoud \/ Press
  <2>1. /\ UNCHANGED <<lifecycle, ui, pcs>> /\ muted' \in BOOLEAN
        /\ rx_left' \in {rx_left, SpeakingHold} /\ mic_left' \in {mic_left, TalkingHold + ThinkingMax}
    BY <1>6 DEF HearReply, MicLoud, Press
  <2>2. InputTyped' BY <2>1, FeedbackAssumption
  <2> QED BY <2>1, <2>2, <1>1, TurnTypedKept, RingTypedKept DEF pcs
<1>7. CASE Negotiate \/ DropConnection \/ Darken \/ FlashAck \/ TickSet
  <2>1. UNCHANGED <<lifecycle, inputs>>
    BY <1>7 DEF Negotiate, DropConnection, Darken, FlashAck, TickSet
  <2>2. mpc' \in {"loop", "drop", "darken"} /\ cpc' \in {"listen", "ack"} /\ next' \in {next, Nothing}
    BY <1>7 DEF Negotiate, DropConnection, Darken, FlashAck, TickSet, pcs
  <2>3. PICK s \in LedStates : SetLed(s)
    BY <1>1, <1>7 DEF Negotiate, DropConnection, Darken, FlashAck, TickSet
  <2> QED BY <2>1, <2>2, <2>3, TurnTypedKept, RingTypedKept DEF inputs
<1>8. CASE TickRead
  <2>1. UNCHANGED <<lifecycle, inputs, ui, mpc, cpc>> /\ next' = Resolve BY <1>8 DEF TickRead
  <2> QED BY <2>1, <1>1, TurnTypedKept, RingTypedKept, Resolved DEF inputs
<1>9. CASE Console
  <2>1. UNCHANGED <<lifecycle, inputs, pcs>> BY <1>9 DEF Console, OverrideEffect, ResumeAuto, OverrideState
  <2>2. RingTyped'
    <3>1. CASE OverrideEffect BY <3>1 DEF OverrideEffect, RingTyped
    <3>2. CASE ResumeAuto BY <3>2 DEF ResumeAuto, RingTyped
    <3>3. ASSUME NEW s \in ConsoleStates, OverrideState(s) PROVE RingTyped'
      BY <3>3, RingTypedKept, FeedbackAssumption DEF OverrideState
    <3> QED BY <1>9, <3>1, <3>2, <3>3 DEF Console
  <2> QED BY <2>1, <2>2, TurnTypedKept DEF inputs, pcs
<1>10. CASE TimePasses
  <2>1. UNCHANGED <<lifecycle, muted, shown, last, pcs>>
        /\ rx_left' = Less1(rx_left) /\ mic_left' = Less1(mic_left)
    BY <1>10 DEF TimePasses
  <2>2. InputTyped' BY <2>1, FeedbackAssumption DEF Less1
  <2>3. RingTyped' BY <2>1 DEF RingTyped
  <2> QED BY <2>1, <2>2, <2>3, TurnTypedKept DEF pcs
<1>11. CASE UNCHANGED fvars
  <2>1. UNCHANGED <<lifecycle, inputs, ui, pcs>> BY <1>11 DEF fvars
  <2> QED BY <2>1, <1>1, TurnTypedKept, RingTypedKept DEF inputs, pcs
<1> QED BY <1>2, <1>3, <1>4, <1>5, <1>6, <1>7, <1>8, <1>9, <1>10, <1>11
        DEF FeedbackNext, MainLoop, Network, Playback

(* The type invariant of the ring and of the turn it follows (ui.cpp:77-136).     *)
THEOREM FeedbackTypeCorrect == FeedbackSpec => []FeedbackTypeOK
<1>1. FeedbackInit => Typed
  <2> SUFFICES ASSUME FeedbackInit PROVE Typed OBVIOUS
  <2>1. TurnTyped BY DEF FeedbackInit, LifecycleInit, TurnTyped
  <2>2. InputTyped BY FeedbackAssumption DEF FeedbackInit, InputTyped
  <2>3. RingTyped BY DEF FeedbackInit, RingTyped, LedStates
  <2>4. PcTyped BY DEF FeedbackInit, PcTyped
  <2> QED BY <2>1, <2>2, <2>3, <2>4 DEF Typed
<1>2. RingInv /\ Typed => FeedbackTypeOK
  BY DEF RingInv, RingOK, Typed, TurnTyped, InputTyped, RingTyped, PcTyped, FeedbackTypeOK
<1>3. FeedbackSpec => []Typed BY <1>1, TypedKept, PTL DEF FeedbackSpec
<1> QED BY <1>2, <1>3, RingInductive, PTL
----------------------------------------------------------------------------
(* The turn that the ring follows                                            *)

\* Main, between the two steps of an ending, has what it is about to take away, or no longer has it.
Ending ==
  /\ mpc = "drop" => want /\ have
  /\ mpc = "darken" => ~want /\ ~have
  /\ connected => have

EndingInv == TurnTyped /\ Ending

(* Nobody else takes a turn step while main is between the two steps of an ending. *)
LEMMA EndingKept ==
  ASSUME EndingInv, [FeedbackNext]_fvars PROVE EndingInv' /\ [LifecycleNext]_lifecycle
<1> USE DEF Ending
<1>0. TurnTyped /\ Ending BY DEF EndingInv
<1>1. CASE MainLook
  <2>1. Look /\ mpc = "loop" /\ mpc' = "loop" BY <1>1 DEF MainLook, pcs
  <2>2. Ending' BY <2>1, <1>0 DEF Look
  <2> QED BY <2>1, <2>2, <1>0, TurnTypedKept DEF EndingInv, LifecycleNext
<1>2. CASE MainBuild
  <2>1. Build /\ mpc = "loop" /\ mpc' = "loop" BY <1>2 DEF MainBuild, pcs
  <2>2. Ending' BY <2>1, <1>0 DEF Build
  <2> QED BY <2>1, <2>2, <1>0, TurnTypedKept DEF EndingInv, LifecycleNext
<1>3. CASE MainAbandon \/ TurnExpires
  <2>1. EndTurn /\ mpc' = mpc BY <1>3 DEF MainAbandon, TurnExpires, pcs
  <2>2. Ending' BY <2>1, <1>0 DEF EndTurn
  <2> QED BY <2>1, <2>2, <1>0, TurnTypedKept DEF EndingInv, LifecycleNext
<1>4. CASE WakeFires
  <2>1. Wake /\ mpc' = mpc BY <1>4 DEF WakeFires
  <2>2. Ending' BY <2>1, <1>0 DEF Wake
  <2> QED BY <2>1, <2>2, <1>0, TurnTypedKept DEF EndingInv, LifecycleNext
<1>5. CASE MainEstablish
  <2>1. Establish /\ mpc = "loop" /\ mpc' = "loop" BY <1>5 DEF MainEstablish, pcs
  <2>2. Ending' BY <2>1, <1>0 DEF Establish
  <2> QED BY <2>1, <2>2, <1>0, TurnTypedKept DEF EndingInv, LifecycleNext
<1>6. CASE FinishDrop
  <2>1. Rebuild /\ mpc' = "loop" BY <1>6 DEF FinishDrop
  <2>2. Ending' BY <2>1, <1>0 DEF Rebuild, Disconnect
  <2> QED BY <2>1, <2>2, <1>0, TurnTypedKept DEF EndingInv, LifecycleNext
<1>7. CASE MainRelease
  <2>1. Release /\ mpc' = "darken" BY <1>7 DEF MainRelease
  <2>2. Ending' BY <2>1, <1>0 DEF Release, Disconnect
  <2> QED BY <2>1, <2>2, <1>0, TurnTypedKept DEF EndingInv, LifecycleNext
<1>8. CASE DropConnection
  <2>1. want /\ have /\ UNCHANGED lifecycle /\ mpc' = "drop" BY <1>8 DEF DropConnection
  <2>2. Ending' BY <2>1, <1>0 DEF lifecycle
  <2> QED BY <2>1, <2>2, <1>0, TurnTypedKept DEF EndingInv
<1>9. CASE \/ Negotiate \/ HearReply \/ FlashAck \/ MicLoud \/ Playback \/ Press \/ Console
           \/ TimePasses \/ Darken \/ UNCHANGED fvars
  <2>1. UNCHANGED lifecycle /\ mpc' \in {mpc, "loop"}
    <3>1. CASE Negotiate \/ HearReply BY <3>1 DEF Negotiate, HearReply, pcs
    <3>2. CASE FlashAck \/ MicLoud \/ Playback
      BY <3>2 DEF FlashAck, MicLoud, Playback, TickRead, TickSet, pcs
    <3>3. CASE Press \/ Console \/ TimePasses
      BY <3>3 DEF Press, Console, OverrideEffect, ResumeAuto, OverrideState, TimePasses, pcs
    <3>4. CASE Darken \/ UNCHANGED fvars BY <3>4 DEF Darken, fvars, pcs
    <3> QED BY <1>9, <3>1, <3>2, <3>3, <3>4
  <2>2. Ending' BY <2>1, <1>0 DEF lifecycle
  <2> QED BY <2>1, <2>2, <1>0, TurnTypedKept DEF EndingInv
<1> QED BY <1>1, <1>2, <1>3, <1>4, <1>5, <1>6, <1>7, <1>8, <1>9
        DEF FeedbackNext, MainLoop, Network

(* What main began to take away is still there when it takes it, and what it released *)
(* has not come back when it darkens the ring, whatever the other tasks do between the *)
(* two steps of an ending (session.cpp:483-502, 505-514).                             *)
THEOREM EndingsComplete == FeedbackSpec => []Ending
<1>1. FeedbackInit => EndingInv
  BY DEF FeedbackInit, LifecycleInit, EndingInv, TurnTyped, Ending
<1>2. EndingInv => Ending BY DEF EndingInv
<1> QED BY <1>1, <1>2, EndingKept, PTL DEF FeedbackSpec

(* The ring's environment takes turns as the lifecycle allows, the contract that the  *)
(* session is proved to implement: what is proved of the ring under it holds beside   *)
(* that session (session.cpp:429-560, 640-700).                                       *)
THEOREM FeedbackTakesTurns == FeedbackSpec => LifecycleSpec
<1>1. FeedbackInit => EndingInv /\ LifecycleInit
  BY DEF FeedbackInit, LifecycleInit, EndingInv, TurnTyped, Ending
<1> QED BY <1>1, EndingKept, PTL DEF FeedbackSpec, LifecycleSpec

----------------------------------------------------------------------------
(* What a step may never do to the ring                                      *)

\* While the console's override lasts, only the console repaints the ring.
OverrideOwns == override > 0 /\ shown' # shown => override' = OverrideHold

\* A refresh that is owed is paid by painting the state, or passed on to a new override.
RefreshPaid == Forced /\ ~Forced' => shown' = last' \/ override' > 0

(* The four callers of Ui::setLed respect the console's override, and none of them    *)
(* loses the refresh that ends it, however the expiry, the wake hold and the console  *)
(* are interleaved (ui.cpp:63-75, 98-149).                                            *)
THEOREM OverrideRespected == FeedbackSpec => [][OverrideOwns /\ RefreshPaid]_fvars
<1>1. RingInv /\ [FeedbackNext]_fvars => [OverrideOwns /\ RefreshPaid]_fvars
  <2> SUFFICES ASSUME RingInv, FeedbackNext PROVE OverrideOwns /\ RefreshPaid
    BY DEF FeedbackNext
  <2>0. override \in NoOverride .. OverrideHold /\ force \in BOOLEAN BY DEF RingInv, RingOK
  <2> USE DEF OverrideOwns, RefreshPaid, Forced, Expired, NoOverride
  <2>1. ASSUME NEW s, SetLed(s) PROVE OverrideOwns /\ RefreshPaid
    <3>1. CASE override > 0 /\ UNCHANGED ui BY <3>1, <2>0 DEF ui
    <3>2. CASE /\ override <= 0 /\ override' = NoOverride
               /\ s # "wakeack" /\ hold > 0
               /\ force' = Forced /\ UNCHANGED <<shown, last, hold>>
      BY <3>2, <2>0
    <3>3. CASE /\ override <= 0 /\ override' = NoOverride
               /\ ~Forced /\ s = last
               /\ UNCHANGED <<shown, last, hold, force>>
      BY <3>3, <2>0
    <3>4. CASE override <= 0 /\ force' = FALSE /\ Apply(s) BY <3>4, <2>0 DEF Apply
    <3> QED BY <2>1, <3>1, <3>2, <3>3, <3>4 DEF SetLed
  <2>2. ASSUME UNCHANGED ui PROVE OverrideOwns /\ RefreshPaid BY <2>2, <2>0 DEF ui
  <2>3. CASE MainLook \/ MainBuild \/ FinishDrop \/ MainRelease
    BY <2>3, <2>2 DEF MainLook, MainBuild, FinishDrop, MainRelease
  <2>4. CASE MainAbandon \/ MainEstablish \/ HearReply
    BY <2>4, <2>2 DEF MainAbandon, MainEstablish, HearReply
  <2>5. CASE WakeFires \/ TurnExpires \/ MicLoud \/ TickRead \/ Press
    BY <2>5, <2>2 DEF WakeFires, TurnExpires, MicLoud, TickRead, Press
  <2>6. CASE Negotiate \/ DropConnection \/ Darken \/ FlashAck \/ TickSet
    BY <2>6, <2>1 DEF Negotiate, DropConnection, Darken, FlashAck, TickSet
  <2>7. CASE Console
    <3>1. CASE OverrideEffect BY <3>1, <2>0, Holds DEF OverrideEffect
    <3>2. CASE ResumeAuto BY <3>2, <2>0 DEF ResumeAuto
    <3>3. ASSUME NEW s \in ConsoleStates, OverrideState(s) PROVE OverrideOwns /\ RefreshPaid
      BY <3>3, <2>0, Holds DEF OverrideState, Apply
    <3> QED BY <2>7, <3>1, <3>2, <3>3 DEF Console
  <2>8. CASE TimePasses BY <2>8, <2>0 DEF TimePasses, Less1
  <2> QED BY <2>3, <2>4, <2>5, <2>6, <2>7, <2>8 DEF FeedbackNext, MainLoop, Network, Playback
<1> QED BY <1>1, RingInductive, PTL DEF FeedbackSpec
=============================================================================
