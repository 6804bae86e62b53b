------------------------------ MODULE Ota_proofs ------------------------------
(***************************************************************************)
(* Safety of firmware updates and of the station's budget of attempts, for any *)
(* number of failing operations, power cuts, uploads and restarts, whatever    *)
(* the users type and the network does.                                        *)
(***************************************************************************)
EXTENDS Ota, FormUrlencoded_proofs, TLAPS

(* What the running slot may be: proven, or in its one trial with a proven image *)
(* to fall back to.                                                            *)
RunningInv ==
  \/ Proven(running)
  \/ flag[running] = "pending" /\ sel = running /\ Proven(Other(running)) /\ image[running] \in {"good", "bad"}

Types ==
  /\ image \in [Slots -> {"none", "partial", "good", "bad"}]
  /\ flag \in [Slots -> {"undefined", "new", "pending", "valid", "aborted"}]
  /\ sel \in Slots /\ running \in Slots
  /\ upload \in {"idle", "writing", "ended"} /\ ring \in {"auto", "rainbow"} /\ reboot \in BOOLEAN

OInv ==
  /\ Types
  /\ SafeToBoot
  /\ mode = "off" => upload = "idle" /\ ring = "auto"
  /\ mode # "off" => RunningInv /\ (sel # running => flag[sel] = "new")
  /\ upload # "idle" => mode \in {"confirm", "run"} /\ flag[running] # "pending"
  /\ RainbowMeansUpdate

USE DEF Slots, Other, Target, Proven, OnTrial

LEMMA OInit == OtaInit => OInv
<1> SUFFICES ASSUME OtaInit PROVE OInv OBVIOUS
<1>1. mode = "off" BY DEF OtaInit, BootInit
<1>2. Types
  <2>1. image \in [Slots -> {"none", "partial", "good", "bad"}] BY DEF OtaInit
  <2>2. flag \in [Slots -> {"undefined", "new", "pending", "valid", "aborted"}] BY DEF OtaInit
  <2>3. sel \in Slots /\ running \in Slots BY DEF OtaInit
  <2>4. upload \in {"idle", "writing", "ended"} /\ ring \in {"auto", "rainbow"} BY DEF OtaInit
  <2>5. reboot \in BOOLEAN BY DEF OtaInit
  <2> QED BY <2>1, <2>2, <2>3, <2>4, <2>5 DEF Types
<1>3. SafeToBoot BY DEF OtaInit, SafeToBoot
<1> QED BY <1>1, <1>2, <1>3 DEF OtaInit, OInv, RainbowMeansUpdate

(* Nothing but the main task's own progress changes the mode.                   *)
LEMMA StepsMode ==
  ASSUME Steps
  PROVE  /\ UNCHANGED <<flash, console>>
         /\ mode' = mode \/ (mode \notin {"off", "confirm", "run"} /\ mode' # "off")
<1>1. CASE InitNvs BY <1>1 DEF Steps, InitNvs, Go
<1>2. CASE ReadCredentials BY <1>2 DEF Steps, ReadCredentials, Go
<1>3. CASE StartPortal BY <1>3 DEF Steps, StartPortal, Go
<1>4. CASE Connect BY <1>4 DEF Steps, Connect, Go
<1>5. CASE WaitOver BY <1>5 DEF Steps, WaitOver, Connected, Refused, TimedOut, Go
<1>6. CASE Forget BY <1>6 DEF Steps, Forget, Go
<1>7. CASE BringUp BY <1>7 DEF Steps, BringUp, Go
<1>8. CASE StartServices BY <1>8 DEF Steps, StartServices, Go
<1>9. CASE WifiEvent \/ LongPress \/ PressWipes \/ Submit \/ SaveFields
  BY <1>9 DEF Steps, WifiEvent, LongPress, PressWipes, Submit, SaveFields
<1> QED BY <1>1, <1>2, <1>3, <1>4, <1>5, <1>6, <1>7, <1>8, <1>9 DEF Steps, MainSteps

LEMMA StepsKeep == ASSUME OInv, Steps PROVE OInv'
<1>1. UNCHANGED <<image, flag, sel, running, upload, ring, reboot>>
  BY StepsMode DEF flash, console
<1>2. mode' = mode \/ (mode \notin {"off", "confirm", "run"} /\ mode' # "off") BY StepsMode
<1>3. Types' BY <1>1 DEF OInv, Types
<1>4. SafeToBoot' BY <1>1 DEF OInv, SafeToBoot
<1>5. RunningInv' <=> RunningInv BY <1>1 DEF RunningInv
<1>6. RainbowMeansUpdate' BY <1>1 DEF OInv, RainbowMeansUpdate
<1> QED BY <1>1, <1>2, <1>3, <1>4, <1>5, <1>6 DEF OInv

(* The bootloader starts the selected image if it may, else the proven one.      *)
LEMMA BootloaderKeeps == ASSUME OInv, Bootloader PROVE OInv'
<1>1. mode = "off" /\ mode' # "off" BY DEF Bootloader, Start, Go
<1>2. UNCHANGED <<image, upload, ring, reboot>> BY DEF Bootloader
<1>3. Types /\ upload = "idle" /\ ring = "auto" BY <1>1 DEF OInv
<1>4. PICK s \in Slots : Proven(s) /\ (sel # s => OnTrial(sel)) BY DEF OInv, SafeToBoot
<1>5. ASSUME NEW r \in Slots, Runs(r), r = sel \/ (r = Other(sel) /\ ~Bootable(sel))
      PROVE  OInv'
  <2>1. /\ sel' = r /\ running' = r
        /\ flag' = [x \in Slots |-> IF x = r /\ flag[x] = "new" THEN "pending"
                                    ELSE IF flag[x] = "pending" THEN "aborted" ELSE flag[x]]
        /\ image[r] \in {"good", "bad"} /\ flag[r] \notin {"pending", "aborted"}
    BY <1>5 DEF Runs, Bootable
  <2>2. Types'
    BY <1>2, <1>3, <2>1 DEF Types
  <2>3. Proven(s)' BY <1>2, <1>4, <2>1, <1>3 DEF Types
  <2>4. CASE r = s
    <3>1. RunningInv' BY <2>1, <2>3, <2>4 DEF RunningInv
    <3>2. SafeToBoot' BY <2>1, <2>3, <2>4 DEF SafeToBoot
    <3> QED BY <1>1, <1>2, <1>3, <2>1, <2>2, <3>1, <3>2 DEF OInv, RainbowMeansUpdate
  <2>5. CASE r # s
    <3>1. r = sel
      <4>1. CASE r # sel
        <5>1. s = sel /\ ~Bootable(sel) BY <1>3, <1>5, <2>5, <4>1 DEF Types
        <5> QED BY <1>4, <5>1 DEF Bootable
      <4> QED BY <4>1
    <3>2. flag[r] = "new" BY <1>3, <1>4, <2>1, <2>5, <3>1 DEF Types
    <3>3. flag'[r] = "pending" /\ s = Other(r) BY <1>3, <2>1, <2>5, <3>2 DEF Types
    <3>4. RunningInv' BY <1>2, <2>1, <2>3, <3>3 DEF RunningInv
    <3>5. SafeToBoot' BY <2>1, <2>3, <3>3 DEF SafeToBoot
    <3> QED BY <1>1, <1>2, <1>3, <2>1, <2>2, <3>4, <3>5 DEF OInv, RainbowMeansUpdate
  <2> QED BY <2>4, <2>5
<1>6. sel \in Slots /\ Other(sel) \in Slots BY <1>3 DEF Types
<1> QED BY <1>5, <1>6 DEF Bootloader

(* A reset keeps the flash and loses the rest.                                   *)
LEMMA ResetsKeep == ASSUME OInv, Resets PROVE OInv'
<1>1. mode' = "off"
  BY DEF Resets, Restart, PressRestarts, SaveRestarts, PowerCut, Crash, RebootTask, Reset
<1>2. UNCHANGED <<image, flag, sel>> BY DEF Resets, flash
<1>3. running' = 0 /\ upload' = "idle" /\ ring' = "auto" /\ reboot' = FALSE
  BY DEF Resets, ConsoleReset
<1>4. Types'
  <2>1. Types BY DEF OInv
  <2>2. reboot' \in BOOLEAN BY <1>3
  <2>3. running' \in Slots BY <1>3
  <2>4. upload' \in {"idle", "writing", "ended"} /\ ring' \in {"auto", "rainbow"} BY <1>3
  <2> QED BY <1>2, <2>1, <2>2, <2>3, <2>4 DEF Types
<1>5. SafeToBoot' BY <1>2 DEF OInv, SafeToBoot
<1> QED BY <1>1, <1>3, <1>4, <1>5 DEF OInv, RainbowMeansUpdate

(* The confirmation makes the running image the proven one.                      *)
LEMMA ConfirmedKeeps == ASSUME OInv, Confirmed PROVE OInv'
<1>1. mode = "confirm" /\ mode' = "run" BY DEF Confirmed, Confirm, Go
<1>2. UNCHANGED <<image, sel, running, upload, ring, reboot>> BY DEF Confirmed, console
<1>3. image[running] = "good"
      /\ flag' = [flag EXCEPT ![running] = IF @ = "pending" THEN "valid" ELSE @]
  BY DEF Confirmed, MarkValid
<1>4. Types /\ RunningInv /\ (sel # running => flag[sel] = "new") BY <1>1 DEF OInv
<1>5. Types' BY <1>2, <1>3, <1>4 DEF Types
<1>6. Proven(running)' BY <1>2, <1>3, <1>4 DEF Types, RunningInv
<1>7. sel' # running' => flag'[sel'] = "new" BY <1>2, <1>3, <1>4 DEF Types
<1>8. RunningInv' BY <1>6 DEF RunningInv
<1>9. SafeToBoot' BY <1>5, <1>6, <1>7 DEF SafeToBoot, Types
<1> QED BY <1>1, <1>2, <1>4, <1>5, <1>6, <1>7, <1>8, <1>9 DEF OInv, RainbowMeansUpdate

(* The upload writes the slot that is not running, from a proven image only.     *)
LEMMA HandleOtaKeeps == ASSUME OInv, HandleOta PROVE OInv'
<1>1. mode' = mode BY DEF HandleOta, bootvars
<1>2. Types BY DEF OInv
<1>3. /\ mode \in {"confirm", "run"} /\ flag[running] # "pending"
      /\ UNCHANGED <<flag, sel, running, reboot>>
      /\ \/ image' = image
         \/ \E i \in {"partial", "good", "bad"} : image' = [image EXCEPT ![Target] = i]
      /\ upload' \in {"idle", "writing", "ended"} /\ ring' \in {"auto", "rainbow"}
      /\ upload' = "idle" => ring' = "auto"
  <2>1. CASE Begin BY <2>1 DEF Begin
  <2>2. CASE Broken BY <2>2 DEF Broken, flash, OInv
  <2>3. CASE End BY <1>2, <2>3 DEF End, OInv, Types
  <2> QED BY <2>1, <2>2, <2>3 DEF HandleOta
<1>4. Proven(running) /\ (sel # running => flag[sel] = "new") BY <1>3 DEF OInv, RunningInv
<1>5. image'[running] = image[running] /\ Types' BY <1>2, <1>3 DEF Types
<1>6. Proven(running)' BY <1>3, <1>4, <1>5
<1>7. RunningInv' BY <1>6 DEF RunningInv
<1>8. SafeToBoot' BY <1>3, <1>4, <1>5, <1>6 DEF SafeToBoot, Types
<1> QED BY <1>1, <1>3, <1>4, <1>5, <1>7, <1>8 DEF OInv, RainbowMeansUpdate

(* Selecting the new image leaves it one trial.                                  *)
LEMMA SelectKeeps == ASSUME OInv, Select PROVE OInv'
<1>1. mode' = mode /\ upload = "ended" /\ upload' = "idle" /\ UNCHANGED <<image, running>>
  BY DEF Select, SetBoot
<1>2. Types /\ mode \in {"confirm", "run"} /\ flag[running] # "pending"
      /\ (sel # running => flag[sel] = "new")
  BY <1>1 DEF OInv
<1>3. Proven(running) BY <1>2 DEF OInv, RunningInv
<1>4. CASE sel' = Target /\ flag' = [flag EXCEPT ![Target] = "new"] /\ UNCHANGED ring
  <2>0. reboot' \in BOOLEAN BY <1>2, <1>4 DEF Select, SetBoot, Types
  <2>1. Types' BY <1>1, <1>2, <1>4, <2>0 DEF Types
  <2>2. sel' # running' /\ flag'[sel'] = "new" /\ flag'[running'] = flag[running]
    BY <1>1, <1>2, <1>4 DEF Types
  <2>3. Proven(running)' BY <1>1, <1>3, <2>2
  <2>4. RunningInv' BY <2>3 DEF RunningInv
  <2>5. SafeToBoot' BY <2>1, <2>2, <2>3 DEF SafeToBoot, Types
  <2> QED BY <1>1, <1>2, <2>1, <2>2, <2>4, <2>5 DEF OInv, RainbowMeansUpdate
<1>5. CASE ring' = "auto" /\ UNCHANGED <<sel, flag, reboot>>
  <2>1. Types' BY <1>1, <1>2, <1>5 DEF Types
  <2>2. Proven(running)' BY <1>1, <1>3, <1>5
  <2>3. RunningInv' BY <2>2 DEF RunningInv
  <2>4. SafeToBoot' BY <1>1, <1>5 DEF OInv, SafeToBoot
  <2> QED BY <1>1, <1>2, <1>5, <2>1, <2>3, <2>4 DEF OInv, RainbowMeansUpdate
<1> QED BY <1>4, <1>5 DEF Select, SetBoot

LEMMA OInductive == OtaSpec => []OInv
<1>1. OInv /\ [OtaNext]_otavars => OInv'
  <2> SUFFICES ASSUME OInv, [OtaNext]_otavars PROVE OInv' OBVIOUS
  <2>1. CASE UNCHANGED otavars
    <3>1. UNCHANGED <<mode, image, flag, sel, running, upload, ring, reboot>>
      BY <2>1 DEF otavars, bootvars, flash, console
    <3> QED BY <3>1 DEF OInv, Types, SafeToBoot, RunningInv, RainbowMeansUpdate
  <2> QED BY <2>1, StepsKeep, BootloaderKeeps, ResetsKeep, ConfirmedKeeps, HandleOtaKeeps, SelectKeeps DEF OtaNext
<1> QED BY <1>1, OInit, PTL DEF OtaSpec

(* No sequence of uploads, crashes, power cuts and failures leaves the device     *)
(* without a proven image that it falls back to after one trial                  *)
(* (sdkconfig.defaults:25-29, main.cpp:190-194, web_server.cpp:243-292).         *)
THEOREM CannotBrick == OtaSpec => []SafeToBoot
<1>1. OInv => SafeToBoot BY DEF OInv
<1> QED BY <1>1, OInductive, PTL

(* The ring is handed back on every way an upload fails (web_server.cpp:255-286). *)
THEOREM RingHandedBack == OtaSpec => []RainbowMeansUpdate
<1>1. OInv => RainbowMeansUpdate BY DEF OInv
<1> QED BY <1>1, OInductive, PTL

(* The type invariant of the updates.                                            *)
THEOREM OtaTypeCorrect == OtaSpec => []OtaTypeOK
<1>1. OInv => OtaTypeOK BY DEF OInv, Types, OtaTypeOK
<1> QED BY <1>1, OInductive, PTL

----------------------------------------------------------------------------
(* The image to fall back to                                                *)

\* Where the device ends up if nothing is confirmed any more.
Fallback == IF Proven(sel) THEN sel ELSE Other(sel)

\* It is never written to, and only a new image's confirmation, in its own trial, replaces it.
FallbackKept ==
  /\ image'[Fallback] = image[Fallback]
  /\ Fallback' # Fallback => /\ mode = "confirm" /\ mode' = "run"
                             /\ Fallback' = running /\ flag[running] = "pending"
                             /\ Proven(running)'

LEMMA FallbackProven == ASSUME OInv PROVE Fallback \in Slots /\ Proven(Fallback)
<1>1. PICK s \in Slots : Proven(s) /\ (sel # s => OnTrial(sel)) BY DEF OInv, SafeToBoot
<1>2. sel \in Slots BY DEF OInv, Types
<1> QED BY <1>1, <1>2 DEF Fallback

(* An upload, a power cut, a crash in the trial, a reset before the confirmation or a     *)
(* second upload while the reboot is due never touches the image the device falls back    *)
(* to; it is replaced by nothing but the confirmation of the image that then runs         *)
(* (sdkconfig.defaults:25-29, main.cpp:190-194, web_server.cpp:243-292).                   *)
THEOREM FallbackIsKept == OtaSpec => [](Proven(Fallback)) /\ [][FallbackKept]_otavars
<1>1. OInv => Proven(Fallback) BY FallbackProven
<1>2. OInv /\ [OtaNext]_otavars => [FallbackKept]_otavars
  <2> SUFFICES ASSUME OInv, OtaNext PROVE FallbackKept OBVIOUS
  <2>0. /\ Types /\ Fallback \in Slots /\ Proven(Fallback)
        /\ mode # "off" => RunningInv /\ (sel # running => flag[sel] = "new")
    BY FallbackProven DEF OInv
  <2>1. ASSUME UNCHANGED <<image, flag, sel>> PROVE FallbackKept
    <3>1. Fallback' = Fallback BY <2>1 DEF Fallback
    <3> QED BY <2>1, <3>1 DEF FallbackKept
  <2>2. CASE Steps BY <2>1, <2>2, StepsMode DEF flash
  <2>3. CASE Resets BY <2>1, <2>3 DEF Resets, flash
  <2>4. CASE Bootloader
    <3>1. image' = image /\ (Runs(sel) \/ (~Bootable(sel) /\ Runs(Other(sel)))) BY <2>4 DEF Bootloader
    <3>2. CASE Runs(sel)
      <4>1. sel' = sel /\ flag[sel] \notin {"pending", "aborted"}
            /\ flag' = [x \in Slots |-> IF x = sel /\ flag[x] = "new" THEN "pending"
                                        ELSE IF flag[x] = "pending" THEN "aborted" ELSE flag[x]]
        BY <3>2 DEF Runs, Bootable
      <4>2. Proven(sel)' <=> Proven(sel) BY <2>0, <3>1, <4>1 DEF Types
      <4>3. Fallback' = Fallback BY <4>1, <4>2 DEF Fallback
      <4> QED BY <3>1, <4>3 DEF FallbackKept
    <3>3. CASE ~Bootable(sel) /\ Runs(Other(sel))
      <4>1. sel' = Other(sel) /\ ~Proven(sel) BY <3>3 DEF Runs, Bootable
      <4>2. Fallback = Other(sel) BY <4>1 DEF Fallback
      <4>3. flag' = [x \in Slots |-> IF x = Other(sel) /\ flag[x] = "new" THEN "pending"
                                    ELSE IF flag[x] = "pending" THEN "aborted" ELSE flag[x]]
        BY <3>3 DEF Runs
      <4>4. Proven(sel)' BY <2>0, <3>1, <4>1, <4>2, <4>3 DEF Types
      <4>5. Fallback' = Fallback BY <4>1, <4>2, <4>4 DEF Fallback
      <4> QED BY <3>1, <4>5 DEF FallbackKept
    <3> QED BY <3>1, <3>2, <3>3
  <2>5. CASE Confirmed
    <3>1. /\ mode = "confirm" /\ mode' = "run" /\ UNCHANGED <<image, sel, running>>
          /\ image[running] = "good"
          /\ flag' = [flag EXCEPT ![running] = IF @ = "pending" THEN "valid" ELSE @]
      BY <2>5 DEF Confirmed, Confirm, Go, console, MarkValid
    <3>2. RunningInv BY <2>0, <3>1
    <3>3. CASE flag[running] # "pending"
      <4>1. flag' = flag BY <2>0, <3>1, <3>3 DEF Types
      <4> QED BY <2>1, <3>1, <4>1
    <3>4. CASE flag[running] = "pending"
      <4>1. sel = running BY <3>2, <3>4 DEF RunningInv
      <4>2. Proven(running)' BY <2>0, <3>1, <3>4 DEF Types
      <4>3. Fallback' = running BY <3>1, <4>1, <4>2 DEF Fallback
      <4> QED BY <3>1, <3>4, <4>2, <4>3 DEF FallbackKept
    <3> QED BY <3>3, <3>4
  <2>6. CASE HandleOta \/ Select
    <3>1. mode \in {"confirm", "run"} /\ flag[running] # "pending" /\ running' = running
      BY <2>6 DEF OInv, HandleOta, Begin, Broken, End, Select, SetBoot
    <3>2. Proven(running) /\ (sel # running => flag[sel] = "new") /\ running \in Slots
      BY <2>0, <3>1 DEF RunningInv, Types
    <3>3. Fallback = running BY <2>0, <3>2 DEF Fallback, Types
    <3>4. /\ image' = image \/ \E i \in {"partial", "good", "bad"} : image' = [image EXCEPT ![Target] = i]
          /\ \/ UNCHANGED <<flag, sel>>
             \/ sel' = Target /\ flag' = [flag EXCEPT ![Target] = "new"]
      BY <2>6 DEF HandleOta, Begin, Broken, End, flash, Select, SetBoot
    <3>5. Target \in Slots /\ Target # running /\ Other(Target) = running BY <3>2
    <3>6. image'[running] = image[running] /\ flag'[running] = flag[running]
      BY <2>0, <3>4, <3>5 DEF Types
    <3>7. Proven(running)' BY <3>1, <3>2, <3>6
    <3>8. Fallback' = running
      <4>1. CASE UNCHANGED <<flag, sel>>
        <5>1. CASE sel = running BY <3>1, <3>7, <4>1, <5>1 DEF Fallback
        <5>2. CASE sel # running
          <6>1. flag'[sel'] = "new" /\ Other(sel') = running BY <2>0, <3>2, <4>1, <5>2 DEF Types
          <6> QED BY <6>1 DEF Fallback
        <5> QED BY <5>1, <5>2
      <4>2. CASE sel' = Target /\ flag' = [flag EXCEPT ![Target] = "new"]
        <5>1. flag'[sel'] = "new" /\ Other(sel') = running BY <2>0, <3>5, <4>2 DEF Types
        <5> QED BY <5>1 DEF Fallback
      <4> QED BY <3>4, <4>1, <4>2
    <3> QED BY <3>3, <3>6, <3>8 DEF FallbackKept
  <2> QED BY <2>2, <2>3, <2>4, <2>5, <2>6 DEF OtaNext
<1>3. OtaSpec => [](Proven(Fallback)) BY <1>1, OInductive, PTL
<1>4. OtaSpec => [][FallbackKept]_otavars BY <1>2, OInductive, PTL DEF OtaSpec
<1> QED BY <1>3, <1>4

----------------------------------------------------------------------------
(* The station                                                              *)

(* While the station tries, its count of failed attempts is that of the disconnections   *)
(* since the last address.                                                            *)
LinkInv ==
  /\ link \in {"trying", "up"} => drops = tries /\ tries \in 0 .. MaxTries - 1
  /\ link = "starting" => drops = 0 /\ tries = 0
  /\ link = "down" => drops = MaxTries

LEMMA QuietLink == ASSUME LinkInv, UNCHANGED radio PROVE LinkInv'
BY DEF LinkInv, radio

LEMMA WifiKeeps == ASSUME LinkInv, WifiEvent PROVE LinkInv'
<1>0. MaxTries \in Nat \ {0} BY BootAssumption
<1>1. CASE StaStart BY <1>0, <1>1 DEF StaStart, LinkInv
<1>2. CASE Disconnected BY <1>0, <1>2 DEF Disconnected, LinkInv
<1>3. CASE GotIp BY <1>0, <1>3 DEF GotIp, LinkInv
<1> QED BY <1>1, <1>2, <1>3 DEF WifiEvent

LEMMA LinkKept == ASSUME LinkInv, [OtaNext]_otavars PROVE LinkInv'
<1>0. MaxTries \in Nat \ {0} BY BootAssumption
<1>1. CASE Bootloader BY <1>1, QuietLink DEF Bootloader, Start
<1>2. CASE Confirmed BY <1>2, QuietLink DEF Confirmed, Confirm
<1>3. CASE HandleOta \/ Select BY <1>3, QuietLink DEF HandleOta, Select, bootvars
<1>4. CASE Resets
  <2>1. link' = "off" BY <1>4 DEF Resets, Restart, PressRestarts, SaveRestarts, PowerCut, Crash, RebootTask, Reset
  <2> QED BY <2>1 DEF LinkInv
<1>5. CASE Connect
  <2>1. CASE link' = "starting" /\ tries' = 0 /\ drops' = 0 BY <2>1 DEF LinkInv
  <2>2. CASE UNCHANGED radio BY <2>2, QuietLink
  <2> QED BY <1>5, <2>1, <2>2 DEF Connect
<1>6. CASE InitNvs \/ ReadCredentials \/ StartPortal \/ WaitOver \/ Forget \/ BringUp \/ StartServices
  BY <1>6, QuietLink DEF InitNvs, ReadCredentials, StartPortal, WaitOver, Forget, BringUp, StartServices
<1>7. CASE LongPress \/ PressWipes \/ Submit \/ SaveFields
  BY <1>7, QuietLink DEF LongPress, PressWipes, Submit, SaveFields
<1>8. CASE WifiEvent BY <1>8, WifiKeeps
<1>9. CASE UNCHANGED otavars BY <1>9, QuietLink DEF otavars, bootvars
<1> QED BY <1>1, <1>2, <1>3, <1>4, <1>5, <1>6, <1>7, <1>8, <1>9 DEF OtaNext, Steps, MainSteps

(* Whatever the access point does, the station gives up after a full budget of        *)
(* disconnections without an address in between (wifi_sta.cpp:30-40).                  *)
THEOREM FullBudget == OtaSpec => []GivesUpAfterFullBudget
<1>1. OtaInit => LinkInv BY DEF OtaInit, BootInit, LinkInv
<1>2. LinkInv => GivesUpAfterFullBudget BY DEF LinkInv, GivesUpAfterFullBudget
<1> QED BY <1>1, <1>2, LinkKept, PTL DEF OtaSpec

----------------------------------------------------------------------------
(* The credentials                                                          *)

Entered(k) == {Absent} \cup {f[k] : f \in Forms}
Copy(v)    == v = [k \in Keys |-> v[k]] /\ \A k \in Keys : v[k] \in Entered(k)

CredTypes ==
  /\ Copy(nvs) /\ Copy(used) /\ Copy(typed) /\ Copy(over)
  /\ mode \in Modes
  /\ btn \in {"idle", "ssid", "psk", "restart"}
  /\ saver \in {"idle", "ssid", "psk", "backend", "saved"}
  /\ faults \in 0 .. MaxFaults
  /\ stored \in {"whole", "saving", "torn"}
  /\ saver # "idle" => mode = "portal" /\ typed \in Forms
  /\ btn # "idle" => mode \in {"services", "confirm", "run"}

\* The fields that the save handler has written.
Written == [ssid |-> 0, psk |-> 1, backend |-> 2, saved |-> 3]

(* How far a save and a wipe have come, as long as no write failed: a save leaves its  *)
(* first fields over what was there, until something erases the ssid.                  *)
WriteInv ==
  /\ stored = "whole" => saver = "idle" /\ (nvs["ssid"] = Absent \/ nvs \in Forms)
  /\ stored # "torn" /\ (btn = "psk" \/ mode = "forget_psk") => nvs["ssid"] = Absent
  /\ stored = "saving" /\ saver # "idle" => nvs = CutSave(Written[saver])
  /\ stored = "saving" /\ saver = "idle" =>
       nvs["ssid"] = Absent \/ \E n \in 0 .. 3 : nvs = CutSave(n)

CredInv == CredTypes /\ WriteInv /\ UsesWhatWasTyped

(* Each key has one field in the body, and its value is decoded to what was typed.    *)
LEMMA FieldIsFound ==
  ASSUME NEW f \in Forms, NEW k \in Keys
  PROVE  FormGet(Body(f), k) = UrlDecode(UrlEncode(f[k]))
<1> DEFINE b    == Body(f)
           at   == IF k = "ssid" THEN 1 ELSE IF k = "psk" THEN 2 ELSE 3
           hits == {i \in 1 .. Len(b) : b[i].key = k}
<1>1. /\ Len(b) = 3 /\ b[1].key = "ssid" /\ b[2].key = "psk" /\ b[3].key = "backend"
      /\ b[1].value = UrlEncode(f.ssid) /\ b[2].value = UrlEncode(f.psk)
      /\ b[3].value = UrlEncode(f.backend)
  BY DEF Body
<1>2. k \in {"ssid", "psk", "backend"} BY DEF Keys
<1> HIDE DEF b
<1>3. hits = {at} BY <1>1, <1>2
<1>4. b[at].value = UrlEncode(f[k]) BY <1>1, <1>2
<1> HIDE DEF at, hits
<1>5. (CHOOSE i \in hits : \A j \in hits : i <= j) = at
  <2>1. at \in Int BY <1>2 DEF at
  <2>2. \A j \in hits : at <= j BY <1>3, <2>1
  <2> QED BY <1>3, <2>2
<1>6. FormGet(b, k) = UrlDecode(b[CHOOSE i \in hits : \A j \in hits : i <= j].value)
  <2>1. hits # {} BY <1>3
  <2> QED BY <2>1 DEF FormGet, hits
<1> QED BY <1>4, <1>5, <1>6 DEF b

LEMMA FormIsCopy ==
  ASSUME NEW f \in Forms
  PROVE  Creds(f) = f /\ Copy(f) /\ f = [k \in Keys |-> f[k]]
<1>1. f \in [ssid : Seq(Byte), psk : Seq(Byte), backend : Seq(Byte)] BY BootAssumption DEF Byte
<1>2. f = [k \in Keys |-> f[k]] /\ \A k \in Keys : f[k] \in Seq(Byte) BY <1>1 DEF Keys
<1>3. \A k \in Keys : FormGet(Body(f), k) = f[k] BY <1>2, FieldIsFound, DecodeInvertsEncode
<1>4. Creds(f) = f BY <1>2, <1>3 DEF Creds
<1> QED BY <1>2, <1>4 DEF Copy, Entered

LEMMA BlankIsCopy == Copy([k \in Keys |-> Absent])
BY DEF Copy, Entered

(* A write of one key leaves a copy of the credentials one.                           *)
LEMMA WriteTypes ==
  ASSUME Copy(nvs), faults \in 0 .. MaxFaults, stored \in {"whole", "saving", "torn"},
         NEW key \in Keys, NEW value \in Entered(key), Write(key, value)
  PROVE  /\ Copy(nvs)' /\ faults' \in 0 .. MaxFaults /\ stored' \in {"whole", "saving", "torn"}
         /\ stored' # "torn" => nvs' = [nvs EXCEPT ![key] = value] /\ stored' = stored
         /\ \A k \in Keys \ {key} : nvs'[k] = nvs[k]
         /\ stored' # "torn" => nvs'[key] = value
<1>0. MaxFaults \in Nat BY BootAssumption
<1>1. CASE Fine /\ nvs' = [nvs EXCEPT ![key] = value] /\ UNCHANGED stored
  BY <1>1 DEF Copy, Entered, Fine
<1>2. CASE Fault /\ stored' = "torn" /\ UNCHANGED nvs
  BY <1>0, <1>2 DEF Copy, Entered, Fault
<1> QED BY <1>1, <1>2 DEF Write

LEMMA CutKept == ASSUME UNCHANGED <<typed, over>> PROVE \A n : CutSave(n)' = CutSave(n)
BY DEF CutSave

(* A step that leaves the copies and the handlers alone and does not enter a mode of   *)
(* its own.                                                                           *)
LEMMA QuietCreds ==
  ASSUME CredInv, UNCHANGED <<nvs, used, btn, portal>>, faults' \in 0 .. MaxFaults,
         \/ mode' = mode
         \/ /\ saver = "idle" /\ btn = "idle" /\ mode' \in Modes \ {"forget_psk"}
            /\ mode' \in Working => mode \in Working
         \/ mode = "services" /\ mode' = "confirm"
         \/ mode = "confirm" /\ mode' = "run"
  PROVE  CredInv'
<1>1. CredTypes' BY DEF CredInv, CredTypes, Copy, Entered, portal, save, Modes
<1>2. WriteInv' BY CutKept DEF CredInv, CredTypes, WriteInv, portal, save
<1>3. UsesWhatWasTyped'
  BY CutKept DEF CredInv, CredTypes, UsesWhatWasTyped, Working, portal, save
<1> QED BY <1>1, <1>2, <1>3 DEF CredInv

LEMMA MainCreds == ASSUME CredInv, MainSteps PROVE CredInv'
<1>0. MaxFaults \in Nat /\ faults \in 0 .. MaxFaults BY BootAssumption DEF CredInv, CredTypes
<1>i. mode \notin {"portal", "services", "confirm", "run"} => saver = "idle" /\ btn = "idle"
  BY DEF CredInv, CredTypes
<1>1. CASE InitNvs
  <2>1. faults' \in 0 .. MaxFaults BY <1>0, <1>1 DEF InitNvs, Fine, Fault
  <2>2. mode = "nvs" /\ mode' \in {"creds", "restart"} BY <1>1 DEF InitNvs, Go
  <2>3. UNCHANGED <<used, btn, portal>> BY <1>1 DEF InitNvs
  <2>4. CASE UNCHANGED nvs
    BY <1>i, <2>1, <2>2, <2>3, <2>4, QuietCreds DEF Modes, Working
  <2>5. CASE nvs' = [k \in Keys |-> Absent]
    <3>1. Copy(nvs)' BY <2>5, BlankIsCopy DEF Copy, Entered
    <3>2. CredTypes'
      BY <1>i, <2>1, <2>2, <2>3, <3>1 DEF CredInv, CredTypes, Copy, Entered, portal, save, Modes
    <3>3. WriteInv' BY <1>i, <2>2, <2>3, <2>5 DEF CredInv, CredTypes, WriteInv, portal, save, Keys
    <3>4. UsesWhatWasTyped' BY <2>2 DEF UsesWhatWasTyped, Working
    <3> QED BY <3>2, <3>3, <3>4 DEF CredInv
  <2> QED BY <1>1, <2>4, <2>5 DEF InitNvs
<1>2. CASE ReadCredentials
  <2>1. faults' \in 0 .. MaxFaults BY <1>0, <1>2 DEF ReadCredentials, Fine, Fault
  <2>2. mode = "creds" /\ UNCHANGED <<nvs, btn, portal>>
    BY <1>2 DEF ReadCredentials, Go
  <2>3. CASE mode' = "softap" /\ UNCHANGED used
    BY <1>i, <2>1, <2>2, <2>3, QuietCreds DEF Modes, Working
  <2>4. CASE mode' = "connect" /\ Provisioned /\ used' = nvs
    <3>1. CredTypes'
      BY <1>i, <2>1, <2>2, <2>4 DEF CredInv, CredTypes, Copy, Entered, portal, save, Modes
    <3>2. WriteInv' BY <1>i, <2>2, <2>4, CutKept DEF CredInv, CredTypes, WriteInv, portal, save
    <3>3. UsesWhatWasTyped'
      BY <1>i, <2>2, <2>4, CutKept
      DEF CredInv, WriteInv, UsesWhatWasTyped, Provisioned, portal, save
    <3> QED BY <3>1, <3>2, <3>3 DEF CredInv
  <2> QED BY <1>2, <2>3, <2>4 DEF ReadCredentials, Go
<1>3. CASE StartPortal \/ Connect \/ WaitOver \/ BringUp \/ StartServices
  <2>1. UNCHANGED <<nvs, used, btn, portal>>
    BY <1>3 DEF StartPortal, Connect, WaitOver, BringUp, StartServices
  <2>2. faults' \in 0 .. MaxFaults
    BY <1>0, <1>3 DEF StartPortal, Connect, WaitOver, BringUp, StartServices, Fine, Fault
  <2>3. \/ /\ mode \in {"softap", "connect", "wait", "hal"}
           /\ mode' \in {"portal", "restart", "wait", "forget", "hal", "services"}
           /\ mode' \in Working => mode \in Working
        \/ mode = "services" /\ mode' = "confirm"
    BY <1>3 DEF StartPortal, Connect, WaitOver, Connected, Refused, TimedOut, BringUp,
         StartServices, Go, Working
  <2> QED BY <1>i, <2>1, <2>2, <2>3, QuietCreds DEF Modes
<1>4. CASE Forget
  <2>1. UNCHANGED <<used, btn, saver, typed, over>> BY <1>4 DEF Forget
  <2>2. CASE Go("forget", "restart") /\ Fault /\ UNCHANGED <<nvs, stored>>
    <3>1. faults' \in 0 .. MaxFaults BY <1>0, <2>2 DEF Fault
    <3>2. mode = "forget" /\ mode' = "restart" BY <2>2 DEF Go
    <3> QED BY <1>i, <2>1, <2>2, <3>1, <3>2, QuietCreds DEF portal, save, Modes, Working
  <2>3. ASSUME NEW key \in {"ssid", "psk"}, Write(key, Absent),
               \/ key = "ssid" /\ Go("forget", "forget_psk")
               \/ key = "psk" /\ Go("forget_psk", "restart")
        PROVE  CredInv'
    <3>1. /\ Copy(nvs)' /\ faults' \in 0 .. MaxFaults /\ stored' \in {"whole", "saving", "torn"}
          /\ stored' # "torn" => stored' = stored /\ nvs'[key] = Absent
          /\ \A k \in Keys \ {key} : nvs'[k] = nvs[k]
      BY <2>3, WriteTypes DEF CredInv, CredTypes, Keys, Entered
    <3>2. mode' \in {"forget_psk", "restart"} /\ saver = "idle" /\ btn = "idle"
          /\ (mode' = "forget_psk" <=> key = "ssid") /\ (key = "psk" => mode = "forget_psk")
      BY <1>i, <2>3 DEF Go
    <3>3. CredTypes'
      BY <2>1, <3>1, <3>2 DEF CredInv, CredTypes, Copy, Entered, Modes
    <3>4. stored' # "torn" => nvs'["ssid"] = Absent
      BY <2>3, <3>1, <3>2 DEF CredInv, WriteInv, Keys
    <3>5. WriteInv' BY <2>1, <3>1, <3>2, <3>4 DEF WriteInv
    <3>6. UsesWhatWasTyped' BY <3>2 DEF UsesWhatWasTyped, Working
    <3> QED BY <3>3, <3>5, <3>6 DEF CredInv
  <2> QED BY <1>4, <2>2, <2>3 DEF Forget
<1> QED BY <1>1, <1>2, <1>3, <1>4 DEF MainSteps

LEMMA ButtonCreds == ASSUME CredInv, LongPress \/ PressWipes PROVE CredInv'
<1>0. MaxFaults \in Nat /\ faults \in 0 .. MaxFaults BY BootAssumption DEF CredInv, CredTypes
<1>1. CASE LongPress
  <2>1. UNCHANGED <<mode, nvs, used, portal>> /\ btn' \in {"ssid", "restart"} /\ Pressed
        /\ faults' \in 0 .. MaxFaults
    BY <1>0, <1>1 DEF LongPress, Fine, Fault
  <2>2. CredTypes' BY <2>1 DEF CredInv, CredTypes, Copy, Entered, portal, save, Pressed
  <2>3. WriteInv' BY <2>1, CutKept DEF CredInv, WriteInv, portal, save
  <2>4. UsesWhatWasTyped' BY <2>1, CutKept DEF CredInv, UsesWhatWasTyped, portal, save
  <2> QED BY <2>2, <2>3, <2>4 DEF CredInv
<1>2. CASE PressWipes
  <2>1. PICK key \in {"ssid", "psk"} :
          /\ Write(key, Absent) /\ btn = key
          /\ btn' = IF key = "ssid" THEN "psk" ELSE "restart"
    BY <1>2 DEF PressWipes
  <2>2. UNCHANGED <<mode, used, saver, typed, over>> BY <1>2 DEF PressWipes
  <2>3. /\ Copy(nvs)' /\ faults' \in 0 .. MaxFaults /\ stored' \in {"whole", "saving", "torn"}
        /\ stored' # "torn" => stored' = stored /\ nvs'[key] = Absent
        /\ \A k \in Keys \ {key} : nvs'[k] = nvs[k]
    BY <2>1, WriteTypes DEF CredInv, CredTypes, Keys, Entered
  <2>4. mode \in {"services", "confirm", "run"} /\ saver = "idle"
    BY <2>1 DEF CredInv, CredTypes
  <2>5. CredTypes' BY <2>1, <2>2, <2>3, <2>4 DEF CredInv, CredTypes, Copy, Entered
  <2>6. stored' # "torn" => nvs'["ssid"] = Absent
    BY <2>1, <2>3 DEF CredInv, WriteInv, Keys
  <2>7. WriteInv' BY <2>2, <2>4, <2>6 DEF WriteInv
  <2>8. UsesWhatWasTyped' BY <2>2, <2>3, CutKept DEF CredInv, UsesWhatWasTyped
  <2> QED BY <2>5, <2>7, <2>8 DEF CredInv
<1> QED BY <1>1, <1>2

LEMMA PortalCreds == ASSUME CredInv, Submit \/ SaveFields PROVE CredInv'
<1>0. MaxFaults \in Nat /\ faults \in 0 .. MaxFaults BY BootAssumption DEF CredInv, CredTypes
<1>1. CASE Submit
  <2>1. mode = "portal" /\ saver = "idle" /\ UNCHANGED <<mode, nvs, used, btn>>
        /\ faults' \in 0 .. MaxFaults
    BY <1>0, <1>1 DEF Submit, Fine, Fault
  <2>2. CASE UNCHANGED portal BY <2>1, <2>2, QuietCreds
  <2>3. ASSUME NEW f \in Forms, typed' = Creds(f), over' = nvs, saver' = "ssid", stored' = "saving"
        PROVE  CredInv'
    <3>1. typed' \in Forms /\ Copy(typed)' BY <2>3, FormIsCopy DEF Copy, Entered
    <3>a. nvs' = nvs /\ nvs = [k \in Keys |-> nvs[k]] BY <2>1 DEF CredInv, CredTypes, Copy
    <3>b. nvs' = CutSave(0)'
      BY <2>3, <3>a DEF CutSave, Place, Keys
    <3>2. CredTypes' BY <2>1, <2>3, <3>1 DEF CredInv, CredTypes, Copy, Entered
    <3>3. btn' = "idle" /\ mode' = "portal" BY <2>1 DEF CredInv, CredTypes
    <3>4. WriteInv' BY <2>3, <3>b, <3>3 DEF WriteInv, Written
    <3>5. UsesWhatWasTyped' BY <3>3 DEF UsesWhatWasTyped, Working
    <3> QED BY <3>2, <3>4, <3>5 DEF CredInv
  <2> QED BY <1>1, <2>2, <2>3 DEF Submit
<1>2. CASE SaveFields
  <2>1. PICK key \in Keys :
          /\ Write(key, typed[key]) /\ saver = key
          /\ saver' = IF key = "ssid" THEN "psk" ELSE IF key = "psk" THEN "backend" ELSE "saved"
    BY <1>2 DEF SaveFields, Save, Keys
  <2>2. UNCHANGED <<mode, used, btn, typed, over>> BY <1>2 DEF SaveFields
  <2>3. typed[key] \in Entered(key) BY DEF CredInv, CredTypes, Copy
  <2>4. /\ Copy(nvs)' /\ faults' \in 0 .. MaxFaults /\ stored' \in {"whole", "saving", "torn"}
        /\ stored' # "torn" => stored' = stored /\ nvs'[key] = typed[key]
        /\ \A k \in Keys \ {key} : nvs'[k] = nvs[k]
    BY <2>1, <2>3, WriteTypes DEF CredInv, CredTypes
  <2>5. mode = "portal" /\ btn = "idle" /\ typed \in Forms /\ stored # "whole"
    BY <2>1 DEF CredInv, CredTypes, WriteInv, Keys
  <2>6. CredTypes' BY <2>1, <2>2, <2>4, <2>5 DEF CredInv, CredTypes, Copy, Entered, Keys
  <2>7. stored' # "whole" BY <2>4, <2>5
  <2>8. stored' = "saving" => (nvs = CutSave(Written[saver]))'
    <3> SUFFICES ASSUME stored' = "saving" PROVE (nvs = CutSave(Written[saver]))' OBVIOUS
    <3>1. nvs = CutSave(Written[saver]) /\ nvs' = [nvs EXCEPT ![key] = typed[key]]
      BY <2>1, <2>3, <2>4, WriteTypes DEF CredInv, CredTypes, WriteInv, Keys
    <3>2. Written[saver'] = Place[key] /\ Written[saver] = Place[key] - 1
      BY <2>1 DEF Written, Place, Keys
    <3>3. CutSave(Written[saver])' = CutSave(Place[key])
      <4>1. typed' = typed /\ over' = over BY <2>2
      <4> QED BY <4>1, <3>2, Zenon DEF CutSave
    <3>4. /\ Place[key] <= Place[key] /\ ~(Place[key] <= Place[key] - 1)
          /\ \A k \in Keys \ {key} : Place[k] <= Place[key] <=> Place[k] <= Place[key] - 1
      BY DEF Place, Keys
    <3>5. CutSave(Place[key]) = [CutSave(Place[key] - 1) EXCEPT ![key] = typed[key]]
      BY <3>4, Zenon DEF CutSave
    <3> QED BY <3>1, <3>2, <3>3, <3>5, Zenon
  <2>9. saver' # "idle" /\ btn' = "idle" /\ mode' = "portal" BY <2>1, <2>2, <2>5 DEF Keys
  <2>10. WriteInv' BY <2>7, <2>8, <2>9 DEF WriteInv
  <2>11. UsesWhatWasTyped' BY <2>9 DEF UsesWhatWasTyped, Working
  <2> QED BY <2>6, <2>10, <2>11 DEF CredInv
<1> QED BY <1>1, <1>2

(* Only a save that came to its end makes NVS whole again.                            *)
LEMMA ResetCreds == ASSUME CredInv, Resets PROVE CredInv'
<1>0. MaxFaults \in Nat /\ faults \in 0 .. MaxFaults BY BootAssumption DEF CredInv, CredTypes
<1>1. /\ mode' = "off" /\ btn' = "idle" /\ saver' = "idle" /\ UNCHANGED nvs
      /\ used' = [k \in Keys |-> Absent]
      /\ faults' \in 0 .. MaxFaults
  BY <1>0 DEF Resets, Restart, PressRestarts, SaveRestarts, PowerCut, Crash, RebootTask, Reset, Fine, Fault
<1>2. \/ UNCHANGED save
      \/ /\ saver = "saved" /\ stored = "saving" /\ stored' = "whole"
         /\ typed' = [k \in Keys |-> Absent] /\ over' = [k \in Keys |-> Absent]
  BY DEF Resets, Restart, PressRestarts, SaveRestarts, PowerCut, Crash, RebootTask
<1>3. Copy(used)' /\ Copy(typed)' /\ Copy(over)' /\ Copy(nvs)'
  BY <1>1, <1>2, BlankIsCopy DEF CredInv, CredTypes, Copy, Entered, save
<1>4. CredTypes' BY <1>1, <1>2, <1>3 DEF CredInv, CredTypes, Modes, save
<1>5. stored' = "whole" => nvs'["ssid"] = Absent \/ nvs' \in Forms
  <2>1. CASE saver = "saved" /\ stored = "saving"
    <3>1. \A k \in Keys : nvs[k] = typed[k]
      BY <2>1 DEF CredInv, WriteInv, Written, CutSave, Place, Keys
    <3>2. nvs = typed BY <3>1 DEF CredInv, CredTypes, Copy
    <3> QED BY <1>1, <2>1, <3>2 DEF CredInv, CredTypes
  <2>2. CASE UNCHANGED save BY <1>1, <2>2 DEF CredInv, WriteInv, save
  <2> QED BY <1>2, <2>1, <2>2
<1>6. stored' = "saving" => nvs'["ssid"] = Absent \/ \E n \in 0 .. 3 : nvs' = CutSave(n)'
  <2>1. SUFFICES ASSUME stored' = "saving"
                 PROVE  nvs'["ssid"] = Absent \/ \E n \in 0 .. 3 : nvs' = CutSave(n)'
    OBVIOUS
  <2>2. stored = "saving" /\ \A n : CutSave(n)' = CutSave(n)
    BY <1>2, <2>1, CutKept DEF save
  <2>3. CASE saver = "idle" BY <1>1, <2>2, <2>3 DEF CredInv, WriteInv
  <2>4. CASE saver # "idle"
    <3>1. nvs = CutSave(Written[saver]) BY <2>2, <2>4 DEF CredInv, WriteInv
    <3>2. Written[saver] \in 0 .. 3 BY <2>4 DEF CredInv, CredTypes, Written
    <3> QED BY <1>1, <2>2, <3>1, <3>2
  <2> QED BY <2>3, <2>4
<1>7. WriteInv' BY <1>1, <1>5, <1>6 DEF WriteInv
<1>8. UsesWhatWasTyped' BY <1>1 DEF UsesWhatWasTyped, Working
<1> QED BY <1>4, <1>7, <1>8 DEF CredInv

LEMMA CredInductive == OtaSpec => []CredInv
<1>1. OtaInit => CredInv
  <2> SUFFICES ASSUME OtaInit PROVE CredInv OBVIOUS
  <2>1. Copy(nvs) /\ Copy(used) /\ Copy(typed) /\ Copy(over)
    BY BlankIsCopy DEF OtaInit, BootInit
  <2>2. CredTypes BY <2>1, BootAssumption DEF OtaInit, BootInit, CredTypes, Modes
  <2>3. WriteInv /\ UsesWhatWasTyped BY DEF OtaInit, BootInit, WriteInv, UsesWhatWasTyped, Working, Keys
  <2> QED BY <2>2, <2>3 DEF CredInv
<1>2. CredInv /\ [OtaNext]_otavars => CredInv'
  <2> SUFFICES ASSUME CredInv, [OtaNext]_otavars PROVE CredInv' OBVIOUS
  <2>0. MaxFaults \in Nat /\ faults \in 0 .. MaxFaults BY BootAssumption DEF CredInv, CredTypes
  <2>1. CASE Bootloader
    <3>1. mode = "off" /\ mode' = "nvs" /\ UNCHANGED <<nvs, used, btn, portal, faults>>
      BY <2>1 DEF Bootloader, Start, Go, Fine
    <3> QED BY <2>0, <3>1, QuietCreds DEF CredInv, CredTypes, Modes, Working
  <2>2. CASE Confirmed
    <3>1. mode = "confirm" /\ mode' = "run" /\ UNCHANGED <<nvs, used, btn, portal, faults>>
      BY <2>2 DEF Confirmed, Confirm, Go, Fine
    <3> QED BY <2>0, <3>1, QuietCreds
  <2>3. CASE HandleOta \/ Select \/ WifiEvent \/ UNCHANGED otavars
    <3>1. UNCHANGED <<mode, nvs, used, btn, portal>>
      BY <2>3 DEF HandleOta, Select, WifiEvent, otavars, bootvars
    <3>2. faults' \in 0 .. MaxFaults
      BY <2>0, <2>3 DEF HandleOta, Select, SetBoot, WifiEvent, otavars, bootvars, Fine, Fault
    <3> QED BY <3>1, <3>2, QuietCreds
  <2>4. CASE MainSteps BY <2>4, MainCreds
  <2>5. CASE LongPress \/ PressWipes BY <2>5, ButtonCreds
  <2>6. CASE Submit \/ SaveFields BY <2>6, PortalCreds
  <2>7. CASE Resets BY <2>7, ResetCreds
  <2> QED BY <2>1, <2>2, <2>3, <2>4, <2>5, <2>6, <2>7 DEF OtaNext, Steps
<1> QED BY <1>1, <1>2, PTL DEF OtaSpec

(* Wherever power fails and however saves, wipes and boots follow each other, a boot   *)
(* works with one form if the last save was completed; if it was cut short, with the   *)
(* fields it had written over what NVS held before, and with no other mixture; only a  *)
(* write that NVS fails is not covered (main.cpp:83-93, 105-134, form_urlencoded.cpp). *)
THEOREM CredentialsAccounted == OtaSpec => []UsesWhatWasTyped
<1>1. CredInv => UsesWhatWasTyped BY DEF CredInv
<1> QED BY <1>1, CredInductive, PTL

(* The safe half of Settles: main itself restarts only after it forgot the network.     *)
ForgetsFirst == faults = 0 /\ mode \in {"forget_psk", "restart"} => nvs["ssid"] = Absent

(* As long as no driver, no write and no power fails, a network that refuses is gone     *)
(* from NVS when main restarts, so that the next boot comes to the portal: there is no    *)
(* loop of restarts around credentials that do not work, although four tasks write NVS   *)
(* (main.cpp:97-134).                                                                     *)
THEOREM NetworkForgotten == OtaSpec => []ForgetsFirst
<1>1. OtaInit => ForgetsFirst BY DEF OtaInit, BootInit, ForgetsFirst
<1>2. CredInv /\ ForgetsFirst /\ [OtaNext]_otavars => ForgetsFirst'
  <2> SUFFICES ASSUME CredInv, ForgetsFirst, [OtaNext]_otavars,
                      faults' = 0, mode' \in {"forget_psk", "restart"}
               PROVE  nvs'["ssid"] = Absent
    BY DEF ForgetsFirst
  <2>0. /\ faults \in 0 .. MaxFaults /\ MaxFaults \in Nat
        /\ nvs = [k \in Keys |-> nvs[k]] /\ "ssid" \in Keys
        /\ saver # "idle" => mode = "portal"
        /\ btn # "idle" => mode \in {"services", "confirm", "run"}
    BY BootAssumption DEF CredInv, CredTypes, Copy, Keys
  <2>1. ~Fault
    <3>1. Fault => faults' = faults + 1 BY DEF Fault
    <3> QED BY <2>0, <3>1
  <2>2. CASE InitNvs \/ ReadCredentials \/ StartPortal \/ Connect \/ WaitOver \/ BringUp \/ StartServices
    BY <2>1, <2>2 DEF InitNvs, ReadCredentials, StartPortal, Connect, WaitOver, Connected, Refused,
         TimedOut, BringUp, StartServices, Go
  <2>3. CASE Forget
    <3>1. CASE Go("forget", "forget_psk") /\ Write("ssid", Absent)
      BY <2>0, <2>1, <3>1 DEF Write
    <3>2. CASE Go("forget_psk", "restart") /\ Write("psk", Absent)
      <4>1. faults = 0 /\ mode = "forget_psk" BY <2>1, <3>2 DEF Go, Write, Fine
      <4>2. nvs' = [nvs EXCEPT !["psk"] = Absent] BY <2>1, <3>2 DEF Write
      <4> QED BY <2>0, <4>1, <4>2 DEF ForgetsFirst
    <3> QED BY <2>1, <2>3, <3>1, <3>2 DEF Forget
  <2>4. CASE Bootloader \/ Confirmed \/ Resets
    <3>1. mode' \in {"nvs", "run", "off"}
      BY <2>4 DEF Bootloader, Start, Go, Confirmed, Confirm, Resets, Restart, PressRestarts,
           SaveRestarts, PowerCut, Crash, RebootTask, Reset
    <3> QED BY <3>1
  <2>5. CASE \/ HandleOta \/ Select \/ WifiEvent \/ LongPress \/ PressWipes \/ Submit \/ SaveFields
             \/ UNCHANGED otavars
    <3>1. mode' = mode
      BY <2>5 DEF HandleOta, Select, WifiEvent, LongPress, PressWipes, Submit, SaveFields,
           otavars, bootvars
    <3>2. ~(PressWipes \/ SaveFields)
      BY <2>0, <3>1 DEF PressWipes, SaveFields, Save
    <3>3. nvs' = nvs
      BY <2>5, <3>2 DEF HandleOta, Select, WifiEvent, LongPress, Submit, otavars, bootvars
    <3>4. faults' = faults
      BY <2>1, <2>5, <3>2 DEF HandleOta, Select, SetBoot, WifiEvent, LongPress, Submit, otavars,
           bootvars, Fine
    <3> QED BY <3>1, <3>3, <3>4 DEF ForgetsFirst
  <2> QED BY <2>2, <2>3, <2>4, <2>5 DEF OtaNext, Steps, MainSteps
<1> QED BY <1>1, <1>2, CredInductive, PTL DEF OtaSpec

(* The type invariant of the device.                                                    *)
RadioTypes ==
  /\ tries \in 0 .. MaxTries /\ drops \in 0 .. MaxTries /\ bits \subseteq {"connected", "failed"}
  /\ link \in {"off", "starting", "trying", "up", "down"}

LEMMA RadioKept == ASSUME LinkInv, RadioTypes, [OtaNext]_otavars PROVE RadioTypes'
<1>0. MaxTries \in Nat \ {0} BY BootAssumption
<1>1. CASE UNCHANGED radio BY <1>1 DEF RadioTypes, radio
<1>2. CASE WifiEvent
  <2>1. CASE StaStart BY <2>1 DEF StaStart, RadioTypes
  <2>2. CASE Disconnected
    <3>1. tries \in 0 .. MaxTries - 1 /\ drops = tries BY <2>2 DEF Disconnected, LinkInv
    <3>2. tries' \in 0 .. MaxTries /\ drops' \in 0 .. MaxTries
      BY <1>0, <2>2, <3>1 DEF Disconnected
    <3>3. bits' \subseteq {"connected", "failed"} /\ link' \in {"trying", "down"}
      BY <2>2 DEF Disconnected, RadioTypes
    <3> QED BY <3>2, <3>3 DEF RadioTypes
  <2>3. CASE GotIp BY <1>0, <2>3 DEF GotIp, RadioTypes
  <2> QED BY <1>2, <2>1, <2>2, <2>3 DEF WifiEvent
<1>3. CASE Connect BY <1>0, <1>1, <1>3 DEF Connect, RadioTypes
<1>4. CASE Resets
  <2>1. tries' = 0 /\ drops' = 0 /\ bits' = {} /\ link' = "off"
    BY <1>4 DEF Resets, Restart, PressRestarts, SaveRestarts, PowerCut, Crash, RebootTask, Reset
  <2> QED BY <1>0, <2>1 DEF RadioTypes
<1>5. CASE Bootloader \/ Confirmed \/ HandleOta \/ Select \/ UNCHANGED otavars
  BY <1>1, <1>5 DEF Bootloader, Start, Confirmed, Confirm, HandleOta, Select, otavars, bootvars
<1>6. CASE InitNvs \/ ReadCredentials \/ StartPortal \/ WaitOver \/ Forget \/ BringUp \/ StartServices
  BY <1>1, <1>6 DEF InitNvs, ReadCredentials, StartPortal, WaitOver, Forget, BringUp, StartServices
<1>7. CASE LongPress \/ PressWipes \/ Submit \/ SaveFields
  BY <1>1, <1>7 DEF LongPress, PressWipes, Submit, SaveFields
<1> QED BY <1>2, <1>3, <1>4, <1>5, <1>6, <1>7 DEF OtaNext, Steps, MainSteps

(* Every counter, flag and copy stays in range, for any number of failures, attempts    *)
(* and forms (main.cpp:97-206, web_server.cpp:241-292).                                 *)
THEOREM DeviceTypeCorrect == OtaSpec => []DeviceTypeOK
<1>1. OtaInit => LinkInv /\ RadioTypes
  BY BootAssumption DEF OtaInit, BootInit, LinkInv, RadioTypes
<1>2. OtaSpec => [](LinkInv /\ RadioTypes)
  BY <1>1, LinkKept, RadioKept, PTL DEF OtaSpec
<1>3. CredInv /\ RadioTypes => BootTypeOK
  BY DEF CredInv, CredTypes, RadioTypes, BootTypeOK, Copy, Entered
<1>4. BootTypeOK /\ OtaTypeOK => DeviceTypeOK BY DEF DeviceTypeOK
<1> QED BY <1>2, <1>3, <1>4, CredInductive, OtaTypeCorrect, PTL
===============================================================================
