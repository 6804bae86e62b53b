-------------------------------- MODULE Ota --------------------------------
(***************************************************************************)
(* Firmware updates: the console's upload handler, the task that reboots     *)
(* 1.2 s later, the two slots and the bootloader with rollback enabled, and   *)
(* main's confirmation, composed with the boot. The bootloader and esp_ota_*  *)
(* are outside the repository: a new image gets one trial, an image that was   *)
(* not confirmed is aborted at the next reset, what is not an image is never   *)
(* started, and no upload begins in a trial.                                  *)
(***************************************************************************)
EXTENDS Boot

VARIABLES
  image,    \* what each slot holds; a bad image crashes before main confirms it
  flag,     \* the state of each slot in otadata
  sel,      \* the slot that otadata selects
  running,  \* the slot this boot runs from
  upload,   \* handleOta
  ring,     \* the rainbow override, or "auto"
  reboot    \* ota_reboot_task waits to restart

flash   == <<image, flag, sel>>
console == <<running, upload, ring, reboot>>
otavars == <<bootvars, flash, console>>

Slots    == 0 .. 1
Other(s) == 1 - s

OtaInit ==
  /\ BootInit
  /\ image = [s \in Slots |-> IF s = 0 THEN "good" ELSE "none"]
  /\ flag = [s \in Slots |-> "undefined"]
  /\ sel = 0 /\ running = 0 /\ upload = "idle" /\ ring = "auto" /\ reboot = FALSE

ConsoleReset == running' = 0 /\ upload' = "idle" /\ ring' = "auto" /\ reboot' = FALSE

----------------------------------------------------------------------------
(* The bootloader and the confirmation                                      *)

Bootable(s) == image[s] \in {"good", "bad"} /\ flag[s] \notin {"pending", "aborted"}

Runs(s) ==
  /\ Bootable(s)
  /\ sel' = s /\ running' = s
  /\ flag' = [x \in Slots |-> IF x = s /\ flag[x] = "new" THEN "pending"
                              ELSE IF flag[x] = "pending" THEN "aborted" ELSE flag[x]]

Bootloader ==
  /\ Start
  /\ Runs(sel) \/ (~Bootable(sel) /\ Runs(Other(sel)))
  /\ UNCHANGED <<image, upload, ring, reboot>>

\* Planted: the selected image is confirmed, not the running one.
BugMarksSelected == flag' = [flag EXCEPT ![sel] = "valid"]

MarkValid == flag' = [flag EXCEPT ![running] = IF @ = "pending" THEN "valid" ELSE @]

\* Planted: the image is confirmed as soon as NVS is up.
BugConfirmEarly ==
  \/ /\ InitNvs /\ mode' = "creds" /\ MarkValid /\ UNCHANGED <<image, sel, console>>
  \/ /\ Confirm /\ image[running] = "good" /\ UNCHANGED <<flash, console>>

Confirmed == Confirm /\ image[running] = "good" /\ MarkValid /\ UNCHANGED <<image, sel, console>>

Crash == mode # "off" /\ image[running] = "bad" /\ Fine /\ Reset /\ UNCHANGED <<nvs, save>>

----------------------------------------------------------------------------
(* handleOta(), on the HTTP server's task                                   *)

Target == Other(running)

Begin ==
  /\ mode \in {"confirm", "run"} /\ upload = "idle" /\ flag[running] # "pending"
  /\ image' = [image EXCEPT ![Target] = "partial"]
  /\ upload' = "writing" /\ ring' = "rainbow"
  /\ UNCHANGED <<flag, sel, running, reboot>>

\* Planted: an upload that breaks off leaves the ring to the override.
BugRingKept ==
  /\ upload = "writing" /\ upload' = "idle" /\ UNCHANGED ring
  /\ UNCHANGED <<flash, running, reboot>>

\* The connection breaks or a write fails: esp_ota_abort.
Broken ==
  /\ upload = "writing" /\ upload' = "idle" /\ ring' = "auto"
  /\ UNCHANGED <<flash, running, reboot>>

\* The last byte is written and esp_ota_end looks at the image. An upload that began
\* while the reboot is due does not get this far: its erase alone takes longer.
End ==
  /\ upload = "writing" /\ ~reboot
  /\ \/ \E i \in {"good", "bad"} :
          image' = [image EXCEPT ![Target] = i] /\ upload' = "ended" /\ UNCHANGED ring
     \/ UNCHANGED image /\ upload' = "idle" /\ ring' = "auto"       \* not an image
  /\ UNCHANGED <<flag, sel, running, reboot>>

\* esp_ota_set_boot_partition; the task that reboots is started on the way out,
\* and no one looks whether it could be.
SetBoot ==
  /\ upload = "ended" /\ upload' = "idle"
  /\ \/ /\ \/ Fine /\ reboot' = TRUE
           \/ Fault /\ UNCHANGED reboot
        /\ sel' = Target /\ flag' = [flag EXCEPT ![Target] = "new"] /\ UNCHANGED ring
     \/ Fault /\ ring' = "auto" /\ UNCHANGED <<sel, flag, reboot>>
  /\ UNCHANGED <<image, running>>

HandleOta == (Begin \/ Broken \/ End) /\ UNCHANGED bootvars
Select    == SetBoot /\ UNCHANGED <<mode, nvs, used, radio, btn, portal>>

RebootTask == reboot /\ Fine /\ Reset /\ UNCHANGED <<nvs, save>>

----------------------------------------------------------------------------

Resets == (Restart \/ PressRestarts \/ SaveRestarts \/ PowerCut \/ Crash \/ RebootTask) /\ ConsoleReset /\ UNCHANGED flash

MainSteps == InitNvs \/ ReadCredentials \/ StartPortal \/ Connect \/ WaitOver \/ Forget \/ BringUp \/ StartServices
Steps     == (MainSteps \/ WifiEvent \/ LongPress \/ PressWipes \/ Submit \/ SaveFields) /\ UNCHANGED <<flash, console>>

OtaNext == Bootloader \/ Steps \/ Resets \/ Confirmed \/ HandleOta \/ Select

\* The tasks run, a bad image does crash, an upload ends or breaks. The confirmation
\* is strongly fair: it takes no time, so an upload cannot overtake it in every boot.
OtaFairness ==
  /\ WF_otavars(Bootloader \/ (MainSteps /\ UNCHANGED <<flash, console>>))
  /\ SF_otavars(Confirmed)
  /\ WF_otavars(Resets /\ ~PowerCut)
  /\ WF_otavars((PressWipes \/ SaveFields) /\ UNCHANGED <<flash, console>>)
  /\ WF_otavars(Select \/ ((Broken \/ End) /\ UNCHANGED bootvars))

OtaSpec == OtaInit /\ [][OtaNext]_otavars /\ OtaFairness

----------------------------------------------------------------------------

(* Slots, flags and the upload stay in range; in a boot the selected slot is the  *)
(* running one until an upload selects the other (web_server.cpp:241-292).         *)
OtaTypeOK ==
  /\ image \in [Slots -> {"none", "partial", "good", "bad"}]
  /\ flag \in [Slots -> {"undefined", "new", "pending", "valid", "aborted"}]
  /\ sel \in Slots /\ running \in Slots
  /\ upload \in {"idle", "writing", "ended"} /\ ring \in {"auto", "rainbow"} /\ reboot \in BOOLEAN
  /\ (mode # "off" /\ sel # running) => flag[sel] = "new"
  /\ upload # "idle" => mode \in {"confirm", "run"}

(* The type invariant of the device, of the boot and of the updates together           *)
(* (main.cpp:97-206, web_server.cpp:241-292).                                          *)
DeviceTypeOK == BootTypeOK /\ OtaTypeOK

Proven(s) == image[s] = "good" /\ flag[s] \in {"undefined", "valid"}
OnTrial(s) == flag[s] \in {"new", "pending", "aborted"} \/ image[s] \notin {"good", "bad"}

(* A bad update can't brick the device (sdkconfig.defaults:25-29): at any moment,    *)
(* whatever was uploaded and wherever power fails, a proven image is in flash, and   *)
(* the one selected is it or gets one trial before the device falls back to it.      *)
SafeToBoot == \E s \in Slots : Proven(s) /\ (sel # s => OnTrial(sel))

(* The rainbow means that an upload is being written or was accepted: every way to   *)
(* fail hands the ring back (web_server.cpp:255-286).                                *)
RainbowMeansUpdate == ring = "rainbow" => upload # "idle" \/ sel # running
=============================================================================
