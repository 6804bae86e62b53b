-------------------------------- MODULE Boot --------------------------------
(***************************************************************************)
(* How the device gets from power-on to a running session or to the captive   *)
(* portal: app_main with its NVS entries, the Wi-Fi station and its event     *)
(* handler, the portal's save handler and the button's long press. They are   *)
(* four tasks (main, the event loop, the HTTP server, the button timer), one  *)
(* step being what a task does between two accesses to what the others see;   *)
(* each NVS write is a step, because power can fail between two of them.       *)
(* Every failure of a driver, of NVS and of the power uses up one of MaxFaults. *)
(* Ota composes these tasks into the specification of the device.               *)
(***************************************************************************)
EXTENDS FormUrlencoded, FiniteSets

CONSTANTS
  Forms,      \* what users type into the portal: ssid, psk, backend
  Networks,   \* the ssid and psk that the access point accepts
  SsidField, PskField,  \* bytes of the driver's two fields, with the final zero
  MaxTries,   \* kMaxConnectTries
  MaxFaults   \* bound: how many operations fail

ASSUME BootAssumption ==
  /\ {SsidField, PskField, MaxTries} \subseteq Nat \ {0} /\ MaxFaults \in Nat
  /\ Forms \subseteq [ssid : Seq(0 .. 255), psk : Seq(0 .. 255), backend : Seq(0 .. 255)]

VARIABLES
  mode,    \* how far the main task has come; "off" is the reset
  nvs,     \* the NVS keys; an erased key and an empty string are both << >> (main.cpp:110)
  used,    \* the copy of ssid, psk and backend that this boot works with
  tries,   \* g_tries
  bits,    \* g_events
  link,    \* what the Wi-Fi driver is doing
  btn,     \* the long-press handler
  saver,   \* the portal's save handler
  typed,   \* the form it is saving; after a reset read by properties only
  over,    \* what NVS held when that save began (read by properties only)
  faults,  \* failures so far
  stored,  \* NVS is whole, in a save that was not completed, or a write of it failed
           \* (read by properties only)
  drops    \* disconnections since the last IP address (read by properties only)

radio    == <<tries, bits, link, drops>>
save     == <<typed, over, stored>>
portal   == <<saver, save>>
bootvars == <<mode, nvs, used, radio, btn, portal, faults>>

Absent == << >>
Keys   == {"ssid", "psk", "backend"}

BootInit ==
  /\ mode = "off"
  /\ nvs = [k \in Keys |-> Absent] /\ used = nvs
  /\ tries = 0 /\ bits = {} /\ link = "off" /\ drops = 0
  /\ btn = "idle"
  /\ saver = "idle" /\ typed = nvs /\ over = nvs /\ stored = "whole"
  /\ faults = 0

Fault == faults < MaxFaults /\ faults' = faults + 1
Fine  == UNCHANGED faults

\* Every way a reset happens: nothing but NVS survives.
Reset ==
  /\ mode' = "off"
  /\ used' = [k \in Keys |-> Absent]
  /\ tries' = 0 /\ bits' = {} /\ link' = "off" /\ drops' = 0
  /\ btn' = "idle" /\ saver' = "idle"

PowerCut == mode # "off" /\ Fault /\ Reset /\ UNCHANGED <<nvs, save>>

----------------------------------------------------------------------------
(* The main task: decideAndRun()                                            *)

Go(from, to) == mode = from /\ mode' = to

Start == Go("off", "nvs") /\ Fine /\ UNCHANGED <<nvs, used, radio, btn, portal>>

\* NvsKv::initPartition: a full or outdated partition is erased.
InitNvs ==
  /\ \/ Go("nvs", "creds") /\ Fine /\ UNCHANGED nvs
     \/ Go("nvs", "creds") /\ Fault /\ nvs' = [k \in Keys |-> Absent]
     \/ Go("nvs", "restart") /\ Fault /\ UNCHANGED nvs
  /\ UNCHANGED <<used, radio, btn, portal>>

Provisioned == nvs["ssid"] # Absent /\ nvs["backend"] # Absent

ReadCredentials ==
  /\ \/ Provisioned /\ Go("creds", "connect") /\ Fine /\ used' = nvs
     \/ ~Provisioned /\ Go("creds", "softap") /\ Fine /\ UNCHANGED used
     \/ Go("creds", "softap") /\ Fault /\ UNCHANGED used      \* NvsKv::open failed
  /\ UNCHANGED <<nvs, radio, btn, portal>>

StartPortal ==
  /\ \/ Go("softap", "portal") /\ Fine
     \/ Go("softap", "restart") /\ Fault
  /\ UNCHANGED <<nvs, used, radio, btn, portal>>

\* WifiSta::connect up to its wait; a driver error is handled like a refusal.
Connect ==
  /\ \/ /\ Go("connect", "wait") /\ Fine
        /\ tries' = 0 /\ bits' = {} /\ link' = "starting" /\ drops' = 0
     \/ Go("connect", "forget") /\ Fault /\ UNCHANGED radio
  /\ UNCHANGED <<nvs, used, btn, portal>>

Connected == Go("wait", "hal") /\ "connected" \in bits
Refused   == Go("wait", "forget") /\ bits = {"failed"}
TimedOut  == Go("wait", "forget") /\ bits = {}

WaitOver == (Connected \/ Refused \/ TimedOut) /\ Fine /\ UNCHANGED <<nvs, used, radio, btn, portal>>

\* A write of NVS either happens or fails without a trace; its result is not looked at.
Write(key, value) ==
  \/ Fine /\ nvs' = [nvs EXCEPT ![key] = value] /\ UNCHANGED stored
  \/ Fault /\ stored' = "torn" /\ UNCHANGED nvs

\* Planted: the credentials that failed are kept.
BugKeepsCredentials ==
  /\ Go("forget", "restart") /\ Fine
  /\ UNCHANGED <<nvs, used, radio, btn, portal>>

\* The credentials that failed are erased key by key, the backend stays.
Forget ==
  /\ \/ Go("forget", "forget_psk") /\ Write("ssid", Absent)
     \/ Go("forget_psk", "restart") /\ Write("psk", Absent)
     \/ Go("forget", "restart") /\ Fault /\ UNCHANGED <<nvs, stored>>     \* NvsKv::open failed
  /\ UNCHANGED <<used, radio, btn, saver, typed, over>>

BringUp ==
  /\ \/ Go("hal", "services") /\ Fine
     \/ Go("hal", "restart") /\ Fault
  /\ UNCHANGED <<nvs, used, radio, btn, portal>>

\* ICE fetch, session and web console: none of their failures stops the boot.
StartServices == Go("services", "confirm") /\ Fine /\ UNCHANGED <<nvs, used, radio, btn, portal>>
Confirm       == Go("confirm", "run") /\ Fine /\ UNCHANGED <<nvs, used, radio, btn, portal>>
Restart       == mode = "restart" /\ Fine /\ Reset /\ UNCHANGED <<nvs, save>>

----------------------------------------------------------------------------
(* The event loop: eventHandler()                                           *)

\* strncpy into a field of the driver's configuration leaves room for a final zero.
Fit(text, field) == SubSeq(text, 1, IF Len(text) < field THEN Len(text) ELSE field - 1)

Accepted == [ssid |-> Fit(used["ssid"], SsidField), psk |-> Fit(used["psk"], PskField)] \in Networks

StaStart == link = "starting" /\ link' = "trying" /\ UNCHANGED <<tries, bits, drops>>

\* The access point refuses, or is gone.
Disconnected ==
  /\ link \in {"trying", "up"}
  /\ tries' = tries + 1 /\ drops' = drops + 1
  /\ \/ tries' < MaxTries /\ link' = "trying" /\ UNCHANGED bits
     \/ tries' >= MaxTries /\ link' = "down" /\ bits' = bits \cup {"failed"}

\* Planted: the count of the failed attempts is never reset.
BugTriesStay ==
  /\ link = "trying" /\ Accepted
  /\ UNCHANGED tries /\ drops' = 0 /\ link' = "up" /\ bits' = bits \cup {"connected"}

GotIp ==
  /\ link = "trying" /\ Accepted
  /\ tries' = 0 /\ drops' = 0 /\ link' = "up" /\ bits' = bits \cup {"connected"}

WifiEvent == (StaStart \/ Disconnected \/ GotIp) /\ UNCHANGED <<mode, nvs, used, btn, portal, faults>>

----------------------------------------------------------------------------
(* The button's timer: the long press that main() registers                 *)

Pressed == btn = "idle" /\ mode \in {"services", "confirm", "run"}

LongPress ==
  /\ \/ Pressed /\ btn' = "ssid" /\ Fine
     \/ Pressed /\ btn' = "restart" /\ Fault       \* NvsKv::open failed
  /\ UNCHANGED <<mode, nvs, used, radio, portal>>

PressWipes ==
  /\ \/ btn = "ssid" /\ btn' = "psk" /\ Write("ssid", Absent)
     \/ btn = "psk" /\ btn' = "restart" /\ Write("psk", Absent)
  /\ UNCHANGED <<mode, used, radio, saver, typed, over>>

PressRestarts == btn = "restart" /\ Fine /\ Reset /\ UNCHANGED <<nvs, save>>

----------------------------------------------------------------------------
(* The portal's HTTP server, one request at a time: handleSave()            *)

\* The fields in the order of the page's form.
Body(f) == << [key |-> "ssid", value |-> UrlEncode(f.ssid)],
              [key |-> "psk", value |-> UrlEncode(f.psk)],
              [key |-> "backend", value |-> UrlEncode(f.backend)] >>

Creds(f) == [k \in Keys |-> FormGet(Body(f), k)]

\* A body that is too large, cut off or without a field changes nothing, and so does
\* a failing NvsKv::open, although the page then says "Saved".
Submit ==
  /\ mode = "portal" /\ saver = "idle"
  /\ \E f \in Forms :
       \/ Fine /\ typed' = Creds(f) /\ over' = nvs /\ saver' = "ssid" /\ stored' = "saving"
       \/ Fault /\ UNCHANGED portal
  /\ UNCHANGED <<mode, nvs, used, radio, btn>>

Save(from, to) == saver = from /\ saver' = to /\ Write(from, typed[from])

\* Planted: an empty password is not written.
BugSkipsEmptyPsk ==
  /\ \/ Save("ssid", "psk") \/ Save("backend", "saved")
     \/ typed["psk"] # Absent /\ Save("psk", "backend")
     \/ typed["psk"] = Absent /\ saver = "psk" /\ saver' = "backend" /\ Fine /\ UNCHANGED <<nvs, stored>>
  /\ UNCHANGED <<mode, used, radio, btn, typed, over>>

SaveFields ==
  /\ Save("ssid", "psk") \/ Save("psk", "backend") \/ Save("backend", "saved")
  /\ UNCHANGED <<mode, used, radio, btn, typed, over>>

SaveRestarts ==
  /\ saver = "saved" /\ Fine /\ Reset /\ UNCHANGED nvs
  /\ IF stored = "saving"
     THEN /\ stored' = "whole"
          /\ typed' = [k \in Keys |-> Absent] /\ over' = typed'
     ELSE UNCHANGED save

----------------------------------------------------------------------------

Modes == {"off", "nvs", "creds", "softap", "portal", "connect", "wait", "forget", "forget_psk",
          "hal", "services", "confirm", "run", "restart"}

(* The copies of the credentials are absent or decoded from a form, the       *)
(* counters and program counters stay in range, and there is no link and no   *)
(* button before the boot has come that far (main.cpp:97-206).               *)
BootTypeOK ==
  /\ mode \in Modes
  /\ \A k \in Keys : {nvs[k], used[k], typed[k], over[k]} \subseteq {Absent} \cup {f[k] : f \in Forms}
  /\ tries \in 0 .. MaxTries /\ drops \in 0 .. MaxTries /\ bits \subseteq {"connected", "failed"}
  /\ link \in {"off", "starting", "trying", "up", "down"}
  /\ btn \in {"idle", "ssid", "psk", "restart"}
  /\ saver \in {"idle", "ssid", "psk", "backend", "saved"}
  /\ faults \in 0 .. MaxFaults
  /\ stored \in {"whole", "saving", "torn"}
  /\ saver # "idle" => mode = "portal"
  /\ btn # "idle" => mode \in {"services", "confirm", "run"}

Working == {"connect", "wait", "hal", "services", "confirm", "run"}

\* NVS when the fields up to the n-th of the form are written and the rest is not.
Place      == [ssid |-> 1, psk |-> 2, backend |-> 3]
CutSave(n) == [k \in Keys |-> IF Place[k] <= n THEN typed[k] ELSE over[k]]

(* A boot works with what one user typed into one form, byte for byte, if the last *)
(* save was completed: nothing of an older network, wiped half or entirely, is      *)
(* mixed in, and the portal's decoder undoes what the browser's encoder did. If the *)
(* power went in that save, it works with its first fields over what was there, and  *)
(* with no other mixture, whatever wipes and boots came between (main.cpp:83-93,      *)
(* 105-134, form_urlencoded.cpp). Only a write that NVS itself fails, a result that   *)
(* main.cpp:86-89 does not look at, leaves something else.                            *)
UsesWhatWasTyped ==
  mode \in Working =>
    /\ stored = "whole" => \E f \in Forms : used = f
    /\ stored = "saving" => \E n \in 0 .. 3 : used = CutSave(n)

(* The station gives up only after kMaxConnectTries disconnections in a row     *)
(* without an IP address in between, however long it has been up: "reset the     *)
(* counter so a future transient disconnect doesn't immediately exhaust the      *)
(* budget" (wifi_sta.cpp:30-40).                                                *)
GivesUpAfterFullBudget == link = "down" => drops = MaxTries

(* Whatever fails and whatever the access point does, the device ends up running  *)
(* or in the portal: it never restarts for ever (main.cpp:97-206).                *)
Settles == []<>(mode \in {"run", "portal"})
=============================================================================
