------------------------------- MODULE DeviceMC -------------------------------
(* Small instance for TLC: two networks, the second one open, and a third   *)
(* whose name fills the driver's field. Their texts hold what a form escapes:  *)
(* space, plus, percent, ampersand, a byte above 127.                          *)
EXTENDS Ota

MCForms == { [ssid |-> <<65, 32>>, psk |-> <<37, 50, 66>>, backend |-> <<43, 38>>],
             [ssid |-> <<195>>, psk |-> << >>, backend |-> <<104>>],
             [ssid |-> <<66, 67, 68>>, psk |-> << >>, backend |-> <<104>>] }

MCNetworks == { [ssid |-> f.ssid, psk |-> f.psk] : f \in MCForms }
=============================================================================
