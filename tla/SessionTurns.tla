---------------------------- MODULE SessionTurns ----------------------------
(***************************************************************************)
(* Session with history variables that follow one turn across both tasks.  *)
(* They are read by properties only: no action of Session depends on them. *)
(***************************************************************************)
EXTENDS Session

VARIABLES
  behind,    \* a turn was armed since mainLoop last read conversation_active_
  own_peer,  \* the present peer was created for the turn last armed
  used       \* reconnects since the turn was armed

hvars == <<vars, behind, own_peer, used>>

TurnArmed   == ~active /\ active'
WantRead    == mpc = "delay" /\ prev_want' = active /\ mpc' # "delay"
PeerCreated == peer = "none" /\ peer' = "new"
Reconnected == mpc = "drop" /\ mpc' = "delay"

HInit == Init /\ behind = FALSE /\ own_peer = FALSE /\ used = 0

History ==
  /\ behind'   = IF TurnArmed THEN TRUE ELSE behind /\ ~WantRead
  /\ own_peer' = IF TurnArmed THEN FALSE ELSE own_peer \/ PeerCreated
  /\ used'     = IF TurnArmed THEN 0
                 ELSE IF Reconnected THEN Lesser(used + 1, MaxReconnects + 1) ELSE used

HNext == Next /\ History
HSpec == HInit /\ [][HNext]_hvars

(* A flapping relay is given at most MaxReconnects rebuilds in one turn, whatever   *)
(* turns, wakes and drops came before it (session.cpp:35-37, 468, 505-517).         *)
ReconnectsBounded == used <= MaxReconnects

(* "the next wake word starts clean" (session.cpp:486-487): a packet of a turn goes *)
(* to a peer that was created for that turn.                                        *)
NextWakeStartsClean == cpc = "send" /\ active => own_peer

(* "signaling.sendOffer failed; abandoning this turn" (session.cpp:401), "Still     *)
(* negotiating and stalled -> abandon the turn" (session.cpp:520): what mainLoop     *)
(* abandons is the turn it was working for, not one armed while it was blocked.      *)
AbandonsOwnTurn ==
  [][active /\ ~active' /\ mpc \in {"offer", "abandon", "giveup"} /\ UNCHANGED cpc
       => ~behind]_hvars
=============================================================================
