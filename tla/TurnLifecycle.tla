---------------------------- MODULE TurnLifecycle ----------------------------
(***************************************************************************)
(* What the on-demand connection model of app::Session promises: the wake  *)
(* word opens a turn, main connects because it saw the turn, and the       *)
(* connection goes away only because main saw the turn over or is          *)
(* rebuilding it.  There is no connection without a peer, and main never   *)
(* builds one for a turn it has not looked at.                             *)
(***************************************************************************)
VARIABLES
  active,     \* conversation_active_
  want,       \* main's last reading of active (prev_want)
  have,       \* peer_ is not null
  connected   \* connected_

lifecycle == <<active, want, have, connected>>

LifecycleInit == active = FALSE /\ want = FALSE /\ have = FALSE /\ connected = FALSE

\* captureTask: the wake word fires outside a turn.
Wake ==
  /\ ~active /\ active' = TRUE
  /\ UNCHANGED <<want, have, connected>>

\* captureTask: the deadline lapsed.  mainLoopTask: the turn is abandoned.
EndTurn ==
  /\ active /\ active' = FALSE
  /\ UNCHANGED <<want, have, connected>>

\* mainLoopTask reads active.
Look ==
  /\ want # active /\ want' = active
  /\ UNCHANGED <<active, have, connected>>

Build ==
  /\ want /\ ~have /\ have' = TRUE
  /\ UNCHANGED <<active, want, connected>>

Establish ==
  /\ want /\ have /\ ~connected /\ connected' = TRUE
  /\ UNCHANGED <<active, want, have>>

Disconnect ==
  /\ have /\ have' = FALSE /\ connected' = FALSE
  /\ UNCHANGED <<active, want>>

Release == ~want /\ Disconnect     \* the conversation ended
Rebuild == want /\ Disconnect      \* dropped in mid-talk

LifecycleNext == Wake \/ EndTurn \/ Look \/ Build \/ Establish \/ Release \/ Rebuild

LifecycleSpec == LifecycleInit /\ [][LifecycleNext]_lifecycle
=============================================================================
