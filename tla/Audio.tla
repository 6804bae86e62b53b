------------------------------- MODULE Audio -------------------------------
(***************************************************************************)
(* The audio tasks together: captureTask listens, collects the audio behind  *)
(* a fire, arms the turn and asks for its chirps; uploadTask posts the       *)
(* snapshot; playbackTask plays what libpeer's callback decoded.             *)
(***************************************************************************)
EXTENDS WakeCapture, Playback

avars == <<cvars, pvars>>

AudioInit == CaptureInit /\ PlaybackInit

(* One 20 ms frame of captureTask: a fire arms the turn, and only then may   *)
(* the deadline be found lapsed.                                             *)
Capture ==
  /\ Frame
  /\ IF fire_seq' # fire_seq THEN Arm ELSE Lapse \/ UNCHANGED pvars

GiveUp == Abandon /\ UNCHANGED cvars
Reply  == \E n \in Payloads : Inbound(n) /\ UNCHANGED cvars
Speak  == Play /\ UNCHANGED cvars

Background == (UploadIdle \/ Upload) /\ UNCHANGED pvars

AudioNext == Capture \/ GiveUp \/ Reply \/ Speak \/ Background

(* Both tasks run forever; the uploader's request has a timeout.             *)
AudioFairness == WF_avars(Upload /\ UNCHANGED pvars) /\ WF_avars(Speak)

AudioSpec == AudioInit /\ [][AudioNext]_avars /\ AudioFairness

----------------------------------------------------------------------------
(* The type invariant of the three tasks (session.cpp:198-226, 588-683, 724-773).      *)
AudioTypeOK == CaptureTypeOK /\ PlaybackTypeOK

(* The latest chirp asked for is heard, even if it was asked for while an earlier one  *)
(* was playing; one that is still waiting then gives way (session.cpp:668, 680,        *)
(* 735-752).                                                                           *)
LatestChirpHeard == \A n \in 1 .. MaxFrames : (asked >= n) ~> (heard >= n)
=============================================================================
